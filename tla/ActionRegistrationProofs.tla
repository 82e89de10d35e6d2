----------------------- MODULE ActionRegistrationProofs -----------------------
(***************************************************************************)
(* Proofs about ActionRegistration, for any actions, models, names and     *)
(* rows.  An action has an observer in the model it is registered with and *)
(* in no other, and a slot of that model hears it.  What is exported is    *)
(* then shown because every step that changes the name which is observed   *)
(* looks it up, and a name that cannot be observed is not exported.        *)
(***************************************************************************)
EXTENDS ActionRegistration, TLAPS

\* A slot of the model that an action has is connected to the action's signals.
Heard == \A a \in Actions, m \in Models : model[a] = m => slots[a][m] > 0

\* Nothing is exported without a name.
NamelessAbsent == \A m \in Models : \A f \in FullNames : f[2] = NoName => exported[m][f] = Absent

IInv ==
  /\ TypeOK /\ RegisteredWithItsModel /\ ObservedShown /\ ActivationReachesModel
  /\ Heard /\ NamelessAbsent

-----------------------------------------------------------------------------
(* Names.                                                                  *)

LEMMA RowOfSequence ==
  ASSUME NEW rs \in RowSequences, NEW i \in DOMAIN rs
  PROVE  rs[i] \in Namespaces \cup {Bare}
<1>1. \E n \in 0..(MaxIndex + 1) : rs \in [1..n -> Namespaces \cup {Bare}]
  BY Zenon DEF RowSequences
<1> QED BY <1>1

LEMMA FullNameTyped ==
  ASSUME TypeOK, NEW a \in Actions, NEW m \in Models
  PROVE  FullName(a, m) \in FullNames
<1> DEFINE i == index[a] + 1
<1>1. \A rs \in RowSequences : i \in DOMAIN rs => rs[i] \in Namespaces \cup {Bare}
  BY RowOfSequence
<1>2. i \in DOMAIN rows[m] => rows[m][i] \in Namespaces \cup {Bare}
  BY <1>1 DEF TypeOK
<1>3. name[a] \in Names \cup {NoName}
  BY DEF TypeOK
<1>4. FullName(a, m) = <<IF i \in DOMAIN rows[m] THEN rows[m][i] ELSE Bare, name[a]>>
  BY DEF FullName
<1> HIDE DEF i
<1> QED BY <1>2, <1>3, <1>4 DEF FullNames

\* An action is registered with one model at most.
LEMMA OneModel ==
  ASSUME RegisteredWithItsModel, NEW a \in Actions, NEW m \in Models, observer[a][m] # Unregistered
  PROVE  model[a] = m
BY DEF RegisteredWithItsModel

\* The properties that the other steps leave alone.
LEMMA SilentReaches ==
  ASSUME sent' = Silent
  PROVE  ActivationReachesModel' /\ sent'.by \subseteq Actions
         /\ sent'.to \subseteq Models \X FullNames \X (1..MaxConnections)
BY DEF Silent, ActivationReachesModel

-----------------------------------------------------------------------------
(* The steps.                                                              *)

\* An action gets another name or index: in its model the new name is looked up.
LEMMA Renamed ==
  ASSUME IInv, NEW a \in Actions, UpdateRegisteredAction(a),
         model' = model /\ slots' = slots /\ rows' = rows /\ exported' = exported /\ sent' = Silent,
         name' \in [Actions -> Names \cup {NoName}], index' \in [Actions -> Indexes]
  PROVE  IInv'
<1> DEFINE ms == {m \in Models : slots[a][m] > 0 /\ observer[a][m] # Unregistered}
           known == {m \in ms : exported[m][FullName(a, m)'] # Absent}
<1>1. /\ observer' = [observer EXCEPT ![a] = [m \in Models |-> IF m \in ms THEN FullName(a, m)' ELSE @[m]]]
      /\ IF known = {} THEN UNCHANGED <<valid, state>>
         ELSE \E m \in known : /\ valid' = [valid EXCEPT ![a] = TRUE]
                               /\ state' = [state EXCEPT ![a] = exported[m][FullName(a, m)']]
  BY DEF UpdateRegisteredAction
<1>2. /\ TypeOK /\ RegisteredWithItsModel /\ ObservedShown /\ Heard /\ NamelessAbsent
  BY DEF IInv
<1>3. ASSUME NEW m \in Models PROVE FullName(a, m)' \in FullNames
  <2> DEFINE i == index'[a] + 1
  <2>1. \A rs \in RowSequences : i \in DOMAIN rs => rs[i] \in Namespaces \cup {Bare}
    BY RowOfSequence
  <2>2. i \in DOMAIN rows[m] => rows[m][i] \in Namespaces \cup {Bare}
    BY <1>2, <2>1 DEF TypeOK
  <2>3. name'[a] \in Names \cup {NoName}
    OBVIOUS
  <2>4. FullName(a, m)' = <<IF i \in DOMAIN rows[m] THEN rows[m][i] ELSE Bare, name'[a]>>
    BY DEF FullName
  <2> HIDE DEF i
  <2> QED BY <2>2, <2>3, <2>4 DEF FullNames
<1>4. \A m \in ms : m = model[a]
  BY <1>2, OneModel
<1>5. observer' \in [Actions -> [Models -> FullNames \cup {Unregistered}]]
  <2>1. [m \in Models |-> IF m \in ms THEN FullName(a, m)' ELSE observer[a][m]] \in
          [Models -> FullNames \cup {Unregistered}]
    BY <1>2, <1>3 DEF TypeOK
  <2> HIDE DEF ms
  <2> QED BY <1>1, <1>2, <2>1 DEF TypeOK
<1>6. ASSUME NEW b \in Actions, NEW m \in Models
      PROVE  observer'[b][m] = IF b = a /\ m \in ms THEN FullName(a, m)' ELSE observer[b][m]
  <2> HIDE DEF ms
  <2> QED BY <1>1, <1>2 DEF TypeOK
<1>7. valid' \in [Actions -> BOOLEAN] /\ state' \in [Actions -> Values \cup {Absent}]
  <2>1. ASSUME NEW m \in known PROVE exported[m][FullName(a, m)'] \in Values \cup {Absent}
    BY <1>2, <1>3 DEF TypeOK
  <2> HIDE DEF known
  <2> QED BY <1>1, <1>2, <2>1 DEF TypeOK
<1>8. TypeOK'
  BY <1>2, <1>5, <1>7, SilentReaches DEF TypeOK
<1>9. RegisteredWithItsModel'
  <2> SUFFICES ASSUME NEW b \in Actions, NEW m \in Models
               PROVE  observer'[b][m] # Unregistered <=> model'[b] = m
    BY DEF RegisteredWithItsModel
  <2>1. observer'[b][m] # Unregistered <=> observer[b][m] # Unregistered
    BY <1>3, <1>6, RegistrationAssumption
  <2> QED BY <1>2, <2>1 DEF RegisteredWithItsModel
<1>10. ObservedShown'
  <2> SUFFICES ASSUME NEW b \in Actions, NEW m \in Models,
                      observer'[b][m] # Unregistered, exported'[m][observer'[b][m]] # Absent
               PROVE  valid'[b] /\ state'[b] = exported'[m][observer'[b][m]]
    BY DEF ObservedShown
  <2>1. CASE b = a /\ m \in ms
    <3>1. m \in known /\ \A k \in known : k = m
      BY <1>4, <1>6, <2>1
    <3>2. valid' = [valid EXCEPT ![a] = TRUE] /\ state' = [state EXCEPT ![a] = exported[m][FullName(a, m)']]
      <4> HIDE DEF known
      <4> QED BY <1>1, <3>1
    <3> HIDE DEF ms, known
    <3> QED BY <1>2, <1>6, <2>1, <3>2 DEF TypeOK
  <2>2. CASE ~(b = a /\ m \in ms)
    <3>1. observer'[b][m] = observer[b][m]
      BY <1>6, <2>2
    <3>2. valid[b] /\ state[b] = exported[m][observer[b][m]]
      BY <1>2, <3>1 DEF ObservedShown
    <3>3. valid'[b] = valid[b] /\ state'[b] = state[b]
      <4>1. CASE b = a
        <5>1. model[a] = m
          BY <1>2, <3>1, <4>1, OneModel
        <5>2. known = {}
          BY <1>4, <2>2, <4>1, <5>1
        <5> QED BY <1>1, <5>2
      <4>2. CASE b # a
        <5> HIDE DEF known
        <5> QED BY <1>1, <1>2, <4>2 DEF TypeOK
      <4> QED BY <4>1, <4>2
    <3> QED BY <3>1, <3>2, <3>3
  <2> QED BY <2>1, <2>2
<1>11. Heard' /\ NamelessAbsent'
  BY <1>2 DEF Heard, NamelessAbsent
<1> QED BY <1>8, <1>9, <1>10, <1>11, SilentReaches DEF IInv

LEMMA SetModelStep ==
  ASSUME IInv, NEW a \in Actions, NEW k \in Models \cup {NoModel}, SetModel(a, k)
  PROVE  IInv'
<1>1. /\ model' = [model EXCEPT ![a] = k]
      /\ k # NoModel => slots[a][k] < MaxConnections
      /\ observer' = [observer EXCEPT ![a] =
           [m \in Models |-> IF m = k THEN NoFullName ELSE WithoutModel(a)[m]]]
      /\ slots' = [slots EXCEPT ![a] = Connected(a, k)]
      /\ sent' = Silent
      /\ UNCHANGED <<name, index, valid, state, rows, exported>>
  BY DEF SetModel
<1>2. /\ TypeOK /\ RegisteredWithItsModel /\ ObservedShown /\ Heard /\ NamelessAbsent
  BY DEF IInv
<1>3. NoFullName \in FullNames /\ NoFullName[2] = NoName /\ NoFullName # Unregistered
  BY RegistrationAssumption DEF NoFullName, FullNames
<1>4. ASSUME NEW b \in Actions, NEW m \in Models
      PROVE  observer'[b][m] = IF b # a THEN observer[b][m]
                               ELSE IF m = k THEN NoFullName ELSE Unregistered
  <2>1. m # model[a] => observer[a][m] = Unregistered
    BY <1>2 DEF RegisteredWithItsModel
  <2>2. WithoutModel(a)[m] = Unregistered
    BY <2>1 DEF WithoutModel
  <2> QED BY <1>1, <1>2, <2>2 DEF TypeOK
<1>5. observer' \in [Actions -> [Models -> FullNames \cup {Unregistered}]]
  <2>1. WithoutModel(a) \in [Models -> FullNames \cup {Unregistered}]
    BY <1>2 DEF WithoutModel, TypeOK
  <2>2. [m \in Models |-> IF m = k THEN NoFullName ELSE WithoutModel(a)[m]] \in
          [Models -> FullNames \cup {Unregistered}]
    BY <1>3, <2>1
  <2> QED BY <1>1, <1>2, <2>2 DEF TypeOK
<1>6. /\ slots' \in [Actions -> [Models -> 0..MaxConnections]]
      /\ \A b \in Actions, m \in Models : slots'[b][m] >= slots[b][m] /\ (b = a /\ m = k => slots'[b][m] > 0)
  <2>1. slots[a] \in [Models -> 0..MaxConnections] /\ MaxConnections \in Nat
    BY <1>2, RegistrationAssumption DEF TypeOK
  <2>2. CASE k = NoModel
    <3>1. slots' = slots
      BY <1>1, <1>2, <2>2 DEF Connected, TypeOK
    <3>2. \A b \in Actions, m \in Models : slots[b][m] \in Int
      BY <1>2 DEF TypeOK
    <3>3. \A b \in Actions, m \in Models : slots[b][m] >= slots[b][m]
      BY <3>2
    <3> QED BY <1>2, <2>2, <3>1, <3>3, RegistrationAssumption DEF TypeOK
  <2>3. CASE k # NoModel
    <3>1. k \in Models /\ slots[a][k] < MaxConnections
      BY <1>1, <2>3
    <3>2. slots[a][k] + 1 \in 0..MaxConnections /\ slots[a][k] + 1 > 0 /\ slots[a][k] + 1 >= slots[a][k]
      BY <2>1, <3>1
    <3>3. slots' = [slots EXCEPT ![a] = [slots[a] EXCEPT ![k] = slots[a][k] + 1]]
      BY <1>1, <2>3 DEF Connected
    <3>4. [slots[a] EXCEPT ![k] = slots[a][k] + 1] \in [Models -> 0..MaxConnections]
      BY <2>1, <3>2
    <3>5. slots' \in [Actions -> [Models -> 0..MaxConnections]]
      BY <1>2, <3>3, <3>4 DEF TypeOK
    <3>6. ASSUME NEW b \in Actions, NEW m \in Models
          PROVE  slots'[b][m] >= slots[b][m] /\ (b = a /\ m = k => slots'[b][m] > 0)
      <4>1. slots[b][m] \in Int
        BY <1>2 DEF TypeOK
      <4>2. CASE b = a /\ m = k
        <5>1. slots'[b][m] = slots[a][k] + 1
          BY <1>2, <3>3, <2>1, <4>2 DEF TypeOK
        <5> QED BY <3>2, <4>2, <5>1
      <4>3. CASE ~(b = a /\ m = k)
        <5>1. slots'[b][m] = slots[b][m]
          BY <1>2, <3>3, <2>1, <4>3 DEF TypeOK
        <5> QED BY <4>1, <4>3, <5>1
      <4> QED BY <4>2, <4>3
    <3> QED BY <3>5, <3>6
  <2> QED BY <2>2, <2>3
<1>7. TypeOK'
  BY <1>1, <1>2, <1>5, <1>6, SilentReaches DEF TypeOK
<1>8. \A b \in Actions : model'[b] = IF b = a THEN k ELSE model[b]
  BY <1>1, <1>2 DEF TypeOK
<1>9. RegisteredWithItsModel'
  BY <1>2, <1>3, <1>4, <1>8 DEF RegisteredWithItsModel
<1>10. ObservedShown'
  <2> SUFFICES ASSUME NEW b \in Actions, NEW m \in Models,
                      observer'[b][m] # Unregistered, exported'[m][observer'[b][m]] # Absent
               PROVE  valid'[b] /\ state'[b] = exported'[m][observer'[b][m]]
    BY DEF ObservedShown
  <2>1. exported[m][NoFullName] = Absent
    BY <1>2, <1>3 DEF NamelessAbsent
  <2>2. observer'[b][m] = observer[b][m]
    BY <1>1, <1>4, <2>1
  <2> QED BY <1>1, <1>2, <2>2 DEF ObservedShown
<1>11. Heard'
  <2> SUFFICES ASSUME NEW b \in Actions, NEW m \in Models, model'[b] = m PROVE slots'[b][m] > 0
    BY DEF Heard
  <2>1. CASE b = a
    BY <1>6, <1>8, <2>1
  <2>2. CASE b # a
    <3>1. slots[b][m] > 0 /\ slots'[b][m] >= slots[b][m]
      BY <1>2, <1>6, <1>8, <2>2 DEF Heard
    <3>2. slots[b][m] \in Int /\ slots'[b][m] \in Int
      BY <1>2, <1>6 DEF TypeOK
    <3> QED BY <3>1, <3>2
  <2> QED BY <2>1, <2>2
<1>12. NamelessAbsent'
  BY <1>1, <1>2 DEF NamelessAbsent
<1> QED BY <1>1, <1>7, <1>9, <1>10, <1>11, <1>12, SilentReaches DEF IInv

LEMMA ActivateStep ==
  ASSUME IInv, NEW a \in Actions, Activate(a)
  PROVE  IInv'
<1>1. /\ sent' = [by |-> {a}, to |-> {<<m, FullName(a, m), slots[a][m]>> : m \in {k \in Models : slots[a][k] > 0}}]
      /\ UNCHANGED <<model, name, index, valid, state, observer, slots, rows, exported>>
  BY DEF Activate, action
<1>2. /\ TypeOK /\ RegisteredWithItsModel /\ ObservedShown /\ Heard /\ NamelessAbsent
  BY DEF IInv
<1>3. sent'.by = {a}
      /\ sent'.to = {<<m, FullName(a, m), slots[a][m]>> : m \in {k \in Models : slots[a][k] > 0}}
  BY <1>1
<1>4. sent'.to \subseteq Models \X FullNames \X (1..MaxConnections)
  <2> SUFFICES ASSUME NEW m \in Models, slots[a][m] > 0
               PROVE  FullName(a, m) \in FullNames /\ slots[a][m] \in 1..MaxConnections
    BY <1>3
  <2>1. slots[a][m] \in 0..MaxConnections /\ MaxConnections \in Nat
    BY <1>2, RegistrationAssumption DEF TypeOK
  <2> QED BY <1>2, <2>1, FullNameTyped
<1>5. TypeOK'
  BY <1>1, <1>2, <1>3, <1>4 DEF TypeOK
<1>6. ActivationReachesModel'
  <2> SUFFICES ASSUME model[a] # NoModel
               PROVE  \E s \in sent'.to : s[1] = model[a] /\ s[2] = FullName(a, model[a])
    BY <1>1, <1>3 DEF ActivationReachesModel, FullName
  <2>1. model[a] \in Models
    BY <1>2 DEF TypeOK
  <2>2. slots[a][model[a]] > 0
    BY <1>2, <2>1 DEF Heard
  <2>3. <<model[a], FullName(a, model[a]), slots[a][model[a]]>> \in sent'.to
    BY <1>3, <2>1, <2>2
  <2> QED BY <2>3
<1> QED BY <1>1, <1>2, <1>5, <1>6
        DEF IInv, RegisteredWithItsModel, ObservedShown, Heard, NamelessAbsent

LEMMA DestroyActionStep ==
  ASSUME IInv, NEW a \in Actions, DestroyAction(a)
  PROVE  IInv'
<1>1. /\ model' = [model EXCEPT ![a] = NoModel]
      /\ name' = [name EXCEPT ![a] = NoName]
      /\ index' = [index EXCEPT ![a] = -1]
      /\ valid' = [valid EXCEPT ![a] = FALSE]
      /\ state' = [state EXCEPT ![a] = Absent]
      /\ observer' = [observer EXCEPT ![a] = WithoutModel(a)]
      /\ slots' = [slots EXCEPT ![a] = [m \in Models |-> 0]]
      /\ sent' = Silent
      /\ UNCHANGED <<rows, exported>>
  BY DEF DestroyAction
<1>2. /\ TypeOK /\ RegisteredWithItsModel /\ ObservedShown /\ Heard /\ NamelessAbsent
  BY DEF IInv
<1>3. WithoutModel(a) \in [Models -> FullNames \cup {Unregistered}]
  BY <1>2 DEF WithoutModel, TypeOK
<1>4. -1 \in Indexes /\ [m \in Models |-> 0] \in [Models -> 0..MaxConnections]
  BY RegistrationAssumption DEF Indexes
<1>5. TypeOK'
  <2>1. /\ model' \in [Actions -> Models \cup {NoModel}]
        /\ name' \in [Actions -> Names \cup {NoName}]
        /\ valid' \in [Actions -> BOOLEAN] /\ state' \in [Actions -> Values \cup {Absent}]
    BY <1>1, <1>2 DEF TypeOK
  <2>2. /\ index' \in [Actions -> Indexes]
        /\ slots' \in [Actions -> [Models -> 0..MaxConnections]]
        /\ observer' \in [Actions -> [Models -> FullNames \cup {Unregistered}]]
    BY <1>1, <1>2, <1>3, <1>4 DEF TypeOK
  <2> QED BY <1>1, <1>2, <2>1, <2>2, SilentReaches DEF TypeOK
<1>6. ASSUME NEW b \in Actions, NEW m \in Models
      PROVE  observer'[b][m] = IF b = a THEN Unregistered ELSE observer[b][m]
  <2>1. WithoutModel(a)[m] = Unregistered
    BY <1>2 DEF WithoutModel, RegisteredWithItsModel
  <2> QED BY <1>1, <1>2, <2>1 DEF TypeOK
<1>7. ASSUME NEW b \in Actions, b # a
      PROVE  /\ model'[b] = model[b] /\ valid'[b] = valid[b] /\ state'[b] = state[b] /\ slots'[b] = slots[b]
  BY <1>1, <1>2, <1>7 DEF TypeOK
<1>8. model'[a] = NoModel
  BY <1>1, <1>2 DEF TypeOK
<1>9. RegisteredWithItsModel'
  BY <1>2, <1>6, <1>7, <1>8, RegistrationAssumption DEF RegisteredWithItsModel
<1>10. ObservedShown'
  BY <1>1, <1>2, <1>6, <1>7 DEF ObservedShown
<1>11. Heard'
  BY <1>2, <1>7, <1>8, RegistrationAssumption DEF Heard
<1>12. NamelessAbsent'
  BY <1>1, <1>2 DEF NamelessAbsent
<1> QED BY <1>1, <1>5, <1>9, <1>10, <1>11, <1>12, SilentReaches DEF IInv

LEMMA DestroyModelStep ==
  ASSUME IInv, NEW k \in Models, DestroyModel(k)
  PROVE  IInv'
<1>1. /\ model' = [b \in Actions |-> IF observer[b][k] # Unregistered THEN NoModel ELSE model[b]]
      /\ observer' = [b \in Actions |-> [observer[b] EXCEPT ![k] = Unregistered]]
      /\ slots' = [b \in Actions |-> [slots[b] EXCEPT ![k] = 0]]
      /\ rows' = [rows EXCEPT ![k] = <<>>]
      /\ exported' = [exported EXCEPT ![k] = [f \in FullNames |-> Absent]]
      /\ sent' = Silent
      /\ UNCHANGED <<name, index, valid, state>>
  BY DEF DestroyModel
<1>2. /\ TypeOK /\ RegisteredWithItsModel /\ ObservedShown /\ Heard /\ NamelessAbsent
  BY DEF IInv
<1>3. <<>> \in RowSequences
  <2>1. 0 \in 0..(MaxIndex + 1) /\ 1..0 = {}
    BY RegistrationAssumption
  <2>2. <<>> \in [1..0 -> Namespaces \cup {Bare}]
    BY <2>1
  <2> QED BY <2>1, <2>2, Zenon DEF RowSequences
<1>4. ASSUME NEW b \in Actions, NEW m \in Models
      PROVE  /\ observer'[b][m] = IF m = k THEN Unregistered ELSE observer[b][m]
             /\ slots'[b][m] = IF m = k THEN 0 ELSE slots[b][m]
             /\ model'[b] = IF model[b] = k THEN NoModel ELSE model[b]
  BY <1>1, <1>2 DEF TypeOK, RegisteredWithItsModel
<1>5. TypeOK'
  <2>1. model' \in [Actions -> Models \cup {NoModel}]
    BY <1>1, <1>2 DEF TypeOK
  <2>2. observer' \in [Actions -> [Models -> FullNames \cup {Unregistered}]]
    BY <1>1, <1>2 DEF TypeOK
  <2>3. slots' \in [Actions -> [Models -> 0..MaxConnections]]
    <3>1. ASSUME NEW b \in Actions PROVE [slots[b] EXCEPT ![k] = 0] \in [Models -> 0..MaxConnections]
      BY <1>2, RegistrationAssumption DEF TypeOK
    <3> QED BY <1>1, <3>1
  <2>4. rows' \in [Models -> RowSequences]
    BY <1>1, <1>2, <1>3 DEF TypeOK
  <2>5. exported' \in [Models -> [FullNames -> Values \cup {Absent}]]
    BY <1>1, <1>2 DEF TypeOK
  <2> QED BY <1>1, <1>2, <2>1, <2>2, <2>3, <2>4, <2>5, SilentReaches DEF TypeOK
<1>6. RegisteredWithItsModel'
  BY <1>2, <1>4, RegistrationAssumption DEF RegisteredWithItsModel
<1>7. \A m \in Models, f \in FullNames : exported'[m][f] = IF m = k THEN Absent ELSE exported[m][f]
  BY <1>1, <1>2 DEF TypeOK
<1>8. ObservedShown'
  <2> SUFFICES ASSUME NEW b \in Actions, NEW m \in Models,
                      observer'[b][m] # Unregistered, exported'[m][observer'[b][m]] # Absent
               PROVE  valid'[b] /\ state'[b] = exported'[m][observer'[b][m]]
    BY DEF ObservedShown
  <2>1. m # k /\ observer'[b][m] = observer[b][m] /\ observer[b][m] \in FullNames
    BY <1>2, <1>4 DEF TypeOK
  <2> QED BY <1>1, <1>2, <1>7, <2>1 DEF ObservedShown
<1>9. Heard'
  BY <1>2, <1>4, RegistrationAssumption DEF Heard
<1>10. NamelessAbsent'
  BY <1>2, <1>7 DEF NamelessAbsent
<1> QED BY <1>1, <1>5, <1>6, <1>8, <1>9, <1>10, SilentReaches DEF IInv

LEMMA ExportedStep ==
  ASSUME IInv, NEW k \in Models, NEW f \in FullNames, NEW v \in Values \cup {Absent}, Exported(k, f, v)
  PROVE  IInv'
<1>1. /\ f[2] # NoName
      /\ exported' = [exported EXCEPT ![k][f] = v]
      /\ valid' = [b \in Actions |-> IF b \in Told(k, f) THEN v # Absent ELSE valid[b]]
      /\ state' = [b \in Actions |-> IF b \in Told(k, f) /\ v # Absent THEN v ELSE state[b]]
      /\ sent' = Silent
      /\ UNCHANGED <<model, name, index, observer, slots, rows>>
  BY DEF Exported, Show
<1>2. /\ TypeOK /\ RegisteredWithItsModel /\ ObservedShown /\ Heard /\ NamelessAbsent
  BY DEF IInv
<1>3. /\ exported' \in [Models -> [FullNames -> Values \cup {Absent}]]
      /\ \A m \in Models, g \in FullNames :
           exported'[m][g] = IF m = k /\ g = f THEN v ELSE exported[m][g]
  BY <1>1, <1>2 DEF TypeOK
<1>4. TypeOK'
  <2>1. valid' \in [Actions -> BOOLEAN] /\ state' \in [Actions -> Values \cup {Absent}]
    BY <1>1, <1>2 DEF TypeOK
  <2> QED BY <1>1, <1>2, <1>3, <2>1, SilentReaches DEF TypeOK
<1>5. ObservedShown'
  <2> SUFFICES ASSUME NEW b \in Actions, NEW m \in Models,
                      observer[b][m] # Unregistered, exported'[m][observer[b][m]] # Absent
               PROVE  valid'[b] /\ state'[b] = exported'[m][observer[b][m]]
    BY <1>1 DEF ObservedShown
  <2>1. observer[b][m] \in FullNames /\ model[b] = m
    BY <1>2, OneModel DEF TypeOK
  <2>2. CASE m = k /\ observer[b][m] = f
    BY <1>1, <1>3, <2>1, <2>2 DEF Told
  <2>3. CASE ~(m = k /\ observer[b][m] = f)
    <3>1. exported'[m][observer[b][m]] = exported[m][observer[b][m]]
      BY <1>3, <2>1, <2>3
    <3>2. valid[b] /\ state[b] = exported[m][observer[b][m]]
      BY <1>2, <3>1 DEF ObservedShown
    <3>3. b \notin Told(k, f)
      <4> SUFFICES ASSUME b \in Told(k, f) PROVE FALSE
        OBVIOUS
      <4>1. observer[b][k] = f /\ f # Unregistered
        BY RegistrationAssumption DEF Told
      <4>2. model[b] = k
        BY <1>2, <4>1, OneModel
      <4> QED BY <2>1, <2>3, <4>1, <4>2
    <3> QED BY <1>1, <3>1, <3>2, <3>3
  <2> QED BY <2>2, <2>3
<1>6. RegisteredWithItsModel' /\ Heard' /\ NamelessAbsent'
  BY <1>1, <1>2, <1>3 DEF RegisteredWithItsModel, Heard, NamelessAbsent
<1> QED BY <1>1, <1>4, <1>5, <1>6, SilentReaches DEF IInv

-----------------------------------------------------------------------------
(* The invariant, and what it implies.                                     *)

LEMMA InitIInv == Init => IInv
<1> SUFFICES ASSUME Init PROVE IInv
  OBVIOUS
<1>1. <<>> \in RowSequences
  <2>1. 0 \in 0..(MaxIndex + 1) /\ 1..0 = {}
    BY RegistrationAssumption
  <2>2. <<>> \in [1..0 -> Namespaces \cup {Bare}]
    BY <2>1
  <2> QED BY <2>1, <2>2, Zenon DEF RowSequences
<1>2. /\ model \in [Actions -> Models \cup {NoModel}] /\ name \in [Actions -> Names \cup {NoName}]
      /\ index \in [Actions -> Indexes] /\ valid \in [Actions -> BOOLEAN]
      /\ state \in [Actions -> Values \cup {Absent}]
      /\ observer \in [Actions -> [Models -> FullNames \cup {Unregistered}]]
      /\ slots \in [Actions -> [Models -> 0..MaxConnections]]
  BY RegistrationAssumption DEF Init, Indexes
<1>3. rows \in [Models -> RowSequences] /\ exported \in [Models -> [FullNames -> Values \cup {Absent}]]
  BY <1>1 DEF Init
<1>4. TypeOK
  BY <1>2, <1>3 DEF Init, TypeOK, Silent
<1>5. RegisteredWithItsModel /\ ObservedShown /\ Heard /\ NamelessAbsent /\ ActivationReachesModel
  BY RegistrationAssumption
     DEF Init, RegisteredWithItsModel, ObservedShown, Heard, NamelessAbsent, ActivationReachesModel, Silent
<1> QED BY <1>4, <1>5 DEF IInv

LEMMA NextIInv == IInv /\ [Next]_vars => IInv'
<1> SUFFICES ASSUME IInv, [Next]_vars PROVE IInv'
  OBVIOUS
<1>1. TypeOK
  BY DEF IInv
<1>2. ASSUME NEW a \in Actions, NEW n \in Names \cup {NoName}, SetName(a, n) PROVE IInv'
  <2>1. /\ UpdateRegisteredAction(a) /\ name' = [name EXCEPT ![a] = n] /\ index' = index
        /\ model' = model /\ slots' = slots /\ rows' = rows /\ exported' = exported /\ sent' = Silent
    BY <1>2 DEF SetName
  <2>2. name' \in [Actions -> Names \cup {NoName}] /\ index' \in [Actions -> Indexes]
    BY <1>1, <2>1 DEF TypeOK
  <2> QED BY <2>1, <2>2, Renamed
<1>3. ASSUME NEW a \in Actions, NEW i \in Indexes, SetIndex(a, i) PROVE IInv'
  <2>1. /\ UpdateRegisteredAction(a) /\ index' = [index EXCEPT ![a] = i] /\ name' = name
        /\ model' = model /\ slots' = slots /\ rows' = rows /\ exported' = exported /\ sent' = Silent
    BY <1>3 DEF SetIndex
  <2>2. name' \in [Actions -> Names \cup {NoName}] /\ index' \in [Actions -> Indexes]
    BY <1>1, <2>1 DEF TypeOK
  <2> QED BY <2>1, <2>2, Renamed
<1>4. ASSUME NEW a \in Actions, NEW m \in Models \cup {NoModel}, SetModel(a, m) PROVE IInv'
  BY <1>4, SetModelStep
<1>5. ASSUME NEW a \in Actions, Activate(a) PROVE IInv'
  BY <1>5, ActivateStep
<1>6. ASSUME NEW a \in Actions, DestroyAction(a) PROVE IInv'
  BY <1>6, DestroyActionStep
<1>7. ASSUME NEW m \in Models, DestroyModel(m) PROVE IInv'
  BY <1>7, DestroyModelStep
<1>8. ASSUME NEW m \in Models, NEW rs \in RowSequences, RowsChanged(m, rs) PROVE IInv'
  <2>1. /\ rows' = [rows EXCEPT ![m] = rs] /\ sent' = Silent
        /\ UNCHANGED <<model, name, index, valid, state, observer, slots, exported>>
    BY <1>8 DEF RowsChanged, action
  <2>2. TypeOK'
    BY <1>1, <2>1, SilentReaches DEF TypeOK
  <2> QED BY <2>1, <2>2, SilentReaches
          DEF IInv, RegisteredWithItsModel, ObservedShown, Heard, NamelessAbsent
<1>9. ASSUME NEW m \in Models, NEW f \in FullNames, NEW v \in Values \cup {Absent}, Exported(m, f, v)
      PROVE  IInv'
  BY <1>9, ExportedStep
<1>10. CASE UNCHANGED vars
  <2>1. /\ model' = model /\ name' = name /\ index' = index /\ valid' = valid /\ state' = state
        /\ observer' = observer /\ slots' = slots /\ rows' = rows /\ exported' = exported /\ sent' = sent
    BY <1>10 DEF vars
  <2>2. TypeOK'
    BY <1>1, <2>1 DEF TypeOK
  <2>3. \A a \in Actions : FullName(a, model[a])' = FullName(a, model[a])
    BY <2>1 DEF FullName
  <2>4. ActivationReachesModel'
    <3>1. ASSUME NEW a \in sent.by, model[a] # NoModel
          PROVE  \E s \in sent.to : s[1] = model[a] /\ s[2] = FullName(a, model[a])'
      <4>1. a \in Actions
        BY <1>1 DEF TypeOK
      <4>2. \E s \in sent.to : s[1] = model[a] /\ s[2] = FullName(a, model[a])
        BY <3>1 DEF IInv, ActivationReachesModel
      <4> QED BY <2>3, <4>1, <4>2
    <3> QED BY <2>1, <3>1 DEF ActivationReachesModel
  <2>5. RegisteredWithItsModel' /\ ObservedShown' /\ Heard' /\ NamelessAbsent'
    BY <2>1 DEF IInv, RegisteredWithItsModel, ObservedShown, Heard, NamelessAbsent
  <2> QED BY <2>2, <2>4, <2>5 DEF IInv
<1> QED BY <1>2, <1>3, <1>4, <1>5, <1>6, <1>7, <1>8, <1>9, <1>10 DEF Next

LEMMA Invariance == Spec => []IInv
BY InitIInv, NextIInv, PTL DEF Spec

\* The type invariant: an observer watches a name that a row and an action make.
THEOREM RegistrationTypes == Spec => []TypeOK
<1>1. IInv => TypeOK
  BY DEF IInv
<1> QED BY <1>1, Invariance, PTL

\* An action is registered with its model and no other, in whatever order models
\* are set and actions and models are destroyed.
THEOREM RegisteredOnce == Spec => []RegisteredWithItsModel
<1>1. IInv => RegisteredWithItsModel
  BY DEF IInv
<1> QED BY <1>1, Invariance, PTL

\* An action shows what is exported of the name that its model observes.
THEOREM ObservedIsShown == Spec => []ObservedShown
<1>1. IInv => ObservedShown
  BY DEF IInv
<1> QED BY <1>1, Invariance, PTL

\* An activation reaches the model of its action, under the name of its row.
THEOREM ActivationsReach == Spec => []ActivationReachesModel
<1>1. IInv => ActivationReachesModel
  BY DEF IInv
<1> QED BY <1>1, Invariance, PTL
=============================================================================
