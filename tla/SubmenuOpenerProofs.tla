------------------------ MODULE SubmenuOpenerProofs ------------------------
(***************************************************************************)
(* Proofs about SubmenuOpener, for any bound on the requests on their way. *)
(*                                                                         *)
(* ServiceKnows is not inductive: that the service has not been told to    *)
(* open when nobody wants it open rests on what it was told being undone   *)
(* with the opener, and on the group having its requests with it.          *)
(***************************************************************************)
EXTENDS SubmenuOpener, SequenceTheorems, TLAPS

\* The service has been asked to open only where an opener can ask it to close,
\* and there are requests and actions only where there is a group.
Undoable ==
  /\ told = "true" => opener
  /\ ~group => told = "nothing" /\ sent = <<>> /\ action = "absent"

IInv == TypeOK /\ ShownRequested /\ ServiceKnows /\ Undoable

-----------------------------------------------------------------------------
(* Sequences of requests.                                                  *)

\* A request that is made is the last one on its way.
LEMMA Asked ==
  ASSUME NEW s \in Seq(Requests), NEW v \in Requests, Len(s) < MaxSent
  PROVE  /\ Append(s, v) \in Seq(Requests) /\ Append(s, v) # <<>>
         /\ Len(Append(s, v)) <= MaxSent
         /\ Append(s, v)[Len(Append(s, v))] = v
BY OpenerAssumption DEF Requests

\* When the oldest request arrives, the last one stays the last, unless it was
\* the only one.
LEMMA Received ==
  ASSUME NEW s \in Seq(Requests), s # <<>>, Len(s) <= MaxSent
  PROVE  /\ Head(s) \in Requests
         /\ Tail(s) \in Seq(Requests) /\ Len(Tail(s)) <= MaxSent
         /\ Tail(s) # <<>> => Tail(s)[Len(Tail(s))] = s[Len(s)]
         /\ Tail(s) = <<>> => Head(s) = s[Len(s)]
<1>1. /\ Head(s) \in Requests /\ Tail(s) \in Seq(Requests)
      /\ Len(Tail(s)) = Len(s) - 1 /\ Len(s) \in Nat \ {0}
      /\ \A k \in 1..Len(Tail(s)) : Tail(s)[k] = s[k + 1]
  BY HeadTailProperties
<1>2. Len(Tail(s)) <= MaxSent
  BY <1>1, OpenerAssumption
<1>3. ASSUME Tail(s) # <<>> PROVE Tail(s)[Len(Tail(s))] = s[Len(s)]
  <2>1. Len(Tail(s)) # 0
    BY <1>1, <1>3, EmptySeq
  <2> QED BY <1>1, <2>1
<1>4. ASSUME Tail(s) = <<>> PROVE Head(s) = s[Len(s)]
  BY <1>1, <1>4
<1> QED BY <1>1, <1>2, <1>3, <1>4

-----------------------------------------------------------------------------
(* What the parts of an action do.                                         *)

\* What the service was told last is the last request on its way.
LEMMA AskKnows ==
  ASSUME IInv, NEW v \in Requests, Ask(v)
  PROVE  /\ sent' \in Seq(Requests) /\ Len(sent') <= MaxSent
         /\ told' \in Requests \cup {"nothing"} /\ refused' \in BOOLEAN
         /\ sent' # <<>> => sent'[Len(sent')] = told'
         /\ group => told' = v /\ sent' # <<>>
         /\ ~group => told' = told /\ sent' = sent
<1>1. TypeOK /\ ServiceKnows
  BY DEF IInv
<1>2. CASE group
  <2>1. /\ Len(sent) < MaxSent /\ sent' = Append(sent, v)
        /\ told' = v /\ refused' = FALSE
    BY <1>2 DEF Ask, CanAsk
  <2>2. sent \in Seq(Requests)
    BY <1>1 DEF TypeOK
  <2>3. /\ sent' \in Seq(Requests) /\ sent' # <<>> /\ Len(sent') <= MaxSent
        /\ sent'[Len(sent')] = v
    BY <2>1, <2>2, Asked
  <2> QED BY <1>2, <2>1, <2>3
<1>3. CASE ~group
  BY <1>1, <1>3 DEF Ask, TypeOK, ServiceKnows
<1> QED BY <1>2, <1>3

\* An opener that is told of a state other than open asks again; it never closes
\* what is shown, and what is not its concern it leaves alone.
LEMMA SignalledKnows ==
  ASSUME IInv, NEW a \in ActionStates, NEW pending \in Seq(Requests),
         Len(pending) <= MaxSent, Signalled(a, pending),
         pending # <<>> => pending[Len(pending)] = told
  PROVE  /\ sent' \in Seq(Requests) /\ Len(sent') <= MaxSent
         /\ told' \in Requests \cup {"nothing"} /\ refused' \in BOOLEAN
         /\ shown' \in BOOLEAN
         /\ sent' # <<>> => sent'[Len(sent')] = told'
         /\ shown => shown'
         /\ ~opener => shown' = shown /\ told' = told /\ sent' = pending /\ refused' = refused
         /\ opener /\ a = "false" => told' = "true" /\ sent' # <<>>
         /\ opener /\ a # "false" => told' = told
<1>1. TypeOK
  BY DEF IInv
<1>2. CASE opener /\ a = "false"
  <2>1. /\ Len(pending) < MaxSent /\ sent' = Append(pending, "true")
        /\ told' = "true" /\ refused' = FALSE /\ shown' = (shown \/ IsOpen(a))
    BY <1>2 DEF Signalled, Update, IsOpen
  <2>2. /\ sent' \in Seq(Requests) /\ sent' # <<>> /\ Len(sent') <= MaxSent
        /\ sent'[Len(sent')] = "true"
    BY <2>1, Asked DEF Requests
  <2> QED BY <1>1, <1>2, <2>1, <2>2 DEF TypeOK, Requests, IsOpen
<1>3. CASE opener /\ a # "false"
  BY <1>1, <1>3 DEF Signalled, Update, IsOpen, TypeOK
<1>4. CASE ~opener
  BY <1>1, <1>4 DEF Signalled, TypeOK
<1> QED BY <1>2, <1>3, <1>4

-----------------------------------------------------------------------------
(* The steps.                                                              *)

\* The user opens and closes, and items come and go.
LEMMA ItemSteps ==
  ASSUME IInv, Open \/ Close \/ ItemFree \/ ItemNew
  PROVE  IInv'
<1> USE DEF IInv
<1>1. ASSUME Open PROVE IInv'
  <2>1. CASE byAction
    <3>1. Ask("true") /\ UNCHANGED <<live, byAction, group, action>>
      BY <1>1, <2>1 DEF Open, service
    <3> QED BY <1>1, <2>1, <3>1, AskKnows
            DEF Open, TypeOK, ShownRequested, ServiceKnows, Undoable, Requests, ActionStates
  <2>2. CASE ~byAction
    BY <1>1, <2>2 DEF Open, service, TypeOK, ShownRequested, ServiceKnows, Undoable
  <2> QED BY <2>1, <2>2
<1>2. ASSUME Close \/ ItemFree PROVE IInv'
  <2>1. /\ requested' = FALSE /\ opener' = FALSE /\ shown' = FALSE
        /\ live' \in BOOLEAN /\ UNCHANGED <<byAction, group, action>>
    BY <1>2 DEF Close, ItemFree, OpenerFree, service, TypeOK
  <2>2. CASE opener
    <3>1. Ask("false")
      BY <1>2, <2>2 DEF Close, ItemFree, OpenerFree
    <3> QED BY <2>1, <2>2, <3>1, AskKnows
            DEF TypeOK, ShownRequested, ServiceKnows, Undoable, Requests, ActionStates
  <2>3. CASE ~opener
    <3>1. UNCHANGED <<sent, told, refused>>
      BY <1>2, <2>3 DEF Close, ItemFree
    <3> QED BY <2>1, <2>3, <3>1 DEF TypeOK, ShownRequested, ServiceKnows, Undoable, Requests
  <2> QED BY <2>2, <2>3
<1>3. ASSUME ItemNew PROVE IInv'
  BY <1>3 DEF ItemNew, service, TypeOK, ShownRequested, ServiceKnows, Undoable
<1> QED BY <1>1, <1>2, <1>3

\* A request arrives: one that is followed by none was the last, so that an
\* opener whose action it closed has asked again.
LEMMA HonourStep ==
  ASSUME IInv, Honour
  PROVE  IInv'
<1> USE DEF IInv
<1> DEFINE v == Head(sent)
<1>1. /\ sent # <<>> /\ sent \in Seq(Requests) /\ Len(sent) <= MaxSent
      /\ sent[Len(sent)] = told /\ group
      /\ UNCHANGED <<live, byAction, requested, opener, group>>
  BY DEF Honour, item, TypeOK, ServiceKnows, Undoable
<1>2. /\ v \in Requests /\ Tail(sent) \in Seq(Requests) /\ Len(Tail(sent)) <= MaxSent
      /\ Tail(sent) # <<>> => Tail(sent)[Len(Tail(sent))] = told
      /\ Tail(sent) = <<>> => v = told
  BY <1>1, Received
<1>3. CASE action \in Requests /\ action # v
  <2>1. action' = v /\ Signalled(v, Tail(sent))
    BY <1>3 DEF Honour
  <2>2. v \in ActionStates
    BY <1>2 DEF Requests, ActionStates
  <2> QED BY <1>1, <1>2, <2>1, <2>2, SignalledKnows
          DEF TypeOK, ShownRequested, ServiceKnows, Undoable, Requests
<1>4. CASE ~(action \in Requests /\ action # v)
  <2>1. sent' = Tail(sent) /\ UNCHANGED <<action, shown, told, refused>>
    BY <1>4 DEF Honour
  <2>2. ASSUME opener, action = "false" PROVE Tail(sent) # <<>>
    BY <1>2, <1>4, <2>2 DEF ServiceKnows, Requests
  <2> QED BY <1>1, <1>2, <2>1, <2>2 DEF TypeOK, ShownRequested, ServiceKnows, Undoable
<1> QED BY <1>3, <1>4

\* A request is refused.
LEMMA RefuseStep ==
  ASSUME IInv, Refuse
  PROVE  IInv'
<1> USE DEF IInv
<1>1. /\ sent # <<>> /\ sent \in Seq(Requests) /\ Len(sent) <= MaxSent
      /\ sent[Len(sent)] = told /\ group
  BY DEF Refuse, TypeOK, ServiceKnows, Undoable
<1>2. /\ Tail(sent) \in Seq(Requests) /\ Len(Tail(sent)) <= MaxSent
      /\ Tail(sent) # <<>> => Tail(sent)[Len(Tail(sent))] = told
  BY <1>1, Received
<1> QED BY <1>1, <1>2 DEF Refuse, item, service, TypeOK, ShownRequested, ServiceKnows, Undoable

\* The service changes of its own accord, or its group comes or goes.
LEMMA ServiceSteps ==
  ASSUME IInv, NEW a \in ActionStates,
         ActionChanges(a) \/ GroupInserted(a) \/ GroupRemoved
  PROVE  IInv'
<1> USE DEF IInv
<1>1. /\ sent \in Seq(Requests) /\ Len(sent) <= MaxSent
      /\ sent # <<>> => sent[Len(sent)] = told
      /\ UNCHANGED <<live, byAction, requested, opener>>
  BY DEF ActionChanges, GroupInserted, GroupRemoved, item, TypeOK, ServiceKnows
<1>2. ASSUME ActionChanges(a) PROVE IInv'
  <2>1. group /\ group' = group /\ action' = a /\ Signalled(a, sent)
    BY <1>2 DEF ActionChanges
  <2> QED BY <1>1, <2>1, SignalledKnows
          DEF TypeOK, ShownRequested, ServiceKnows, Undoable, Requests
<1>3. ASSUME GroupInserted(a) PROVE IInv'
  <2>1. ~group /\ group' = TRUE /\ action' = a
    BY <1>3 DEF GroupInserted
  <2>2. CASE a # "absent"
    <3>1. Signalled(a, sent)
      BY <1>3, <2>2 DEF GroupInserted
    <3> QED BY <1>1, <2>1, <3>1, SignalledKnows
            DEF TypeOK, ShownRequested, ServiceKnows, Undoable, Requests
  <2>3. CASE a = "absent"
    BY <1>1, <1>3, <2>1, <2>3
       DEF GroupInserted, TypeOK, ShownRequested, ServiceKnows, Undoable
  <2> QED BY <2>2, <2>3
<1>4. ASSUME GroupRemoved PROVE IInv'
  <2>1. <<>> \in Seq(Requests) /\ Len(<<>>) <= MaxSent
    BY OpenerAssumption
  <2>2. /\ group' = FALSE /\ action' = "absent" /\ sent' = <<>>
        /\ told' = "nothing" /\ refused' = FALSE
        /\ shown' \in BOOLEAN /\ (shown' => shown \/ opener)
    BY <1>4 DEF GroupRemoved, TypeOK
  <2>3. TypeOK'
    BY <1>1, <2>1, <2>2 DEF TypeOK, ActionStates
  <2> QED BY <1>1, <2>2, <2>3 DEF TypeOK, ShownRequested, ServiceKnows, Undoable
<1> QED BY <1>2, <1>3, <1>4

-----------------------------------------------------------------------------
(* The invariant, and what it shows.                                       *)

\* There is nothing at first.
LEMMA InitIInv == Init => IInv
<1>1. <<>> \in Seq(Requests) /\ Len(<<>>) <= MaxSent
  BY OpenerAssumption
<1> QED BY <1>1 DEF Init, IInv, TypeOK, ShownRequested, ServiceKnows, Undoable, ActionStates

\* The invariant holds after any number of steps.
LEMMA Invariance == Spec => []IInv
<1>1. ASSUME IInv, [Next]_vars PROVE IInv'
  <2>1. ASSUME UNCHANGED vars PROVE IInv'
    BY <1>1, <2>1 DEF vars, IInv, TypeOK, ShownRequested, ServiceKnows, Undoable
  <2>2. "true" \in ActionStates
    BY DEF ActionStates
  <2> QED BY <1>1, <2>1, <2>2, ItemSteps, HonourStep, RefuseStep, ServiceSteps DEF Next
<1> QED BY InitIInv, <1>1, PTL DEF Spec

\* The item's fields have their types, and it has an opener exactly while it is
\* to be open by way of an action.
THEOREM OpenerTyped == Spec => []TypeOK
<1>1. IInv => TypeOK
  BY DEF IInv
<1> QED BY Invariance, <1>1, PTL

\* However late, often or badly the service answers, a submenu is shown only
\* while the user wants it.
THEOREM ShownWhenRequested == Spec => []ShownRequested
<1>1. IInv => ShownRequested
  BY DEF IInv
<1> QED BY Invariance, <1>1, PTL

\* The service is not left with a request to open that is no longer wanted, nor
\* without one that is.
THEOREM ServiceInformed == Spec => []ServiceKnows
<1>1. IInv => ServiceKnows
  BY DEF IInv
<1> QED BY Invariance, <1>1, PTL

\* No step but the user's closes a submenu.
THEOREM UserCloses == Spec => OnlyUserCloses
<1>1. ASSUME IInv, [Next]_vars PROVE [shown /\ ~shown' => requested /\ ~requested']_vars
  <2> SUFFICES ASSUME Next, shown, ~shown' PROVE requested /\ ~requested'
    BY <1>1
  <2>1. live /\ requested
    BY <1>1 DEF IInv, ShownRequested
  <2>2. CASE Close \/ ItemFree
    BY <2>1, <2>2 DEF Close, ItemFree
  <2>3. CASE Open \/ ItemNew
    BY <2>1, <2>3 DEF Open, ItemNew
  <2>4. CASE Honour \/ Refuse
    BY <2>4 DEF Honour, Refuse, Signalled, Update
  <2>5. CASE GroupRemoved \/ \E a \in ActionStates : ActionChanges(a) \/ GroupInserted(a)
    BY <2>5 DEF GroupRemoved, ActionChanges, GroupInserted, Signalled, Update
  <2> QED BY <2>2, <2>3, <2>4, <2>5 DEF Next
<1> QED BY Invariance, <1>1, PTL DEF Spec, OnlyUserCloses
=============================================================================
