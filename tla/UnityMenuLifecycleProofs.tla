---------------------- MODULE UnityMenuLifecycleProofs ----------------------
(***************************************************************************)
(* Proofs about UnityMenuLifecycle, for any names, owners, paths and       *)
(* tables, and for setters called from handlers to any depth.              *)
(*                                                                         *)
(* The properties speak of what is there when the pending steps have been  *)
(* done.  What makes them true on the way is that the pending steps, run   *)
(* as they are, would bring it about: Due says so of a fact, the steps     *)
(* that establish it and those that may spoil it.                          *)
(***************************************************************************)
EXTENDS UnityMenuLifecycle, SequenceTheorems, TLAPS

\* What the application does not do, as the code does not stand it: set a path
\* when the model has been reset for a new tracker; set a name or a path when the
\* first rows of a new tracker are inserted, after which the tracker made first is
\* assigned last; or set one when the tracker that is held inserts or removes
\* rows, which frees that tracker while it is working.
Tame ==
  /\ "path" \notin Reentry["menuReset"]
  /\ \A m \in {"name", "path"} : m \notin Reentry["firstRows"] /\ m \notin Reentry["rows"]

-----------------------------------------------------------------------------
(* The pending steps t.                                                    *)

\* What the step at i is, or which signal.
Kind(t, i) ==
  IF i \in 1..Len(t) THEN IF t[i].op = "signal" THEN t[i].signal ELSE t[i].op ELSE "end"

At(t, kinds) == {i \in 1..Len(t) : Kind(t, i) \in kinds}

\* A fact that holds now or not, that the steps at the positions W establish and
\* those at B may spoil, holds when the steps before position i are done.
Due(now, W, B, i) ==
  \E j \in 0..(i - 1) :
    /\ IF j = 0 THEN now ELSE j \in W
    /\ \A k \in (j + 1)..(i - 1) : k \notin B

\* There is no owner when the step at i begins: an owner comes only when
\* nothing is pending.
Unowned(t, o, i) == o = NoOwner \/ \E l \in 1..(i - 1) : Kind(t, l) = "noOwner"

\* A tracker will be made, and bring its rows.
Adds(t, o) == {i \in At(t, {"newTracker"}) : ~Unowned(t, o, i)}

\* The application is told of the owner, or everything has returned.
Checked(t) == {i \in 1..(Len(t) + 1) : Kind(t, i) \in {"owner", "end"}}

\* How the steps follow each other.
Shape(t) ==
  \A i \in 1..Len(t) :
    /\ Kind(t, i) = "aboutToReset" => Kind(t, i + 1) = "clear"
    /\ Kind(t, i) = "clear" => Kind(t, i + 1) \in {"nameReset", "menuReset"}
    /\ Kind(t, i) = "nameReset" => Kind(t, i + 1) = "noOwner" /\ Kind(t, i + 2) = "updateActions"
                                   /\ Kind(t, i + 3) = "aboutToReset" /\ Kind(t, i + 4) = "clear"
    /\ Kind(t, i) = "menuReset" => Kind(t, i + 1) = "freeTracker"
    /\ Kind(t, i) = "freeTracker" => Kind(t, i + 1) = "newTracker"
    /\ Kind(t, i) = "newTracker" /\ i # 1 => Kind(t, i - 1) = "freeTracker"

\* Nobody is told of an owner while another name is being set.
NamedUnowned(t, o) ==
  \A i \in 1..Len(t) :
    /\ Kind(t, i) \in {"watch", "busName"} => Unowned(t, o, i)
    /\ Kind(t, i) = "owner" => Kind(t, i + 1) = "end" \/ Unowned(t, o, i)

\* There are no rows where the tracker goes and where the next one is made.
RowsDue(t, o, now) ==
  \A i \in At(t, {"menuReset", "freeTracker", "newTracker"}) :
    Due(now, At(t, {"clear"}), Adds(t, o), i)

\* What the application expects when it is told of the owner, and in the end.
CheckedDue(t, now, writers, breakers) ==
  \A i \in Checked(t) : Due(now, At(t, writers), At(t, breakers), i)

\* The pending steps lead where they should, from an owner o, with no rows now or
\* not, and with the menu and the groups as they should be or not.
OnCourse(t, o, cleared, menu, prefixes) ==
  /\ Shape(t) /\ NamedUnowned(t, o) /\ RowsDue(t, o, cleared)
  /\ CheckedDue(t, menu, {"newTracker", "assign"}, {"noOwner", "freeTracker"})
  /\ CheckedDue(t, prefixes, {"updateActions"}, {"noOwner"})

-----------------------------------------------------------------------------
(* The invariant.                                                          *)

\* A tracker is made where there is none.
FreedFirst == Kind(todo, 1) = "newTracker" => tracker = None

\* A tracker that is about to be assigned is the right one, and only what
\* leaves it right comes before that.
AssignOK ==
  \A i \in At(todo, {"assign"}) :
    /\ owner # NoOwner /\ todo[i].tracker.owner = owner /\ todo[i].tracker.path = menuPath
    /\ rows = todo[i].tracker.items
    /\ \A k \in 1..(i - 1) : Kind(todo, k) \in {"updateActions", "firstRows"}

\* When no new tracker is to come, the rows are those of the one that is there.
RowsNow ==
  At(todo, {"clear", "freeTracker", "newTracker", "assign"}) = {} =>
    rows = (IF tracker = None THEN 0 ELSE tracker.items)

MenuNow ==
  IF owner = NoOwner THEN tracker = None
  ELSE tracker # None /\ tracker.owner = owner /\ tracker.path = menuPath

PrefixesNow ==
  \A p \in Prefixes : actions[p] # NoPath =>
    groups[p] = (IF owner = NoOwner THEN None ELSE <<owner, actions[p]>>)

\* Unless another watch is to come, the owner is the one reported last, or it
\* was reported gone and will be forgotten.
OwnerNow ==
  owner = (IF watch = None THEN NoOwner ELSE IF watch.seen = None THEN NoOwner ELSE watch.seen)
OwnerDue ==
  At(todo, {"watch"}) = {} =>
    IF At(todo, {"noOwner"}) = {} THEN OwnerNow
    ELSE watch = None \/ watch.seen \in {None, NoOwner}

WatchNamed == (watch = None) = (name = NoName) /\ (watch # None => watch.name = name)

IInv ==
  /\ TypeOK /\ OnCourse(todo, owner, rows = 0, MenuNow, PrefixesNow)
  /\ FreedFirst /\ AssignOK /\ RowsNow /\ OwnerDue /\ WatchNamed

-----------------------------------------------------------------------------
(* Pending steps, taken off and put in front.                              *)

LEMMA KindTail ==
  ASSUME NEW t \in Seq(Steps), t # <<>>
  PROVE  /\ Tail(t) \in Seq(Steps) /\ Len(Tail(t)) = Len(t) - 1 /\ Len(t) \in Nat \ {0}
         /\ \A i \in Nat \ {0} : Kind(Tail(t), i) = Kind(t, i + 1)
         /\ \A i \in 1..Len(Tail(t)) : Tail(t)[i] = t[i + 1]
<1>1. /\ Tail(t) \in Seq(Steps) /\ Len(Tail(t)) = Len(t) - 1 /\ Len(t) \in Nat \ {0}
      /\ \A i \in 1..Len(Tail(t)) : Tail(t)[i] = t[i + 1]
  BY HeadTailProperties, EmptySeq, LenProperties
<1>2. ASSUME NEW i \in Nat \ {0} PROVE Kind(Tail(t), i) = Kind(t, i + 1)
  <2>1. i \in 1..Len(Tail(t)) <=> i + 1 \in 1..Len(t)
    BY <1>1
  <2> QED BY <1>1, <2>1 DEF Kind
<1> QED BY <1>1, <1>2

LEMMA LenOfTail ==
  ASSUME NEW t \in Seq(Steps), t # <<>>
  PROVE  \E n \in Nat : Len(Tail(t)) = n /\ Len(t) = n + 1
<1>1. Len(Tail(t)) = Len(t) - 1 /\ Len(t) \in Nat \ {0}
  BY KindTail
<1>2. Len(t) - 1 \in Nat /\ Len(t) = (Len(t) - 1) + 1
  BY <1>1
<1> QED BY <1>1, <1>2

LEMMA KindPrepended ==
  ASSUME NEW p \in Seq(Steps), NEW t \in Seq(Steps)
  PROVE  /\ p \o t \in Seq(Steps) /\ Len(p \o t) = Len(p) + Len(t)
         /\ Len(p) \in Nat /\ Len(t) \in Nat
         /\ \A i \in 1..Len(p) : Kind(p \o t, i) = Kind(p, i) /\ (p \o t)[i] = p[i]
         /\ \A i \in Nat \ {0} : Kind(p \o t, Len(p) + i) = Kind(t, i)
         /\ \A i \in 1..Len(t) : (p \o t)[Len(p) + i] = t[i]
<1>1. /\ p \o t \in Seq(Steps) /\ Len(p \o t) = Len(p) + Len(t)
      /\ Len(p) \in Nat /\ Len(t) \in Nat
      /\ \A i \in 1..(Len(p) + Len(t)) :
           (p \o t)[i] = IF i <= Len(p) THEN p[i] ELSE t[i - Len(p)]
  BY ConcatProperties, LenProperties
<1>2. ASSUME NEW i \in 1..Len(p) PROVE Kind(p \o t, i) = Kind(p, i) /\ (p \o t)[i] = p[i]
  BY <1>1 DEF Kind
<1>3. ASSUME NEW i \in 1..Len(t) PROVE (p \o t)[Len(p) + i] = t[i]
  BY <1>1
<1>4. ASSUME NEW i \in Nat \ {0} PROVE Kind(p \o t, Len(p) + i) = Kind(t, i)
  <2>1. Len(p) + i \in 1..Len(p \o t) <=> i \in 1..Len(t)
    BY <1>1
  <2> QED BY <1>3, <2>1 DEF Kind
<1> QED BY <1>1, <1>2, <1>3, <1>4

\* No step is an end.
LEMMA KindEnd ==
  ASSUME NEW t \in Seq(Steps), NEW i \in Nat \ {0}
  PROVE  /\ Kind(t, i) = "end" <=> i > Len(t)
         /\ i > Len(t) <=> i \notin 1..Len(t)
         /\ Len(t) \in Nat
<1>1. Len(t) \in Nat /\ \A k \in 1..Len(t) : t[k] \in Steps
  BY LenProperties, ElementOfSeq
<1>2. CASE i \in 1..Len(t)
  <2>1. t[i] \in Steps
    BY <1>1, <1>2
  <2>2. Kind(t, i) = IF t[i].op = "signal" THEN t[i].signal ELSE t[i].op
    BY <1>2 DEF Kind
  <2> QED BY <1>1, <1>2, <2>1, <2>2 DEF Steps, Signals
<1>3. CASE i \notin 1..Len(t)
  BY <1>1, <1>3 DEF Kind
<1> QED BY <1>2, <1>3

-----------------------------------------------------------------------------
(* What is due.                                                            *)

\* The first step is done.
LEMMA DueTail ==
  ASSUME NEW now, NEW now2, NEW W, NEW W2, NEW B, NEW B2, NEW i \in Nat \ {0},
         Due(now, W, B, i + 1),
         1 \in W => now2,
         now /\ 1 \notin B => now2,
         \A k \in Nat \ {0} : (k + 1 \in W => k \in W2) /\ (k \in B2 => k + 1 \in B)
  PROVE  Due(now2, W2, B2, i)
<1>1. PICK j \in 0..i : /\ IF j = 0 THEN now ELSE j \in W
                        /\ \A k \in (j + 1)..i : k \notin B
  BY DEF Due
<1>2. CASE j \in {0, 1}
  <2>1. now2
    BY <1>1, <1>2
  <2>2. \A k \in 1..(i - 1) : k \notin B2
    BY <1>1, <1>2
  <2> QED BY <2>1, <2>2 DEF Due
<1>3. CASE j \notin {0, 1}
  <2>1. j - 1 \in 1..(i - 1) /\ j - 1 \in W2
    BY <1>1, <1>3
  <2>2. \A k \in ((j - 1) + 1)..(i - 1) : k \notin B2
    BY <1>1, <1>3
  <2> QED BY <2>1, <2>2 DEF Due
<1> QED BY <1>2, <1>3

\* Steps are put in front: n of them, which establish the fact themselves or
\* leave it as it is.
LEMMA DuePrepended ==
  ASSUME NEW now, NEW now2, NEW W, NEW W2, NEW B, NEW B2, NEW n \in Nat, NEW i \in Nat \ {0},
         Due(now, W, B, i),
         \/ now => now2 /\ \A k \in 1..n : k \notin B2
         \/ \E w \in 1..n : w \in W2 /\ \A k \in (w + 1)..n : k \notin B2,
         \A k \in Nat \ {0} : (k \in W => n + k \in W2) /\ (n + k \in B2 => k \in B)
  PROVE  Due(now2, W2, B2, n + i)
<1>1. PICK j \in 0..(i - 1) : /\ IF j = 0 THEN now ELSE j \in W
                              /\ \A k \in (j + 1)..(i - 1) : k \notin B
  BY DEF Due
<1>2. \A k \in (n + j + 1)..(n + i - 1) : k \notin B2
  <2> SUFFICES ASSUME NEW k \in (n + j + 1)..(n + i - 1) PROVE k \notin B2
    OBVIOUS
  <2>1. k - n \in (j + 1)..(i - 1) /\ k - n \in Nat \ {0} /\ n + (k - n) = k
    OBVIOUS
  <2> QED BY <1>1, <2>1
<1>3. CASE j # 0
  <2>1. n + j \in 0..(n + i - 1) /\ n + j # 0 /\ n + j \in W2
    BY <1>1, <1>3
  <2> QED BY <1>2, <2>1 DEF Due
<1>4. CASE j = 0 /\ now /\ now2 /\ \A k \in 1..n : k \notin B2
  <2>1. \A k \in 1..(n + i - 1) : k \notin B2
    BY <1>2, <1>4
  <2> QED BY <1>4, <2>1 DEF Due
<1>5. ASSUME j = 0, NEW w \in 1..n, w \in W2, \A k \in (w + 1)..n : k \notin B2
      PROVE  Due(now2, W2, B2, n + i)
  <2>1. w \in 0..(n + i - 1) /\ w # 0
    OBVIOUS
  <2>2. \A k \in (w + 1)..(n + i - 1) : k \notin B2
    BY <1>2, <1>5
  <2> QED BY <1>5, <2>1, <2>2 DEF Due
<1> QED BY <1>1, <1>3, <1>4, <1>5

-----------------------------------------------------------------------------
(* The functions.                                                          *)

LEMMA Joined ==
  ASSUME NEW p \in Seq(Steps), NEW t \in Seq(Steps)
  PROVE  /\ p \o t \in Seq(Steps) /\ Len(p \o t) = Len(p) + Len(t)
         /\ \A i \in Nat : 0 < i /\ i <= Len(p) => Kind(p \o t, i) = Kind(p, i)
         /\ \A i \in Nat : Len(p) < i => Kind(p \o t, i) = Kind(t, i - Len(p))
         /\ \A i \in Nat : Len(p) < i /\ i <= Len(p) + Len(t) => (p \o t)[i] = t[i - Len(p)]
<1>1. Len(p) \in Nat /\ Len(t) \in Nat
  BY KindPrepended
<1>2. ASSUME NEW i \in Nat, Len(p) < i
      PROVE  /\ Kind(p \o t, i) = Kind(t, i - Len(p))
             /\ i <= Len(p) + Len(t) => (p \o t)[i] = t[i - Len(p)]
  <2> DEFINE k == i - Len(p)
  <2>1. k \in Nat \ {0} /\ Len(p) + k = i /\ (i <= Len(p) + Len(t) => k \in 1..Len(t))
    BY <1>1, <1>2
  <2> HIDE DEF k
  <2>2. Kind(p \o t, Len(p) + k) = Kind(t, k) /\ (k \in 1..Len(t) => (p \o t)[Len(p) + k] = t[k])
    BY <2>1, KindPrepended
  <2> QED BY <2>1, <2>2 DEF k
<1>3. ASSUME NEW i \in Nat, 0 < i, i <= Len(p) PROVE Kind(p \o t, i) = Kind(p, i)
  <2>1. i \in 1..Len(p)
    BY <1>1, <1>3
  <2> QED BY <2>1, KindPrepended
<1>4. p \o t \in Seq(Steps) /\ Len(p \o t) = Len(p) + Len(t)
  BY KindPrepended
<1> QED BY <1>2, <1>3, <1>4

\* A single step, and two.
LEMMA Single ==
  ASSUME NEW s \in Steps
  PROVE  /\ <<s>> \in Seq(Steps) /\ Len(<<s>>) = 1
         /\ Kind(<<s>>, 1) = (IF s.op = "signal" THEN s.signal ELSE s.op)
BY DEF Kind

LEMMA Pair ==
  ASSUME NEW s \in Steps, NEW r \in Steps
  PROVE  /\ <<s, r>> \in Seq(Steps) /\ Len(<<s, r>>) = 2
         /\ Kind(<<s, r>>, 1) = (IF s.op = "signal" THEN s.signal ELSE s.op)
         /\ Kind(<<s, r>>, 2) = (IF r.op = "signal" THEN r.signal ELSE r.op)
BY DEF Kind

LEMMA StepKinds ==
  /\ \A s \in Signals : Signal(s) \in Steps /\ Signal(s).op = "signal" /\ Signal(s).signal = s
  /\ \A o \in {"clear", "noOwner", "updateActions", "freeTracker", "newTracker"} :
       Do(o) \in Steps /\ Do(o).op = o /\ o # "signal"
BY DEF Signal, Do, Steps

LEMMA ClearItemsSteps ==
  ASSUME NEW reset \in {"nameReset", "menuReset"}
  PROVE  /\ ClearItems(reset) \in Seq(Steps) /\ Len(ClearItems(reset)) = 3
         /\ Kind(ClearItems(reset), 1) = "aboutToReset" /\ Kind(ClearItems(reset), 2) = "clear"
         /\ Kind(ClearItems(reset), 3) = reset
<1>1. /\ Signal("aboutToReset") \in Steps /\ Signal("aboutToReset").op = "signal"
      /\ Signal("aboutToReset").signal = "aboutToReset"
      /\ Do("clear") \in Steps /\ Do("clear").op = "clear"
      /\ Signal(reset) \in Steps /\ Signal(reset).op = "signal" /\ Signal(reset).signal = reset
  BY StepKinds DEF Signals
<1> DEFINE c == <<Signal("aboutToReset"), Do("clear"), Signal(reset)>>
<1>2. c \in Seq(Steps) /\ Len(c) = 3 /\ c[1] = Signal("aboutToReset") /\ c[2] = Do("clear")
      /\ c[3] = Signal(reset)
  BY <1>1
<1>3. ClearItems(reset) = c
  BY DEF ClearItems
<1> HIDE DEF c
<1>4. Kind(c, 1) = "aboutToReset"
  BY <1>1, <1>2 DEF Kind
<1>5. Kind(c, 2) = "clear"
  BY <1>1, <1>2 DEF Kind
<1>6. Kind(c, 3) = reset
  BY <1>1, <1>2 DEF Kind
<1> QED BY <1>2, <1>3, <1>4, <1>5, <1>6

LEMMA UpdateMenuModelSteps ==
  /\ UpdateMenuModel \in Seq(Steps) /\ Len(UpdateMenuModel) = 5
  /\ Kind(UpdateMenuModel, 1) = "aboutToReset" /\ Kind(UpdateMenuModel, 2) = "clear"
  /\ Kind(UpdateMenuModel, 3) = "menuReset" /\ Kind(UpdateMenuModel, 4) = "freeTracker"
  /\ Kind(UpdateMenuModel, 5) = "newTracker"
<1> DEFINE c == ClearItems("menuReset")
           d == <<Do("freeTracker"), Do("newTracker")>>
<1>1. /\ c \in Seq(Steps) /\ Len(c) = 3 /\ Kind(c, 1) = "aboutToReset" /\ Kind(c, 2) = "clear"
      /\ Kind(c, 3) = "menuReset"
  BY ClearItemsSteps
<1>2. d \in Seq(Steps) /\ Len(d) = 2 /\ Kind(d, 1) = "freeTracker" /\ Kind(d, 2) = "newTracker"
  BY StepKinds, Pair
<1>3. UpdateMenuModel = c \o d
  BY DEF UpdateMenuModel
<1> HIDE DEF c, d
<1>4. /\ c \o d \in Seq(Steps) /\ Len(c \o d) = Len(c) + Len(d)
      /\ \A i \in Nat : 0 < i /\ i <= Len(c) => Kind(c \o d, i) = Kind(c, i)
      /\ \A i \in Nat : Len(c) < i => Kind(c \o d, i) = Kind(d, i - Len(c))
  BY <1>1, <1>2, Joined
<1> QED BY <1>1, <1>2, <1>3, <1>4

\* clearName, first what it does before it calls updateMenuModel.
LEMMA ClearNameSteps ==
  /\ ClearName \in Seq(Steps) /\ Len(ClearName) = 11
  /\ Kind(ClearName, 1) = "aboutToReset" /\ Kind(ClearName, 2) = "clear"
  /\ Kind(ClearName, 3) = "nameReset" /\ Kind(ClearName, 4) = "noOwner"
  /\ Kind(ClearName, 5) = "updateActions"
  /\ Kind(ClearName, 6) = "aboutToReset" /\ Kind(ClearName, 7) = "clear"
  /\ Kind(ClearName, 8) = "menuReset" /\ Kind(ClearName, 9) = "freeTracker"
  /\ Kind(ClearName, 10) = "newTracker" /\ Kind(ClearName, 11) = "owner"
<1> DEFINE c == ClearItems("nameReset")
           d == <<Do("noOwner"), Do("updateActions")>>
           s == <<Signal("owner")>>
           u == UpdateMenuModel
<1>1. /\ c \in Seq(Steps) /\ Len(c) = 3 /\ Kind(c, 1) = "aboutToReset" /\ Kind(c, 2) = "clear"
      /\ Kind(c, 3) = "nameReset"
  BY ClearItemsSteps
<1>2. d \in Seq(Steps) /\ Len(d) = 2 /\ Kind(d, 1) = "noOwner" /\ Kind(d, 2) = "updateActions"
  BY StepKinds, Pair
<1>3. s \in Seq(Steps) /\ Len(s) = 1 /\ Kind(s, 1) = "owner"
  BY StepKinds, Single DEF Signals
<1>4. /\ u \in Seq(Steps) /\ Len(u) = 5 /\ Kind(u, 1) = "aboutToReset" /\ Kind(u, 2) = "clear"
      /\ Kind(u, 3) = "menuReset" /\ Kind(u, 4) = "freeTracker" /\ Kind(u, 5) = "newTracker"
  BY UpdateMenuModelSteps
<1> DEFINE e == c \o d
           f == e \o u
<1>5. ClearName = f \o s
  BY DEF ClearName
<1> HIDE DEF c, d, s, u
<1>6. /\ c \o d \in Seq(Steps) /\ Len(c \o d) = Len(c) + Len(d)
      /\ \A i \in Nat : 0 < i /\ i <= Len(c) => Kind(c \o d, i) = Kind(c, i)
      /\ \A i \in Nat : Len(c) < i => Kind(c \o d, i) = Kind(d, i - Len(c))
  BY <1>1, <1>2, Joined
<1>7. /\ e \in Seq(Steps) /\ Len(e) = 5 /\ Kind(e, 1) = Kind(c, 1) /\ Kind(e, 2) = Kind(c, 2)
      /\ Kind(e, 3) = Kind(c, 3) /\ Kind(e, 4) = Kind(d, 1) /\ Kind(e, 5) = Kind(d, 2)
  BY <1>1, <1>2, <1>6
<1> HIDE DEF e
<1>8. /\ e \o u \in Seq(Steps) /\ Len(e \o u) = Len(e) + Len(u)
      /\ \A i \in Nat : 0 < i /\ i <= Len(e) => Kind(e \o u, i) = Kind(e, i)
      /\ \A i \in Nat : Len(e) < i => Kind(e \o u, i) = Kind(u, i - Len(e))
  BY <1>4, <1>7, Joined
<1>9. /\ f \in Seq(Steps) /\ Len(f) = 10 /\ Kind(f, 1) = Kind(e, 1) /\ Kind(f, 2) = Kind(e, 2)
      /\ Kind(f, 3) = Kind(e, 3) /\ Kind(f, 4) = Kind(e, 4) /\ Kind(f, 5) = Kind(e, 5)
      /\ Kind(f, 6) = Kind(u, 1) /\ Kind(f, 7) = Kind(u, 2) /\ Kind(f, 8) = Kind(u, 3)
      /\ Kind(f, 9) = Kind(u, 4) /\ Kind(f, 10) = Kind(u, 5)
  BY <1>4, <1>7, <1>8
<1> HIDE DEF f
<1>10. /\ f \o s \in Seq(Steps) /\ Len(f \o s) = Len(f) + Len(s)
       /\ \A i \in Nat : 0 < i /\ i <= Len(f) => Kind(f \o s, i) = Kind(f, i)
       /\ \A i \in Nat : Len(f) < i => Kind(f \o s, i) = Kind(s, i - Len(f))
  BY <1>3, <1>9, Joined
<1>11. /\ Len(f \o s) = 11 /\ Kind(f \o s, 11) = Kind(s, 1)
       /\ Kind(f \o s, 1) = Kind(f, 1) /\ Kind(f \o s, 2) = Kind(f, 2) /\ Kind(f \o s, 3) = Kind(f, 3)
       /\ Kind(f \o s, 4) = Kind(f, 4) /\ Kind(f \o s, 5) = Kind(f, 5) /\ Kind(f \o s, 6) = Kind(f, 6)
       /\ Kind(f \o s, 7) = Kind(f, 7) /\ Kind(f \o s, 8) = Kind(f, 8) /\ Kind(f \o s, 9) = Kind(f, 9)
       /\ Kind(f \o s, 10) = Kind(f, 10)
  BY <1>3, <1>9, <1>10
<1> QED BY <1>1, <1>2, <1>3, <1>4, <1>5, <1>7, <1>9, <1>10, <1>11

\* What a new name puts in front.
SetBusNameSteps(n) == ClearName \o <<[op |-> "watch", name |-> n], Signal("busName")>>

LEMMA BusNameSteps ==
  ASSUME NEW n \in BusNames \cup {NoName}
  PROVE  /\ SetBusNameSteps(n) \in Seq(Steps) /\ Len(SetBusNameSteps(n)) = 13
         /\ \A i \in 1..11 : Kind(SetBusNameSteps(n), i) = Kind(ClearName, i)
         /\ Kind(SetBusNameSteps(n), 12) = "watch" /\ Kind(SetBusNameSteps(n), 13) = "busName"
         /\ SetBusNameSteps(n)[12] = [op |-> "watch", name |-> n]
<1> DEFINE w == [op |-> "watch", name |-> n]
           d == <<w, Signal("busName")>>
<1>1. w \in Steps /\ w.op = "watch"
  BY DEF Steps
<1>2. d \in Seq(Steps) /\ Len(d) = 2 /\ Kind(d, 1) = "watch" /\ Kind(d, 2) = "busName" /\ d[1] = w
  BY <1>1, StepKinds, Pair DEF Signals
<1>3. SetBusNameSteps(n) = ClearName \o d
  BY DEF SetBusNameSteps
<1> HIDE DEF d
<1>4. /\ ClearName \o d \in Seq(Steps) /\ Len(ClearName \o d) = Len(ClearName) + Len(d)
      /\ \A i \in Nat : 0 < i /\ i <= Len(ClearName) => Kind(ClearName \o d, i) = Kind(ClearName, i)
      /\ \A i \in Nat : Len(ClearName) < i => Kind(ClearName \o d, i) = Kind(d, i - Len(ClearName))
      /\ \A i \in Nat : Len(ClearName) < i /\ i <= Len(ClearName) + Len(d) => (ClearName \o d)[i] = d[i - Len(ClearName)]
  BY <1>2, ClearNameSteps, Joined
<1> QED BY <1>2, <1>3, <1>4, ClearNameSteps

\* What a new owner puts in front.
AppearedSteps == <<Do("updateActions")>> \o UpdateMenuModel \o <<Signal("owner")>>

LEMMA NameAppearedSteps ==
  /\ AppearedSteps \in Seq(Steps) /\ Len(AppearedSteps) = 7
  /\ Kind(AppearedSteps, 1) = "updateActions" /\ Kind(AppearedSteps, 2) = "aboutToReset"
  /\ Kind(AppearedSteps, 3) = "clear" /\ Kind(AppearedSteps, 4) = "menuReset"
  /\ Kind(AppearedSteps, 5) = "freeTracker" /\ Kind(AppearedSteps, 6) = "newTracker"
  /\ Kind(AppearedSteps, 7) = "owner"
<1> DEFINE d == <<Do("updateActions")>>
           s == <<Signal("owner")>>
           u == UpdateMenuModel
<1>1. d \in Seq(Steps) /\ Len(d) = 1 /\ Kind(d, 1) = "updateActions"
  BY StepKinds, Single
<1>2. s \in Seq(Steps) /\ Len(s) = 1 /\ Kind(s, 1) = "owner"
  BY StepKinds, Single DEF Signals
<1>3. /\ u \in Seq(Steps) /\ Len(u) = 5 /\ Kind(u, 1) = "aboutToReset" /\ Kind(u, 2) = "clear"
      /\ Kind(u, 3) = "menuReset" /\ Kind(u, 4) = "freeTracker" /\ Kind(u, 5) = "newTracker"
  BY UpdateMenuModelSteps
<1> DEFINE e == d \o u
<1>4. AppearedSteps = e \o s
  BY DEF AppearedSteps
<1> HIDE DEF d, s, u
<1>5. /\ d \o u \in Seq(Steps) /\ Len(d \o u) = Len(d) + Len(u)
      /\ \A i \in Nat : 0 < i /\ i <= Len(d) => Kind(d \o u, i) = Kind(d, i)
      /\ \A i \in Nat : Len(d) < i => Kind(d \o u, i) = Kind(u, i - Len(d))
  BY <1>1, <1>3, Joined
<1>6. /\ e \in Seq(Steps) /\ Len(e) = 6 /\ Kind(e, 1) = Kind(d, 1) /\ Kind(e, 2) = Kind(u, 1)
      /\ Kind(e, 3) = Kind(u, 2) /\ Kind(e, 4) = Kind(u, 3) /\ Kind(e, 5) = Kind(u, 4)
      /\ Kind(e, 6) = Kind(u, 5)
  BY <1>1, <1>3, <1>5
<1> HIDE DEF e
<1>7. /\ e \o s \in Seq(Steps) /\ Len(e \o s) = Len(e) + Len(s)
      /\ \A i \in Nat : 0 < i /\ i <= Len(e) => Kind(e \o s, i) = Kind(e, i)
      /\ \A i \in Nat : Len(e) < i => Kind(e \o s, i) = Kind(s, i - Len(e))
  BY <1>2, <1>6, Joined
<1>8. /\ Len(e \o s) = 7 /\ Kind(e \o s, 7) = Kind(s, 1)
      /\ Kind(e \o s, 1) = Kind(e, 1) /\ Kind(e \o s, 2) = Kind(e, 2) /\ Kind(e \o s, 3) = Kind(e, 3)
      /\ Kind(e \o s, 4) = Kind(e, 4) /\ Kind(e \o s, 5) = Kind(e, 5) /\ Kind(e \o s, 6) = Kind(e, 6)
  BY <1>2, <1>6, <1>7
<1> QED BY <1>1, <1>2, <1>3, <1>4, <1>6, <1>7, <1>8

-----------------------------------------------------------------------------
(* What is due, when the first step is done.                               *)

LEMMA TailShape ==
  ASSUME NEW t \in Seq(Steps), t # <<>>, Shape(t)
  PROVE  Shape(Tail(t))
<1> DEFINE u == Tail(t)
<1>1. PICK n \in Nat : Len(u) = n /\ Len(t) = n + 1 /\ \A i \in Nat \ {0} : Kind(u, i) = Kind(t, i + 1)
  BY KindTail, LenOfTail
<1> HIDE DEF u
<1>2. ASSUME NEW i \in 1..Len(u)
      PROVE  /\ Kind(u, i) = Kind(t, i + 1) /\ Kind(u, i + 1) = Kind(t, (i + 1) + 1)
             /\ Kind(u, i + 2) = Kind(t, (i + 1) + 2) /\ Kind(u, i + 3) = Kind(t, (i + 1) + 3)
             /\ Kind(u, i + 4) = Kind(t, (i + 1) + 4) /\ i + 1 \in 1..Len(t)
             /\ i # 1 => Kind(u, i - 1) = Kind(t, (i + 1) - 1)
  <2>1. i \in Nat \ {0} /\ i + 1 \in Nat \ {0} /\ i + 2 \in Nat \ {0} /\ i + 3 \in Nat \ {0}
        /\ i + 4 \in Nat \ {0} /\ (i + 1) + 1 = (i + 1) + 1 /\ (i + 2) + 1 = (i + 1) + 2
        /\ (i + 3) + 1 = (i + 1) + 3 /\ (i + 4) + 1 = (i + 1) + 4 /\ i + 1 \in 1..Len(t)
        /\ (i # 1 => i - 1 \in Nat \ {0} /\ (i - 1) + 1 = (i + 1) - 1)
    BY <1>1
  <2> QED BY <1>1, <2>1
<1>3. ASSUME NEW i \in 1..Len(u), Kind(u, i) = "newTracker", i # 1
      PROVE  Kind(u, i - 1) = "freeTracker"
  <2>1. i + 1 # 1
    BY <1>1
  <2> QED BY <1>2, <1>3, <2>1 DEF Shape
<1>4. Shape(u)
  BY <1>2, <1>3 DEF Shape
<1> QED BY <1>4 DEF u

LEMMA TailUnowned ==
  ASSUME NEW t \in Seq(Steps), t # <<>>, NEW o, NEW i \in Nat \ {0}, Unowned(t, o, i + 1)
  PROVE  Unowned(Tail(t), IF Kind(t, 1) = "noOwner" THEN NoOwner ELSE o, i)
<1>1. CASE o = NoOwner \/ Kind(t, 1) = "noOwner"
  BY <1>1 DEF Unowned
<1>2. CASE o # NoOwner /\ Kind(t, 1) # "noOwner"
  <2>1. PICK l \in 1..((i + 1) - 1) : Kind(t, l) = "noOwner"
    BY <1>2 DEF Unowned
  <2>2. l # 1 /\ l - 1 \in 1..(i - 1) /\ l - 1 \in Nat \ {0} /\ (l - 1) + 1 = l
    BY <1>2, <2>1
  <2>3. Kind(Tail(t), l - 1) = "noOwner"
    BY <2>1, <2>2, KindTail
  <2> QED BY <2>2, <2>3 DEF Unowned
<1> QED BY <1>1, <1>2

LEMMA TailNamed ==
  ASSUME NEW t \in Seq(Steps), t # <<>>, NEW o, NamedUnowned(t, o)
  PROVE  NamedUnowned(Tail(t), IF Kind(t, 1) = "noOwner" THEN NoOwner ELSE o)
<1> DEFINE u == Tail(t)
           q == IF Kind(t, 1) = "noOwner" THEN NoOwner ELSE o
<1>1. PICK n \in Nat : Len(u) = n /\ Len(t) = n + 1 /\ \A i \in Nat \ {0} : Kind(u, i) = Kind(t, i + 1)
  BY KindTail, LenOfTail
<1>2. \A i \in Nat \ {0} : Unowned(t, o, i + 1) => Unowned(u, q, i)
  BY TailUnowned
<1> HIDE DEF u, q
<1>3. ASSUME NEW i \in 1..Len(u)
      PROVE  /\ Kind(u, i) \in {"watch", "busName"} => Unowned(u, q, i)
             /\ Kind(u, i) = "owner" => Kind(u, i + 1) = "end" \/ Unowned(u, q, i)
  <2>1. i \in Nat \ {0} /\ i + 1 \in Nat \ {0} /\ i + 1 \in 1..Len(t)
    BY <1>1
  <2>2. Kind(u, i) = Kind(t, i + 1) /\ Kind(u, i + 1) = Kind(t, (i + 1) + 1)
    BY <1>1, <2>1
  <2> QED BY <1>2, <2>1, <2>2 DEF NamedUnowned
<1>4. NamedUnowned(u, q)
  BY <1>3 DEF NamedUnowned
<1> QED BY <1>4 DEF u, q

LEMMA TailRows ==
  ASSUME NEW t \in Seq(Steps), t # <<>>, NEW o, NEW now, NEW now2, RowsDue(t, o, now),
         Kind(t, 1) = "clear" => now2,
         now /\ 1 \notin Adds(t, o) => now2
  PROVE  RowsDue(Tail(t), IF Kind(t, 1) = "noOwner" THEN NoOwner ELSE o, now2)
<1> DEFINE u == Tail(t)
           q == IF Kind(t, 1) = "noOwner" THEN NoOwner ELSE o
           W == At(t, {"clear"})
           W2 == At(u, {"clear"})
           B == Adds(t, o)
           B2 == Adds(u, q)
<1>1. PICK n \in Nat : Len(u) = n /\ Len(t) = n + 1 /\ \A i \in Nat \ {0} : Kind(u, i) = Kind(t, i + 1)
  BY KindTail, LenOfTail
<1>2. \A i \in Nat \ {0} : Unowned(t, o, i + 1) => Unowned(u, q, i)
  BY TailUnowned
<1> HIDE DEF u, q
<1>3. ASSUME NEW k \in Nat \ {0} PROVE k \in 1..Len(u) <=> k + 1 \in 1..Len(t)
  BY <1>1
<1>4. ASSUME NEW k \in Nat \ {0} PROVE (k + 1 \in W => k \in W2) /\ (k \in B2 => k + 1 \in B)
  BY <1>1, <1>2, <1>3 DEF At, Adds
<1>5. ASSUME NEW i \in At(u, {"menuReset", "freeTracker", "newTracker"}) PROVE Due(now2, W2, B2, i)
  <2>1. i \in Nat \ {0} /\ i + 1 \in At(t, {"menuReset", "freeTracker", "newTracker"})
    <3>1. i \in 1..n /\ Kind(u, i) \in {"menuReset", "freeTracker", "newTracker"}
      BY <1>1 DEF At
    <3>2. i \in Nat \ {0} /\ i + 1 \in 1..(n + 1)
      BY <3>1
    <3> QED BY <1>1, <3>1, <3>2 DEF At
  <2>2. Due(now, W, B, i + 1)
    BY <2>1 DEF RowsDue
  <2>3. 1 \in W => now2
    BY DEF At
  <2> HIDE DEF W, W2, B2
  <2> QED BY <1>4, <2>1, <2>2, <2>3, DueTail
<1>6. RowsDue(u, q, now2)
  BY <1>5 DEF RowsDue
<1> QED BY <1>6 DEF u, q

LEMMA TailChecked ==
  ASSUME NEW t \in Seq(Steps), t # <<>>, NEW now, NEW now2, NEW writers, NEW breakers,
         CheckedDue(t, now, writers, breakers),
         Kind(t, 1) \in writers => now2,
         now /\ Kind(t, 1) \notin breakers => now2
  PROVE  CheckedDue(Tail(t), now2, writers, breakers)
<1> DEFINE u == Tail(t)
           W == At(t, writers)
           W2 == At(u, writers)
           B == At(t, breakers)
           B2 == At(u, breakers)
<1>1. PICK n \in Nat : Len(u) = n /\ Len(t) = n + 1 /\ \A i \in Nat \ {0} : Kind(u, i) = Kind(t, i + 1)
  BY KindTail, LenOfTail
<1> HIDE DEF u
<1>2. ASSUME NEW k \in Nat \ {0} PROVE k \in 1..Len(u) <=> k + 1 \in 1..Len(t)
  BY <1>1
<1>3. ASSUME NEW k \in Nat \ {0} PROVE (k + 1 \in W => k \in W2) /\ (k \in B2 => k + 1 \in B)
  BY <1>1, <1>2 DEF At
<1>4. ASSUME NEW i \in Checked(u) PROVE Due(now2, W2, B2, i)
  <2>1. i \in Nat \ {0} /\ i + 1 \in Checked(t)
    <3>1. i \in 1..(n + 1) /\ Kind(u, i) \in {"owner", "end"}
      BY <1>1 DEF Checked
    <3>2. i \in Nat \ {0} /\ i + 1 \in 1..((n + 1) + 1)
      BY <3>1
    <3> QED BY <1>1, <3>1, <3>2 DEF Checked
  <2>2. Due(now, W, B, i + 1)
    BY <2>1 DEF CheckedDue
  <2>3. (1 \in W => now2) /\ (1 \in B <=> Kind(t, 1) \in breakers)
    BY <1>1 DEF At
  <2> HIDE DEF W, W2, B, B2
  <2> QED BY <1>3, <2>1, <2>2, <2>3, DueTail
<1>5. CheckedDue(u, now2, writers, breakers)
  BY <1>4 DEF CheckedDue
<1> QED BY <1>5 DEF u

-----------------------------------------------------------------------------
(* What is due, when the steps p are put in front.                         *)

LEMMA KindsInFront ==
  ASSUME NEW p \in Seq(Steps), NEW t \in Seq(Steps)
  PROVE  \E n \in Nat, m \in Nat :
           /\ Len(p) = n /\ Len(t) = m /\ Len(p \o t) = n + m
           /\ \A i \in 1..n : Kind(p \o t, i) = Kind(p, i)
           /\ \A i \in Nat \ {0} : Kind(p \o t, n + i) = Kind(t, i)
           /\ \A i \in Nat \ {0} : Kind(p, i) # "end" => i \in 1..n
           /\ \A i \in 1..((n + m) + 1) : i \notin 1..n => \E k \in 1..(m + 1) : i = n + k
<1>1. PICK n \in Nat, m \in Nat : Len(p) = n /\ Len(t) = m
  BY KindPrepended
<1>2. /\ Len(p \o t) = n + m /\ \A i \in 1..n : Kind(p \o t, i) = Kind(p, i)
      /\ \A i \in Nat \ {0} : Kind(p \o t, n + i) = Kind(t, i)
  BY <1>1, KindPrepended
<1>3. ASSUME NEW i \in Nat \ {0}, Kind(p, i) # "end" PROVE i \in 1..n
  BY <1>1, <1>3, KindEnd
<1>4. ASSUME NEW i \in 1..((n + m) + 1), i \notin 1..n PROVE \E k \in 1..(m + 1) : i = n + k
  <2>1. i - n \in 1..(m + 1) /\ i = n + (i - n)
    BY <1>4
  <2> QED BY <2>1
<1> QED BY <1>1, <1>2, <1>3, <1>4

LEMMA PrependShape ==
  ASSUME NEW p \in Seq(Steps), NEW t \in Seq(Steps), Shape(p), Shape(t), Kind(t, 1) # "newTracker"
  PROVE  Shape(p \o t)
<1> DEFINE u == p \o t
<1>1. PICK n \in Nat, m \in Nat :
           /\ Len(p) = n /\ Len(t) = m /\ Len(u) = n + m
           /\ \A i \in 1..n : Kind(u, i) = Kind(p, i)
           /\ \A i \in Nat \ {0} : Kind(u, n + i) = Kind(t, i)
           /\ \A i \in Nat \ {0} : Kind(p, i) # "end" => i \in 1..n
           /\ \A i \in 1..((n + m) + 1) : i \notin 1..n => \E k \in 1..(m + 1) : i = n + k
  BY KindsInFront
<1> HIDE DEF u
<1>2. ASSUME NEW i \in Nat \ {0}, Kind(p, i) # "end" PROVE Kind(u, i) = Kind(p, i)
  BY <1>1, <1>2
<1> DEFINE Fits(i) ==
      /\ Kind(u, i) = "aboutToReset" => Kind(u, i + 1) = "clear"
      /\ Kind(u, i) = "clear" => Kind(u, i + 1) \in {"nameReset", "menuReset"}
      /\ Kind(u, i) = "nameReset" => Kind(u, i + 1) = "noOwner" /\ Kind(u, i + 2) = "updateActions"
                                     /\ Kind(u, i + 3) = "aboutToReset" /\ Kind(u, i + 4) = "clear"
      /\ Kind(u, i) = "menuReset" => Kind(u, i + 1) = "freeTracker"
      /\ Kind(u, i) = "freeTracker" => Kind(u, i + 1) = "newTracker"
      /\ Kind(u, i) = "newTracker" /\ i # 1 => Kind(u, i - 1) = "freeTracker"
<1>3. ASSUME NEW i \in 1..n PROVE Fits(i)
  <2>1. /\ i \in 1..Len(p) /\ Kind(u, i) = Kind(p, i)
        /\ i + 1 \in Nat \ {0} /\ i + 2 \in Nat \ {0} /\ i + 3 \in Nat \ {0} /\ i + 4 \in Nat \ {0}
        /\ i # 1 => i - 1 \in 1..n
    BY <1>1
  <2>2. i # 1 => Kind(u, i - 1) = Kind(p, i - 1)
    BY <1>1, <2>1
  <2> QED BY <1>2, <2>1, <2>2 DEF Shape
<1>4. ASSUME NEW k \in 1..m PROVE Fits(n + k)
  <2>1. /\ k \in Nat \ {0} /\ k + 1 \in Nat \ {0} /\ k + 2 \in Nat \ {0} /\ k + 3 \in Nat \ {0}
        /\ k + 4 \in Nat \ {0} /\ (k # 1 => k - 1 \in Nat \ {0}) /\ k \in 1..Len(t)
        /\ (n + k) + 1 = n + (k + 1) /\ (n + k) + 2 = n + (k + 2) /\ (n + k) + 3 = n + (k + 3)
        /\ (n + k) + 4 = n + (k + 4) /\ (n + k) - 1 = n + (k - 1)
    BY <1>1
  <2>2. /\ Kind(u, n + k) = Kind(t, k) /\ Kind(u, (n + k) + 1) = Kind(t, k + 1)
        /\ Kind(u, (n + k) + 2) = Kind(t, k + 2) /\ Kind(u, (n + k) + 3) = Kind(t, k + 3)
        /\ Kind(u, (n + k) + 4) = Kind(t, k + 4)
        /\ k # 1 => Kind(u, (n + k) - 1) = Kind(t, k - 1)
    BY <1>1, <2>1
  <2>3. Kind(t, k) = "newTracker" => k # 1
    OBVIOUS
  <2> QED BY <2>1, <2>2, <2>3 DEF Shape
<1>5. ASSUME NEW i \in 1..(n + m) PROVE Fits(i)
  <2>1. CASE i \notin 1..n
    <3>1. i \in 1..((n + m) + 1)
      OBVIOUS
    <3>2. PICK k \in 1..(m + 1) : i = n + k
      BY <1>1, <2>1, <3>1
    <3>3. k \in 1..m
      BY <3>2
    <3> HIDE DEF Fits
    <3> QED BY <1>4, <3>2, <3>3
  <2> HIDE DEF Fits
  <2> QED BY <1>3, <2>1
<1>6. Shape(u)
  BY <1>1, <1>5 DEF Shape
<1> QED BY <1>6 DEF u

\* Whether the p give up the owner or not.
LEMMA PrependUnowned ==
  ASSUME NEW p \in Seq(Steps), NEW t \in Seq(Steps), NEW o
  PROVE  /\ \A i \in 1..Len(p) : Unowned(p \o t, o, i) <=> Unowned(p, o, i)
         /\ \A i \in Nat \ {0} : Unowned(t, o, i) => Unowned(p \o t, o, Len(p) + i)
<1> DEFINE u == p \o t
<1>1. PICK n \in Nat, m \in Nat :
           /\ Len(p) = n /\ Len(t) = m /\ Len(u) = n + m
           /\ \A i \in 1..n : Kind(u, i) = Kind(p, i)
           /\ \A i \in Nat \ {0} : Kind(u, n + i) = Kind(t, i)
           /\ \A i \in Nat \ {0} : Kind(p, i) # "end" => i \in 1..n
           /\ \A i \in 1..((n + m) + 1) : i \notin 1..n => \E k \in 1..(m + 1) : i = n + k
  BY KindsInFront
<1> HIDE DEF u
<1>2. ASSUME NEW i \in 1..n PROVE Unowned(u, o, i) <=> Unowned(p, o, i)
  <2>1. \A l \in 1..(i - 1) : l \in 1..n
    OBVIOUS
  <2> QED BY <1>1, <2>1 DEF Unowned
<1>3. ASSUME NEW i \in Nat \ {0}, Unowned(t, o, i) PROVE Unowned(u, o, n + i)
  <2>1. ASSUME NEW l \in 1..(i - 1), Kind(t, l) = "noOwner"
        PROVE  \E k \in 1..((n + i) - 1) : Kind(u, k) = "noOwner"
    <3>1. n + l \in 1..((n + i) - 1) /\ l \in Nat \ {0}
      OBVIOUS
    <3> QED BY <1>1, <2>1, <3>1
  <2> QED BY <1>3, <2>1 DEF Unowned
<1> QED BY <1>1, <1>2, <1>3 DEF u

LEMMA PrependNamed ==
  ASSUME NEW p \in Seq(Steps), NEW t \in Seq(Steps), NEW o, NamedUnowned(t, o),
         \A i \in 1..Len(p) : Kind(p, i) \in {"watch", "busName", "owner"} => Unowned(p, o, i)
  PROVE  NamedUnowned(p \o t, o)
<1> DEFINE u == p \o t
<1>1. PICK n \in Nat, m \in Nat :
           /\ Len(p) = n /\ Len(t) = m /\ Len(u) = n + m
           /\ \A i \in 1..n : Kind(u, i) = Kind(p, i)
           /\ \A i \in Nat \ {0} : Kind(u, n + i) = Kind(t, i)
           /\ \A i \in Nat \ {0} : Kind(p, i) # "end" => i \in 1..n
           /\ \A i \in 1..((n + m) + 1) : i \notin 1..n => \E k \in 1..(m + 1) : i = n + k
  BY KindsInFront
<1>2. /\ \A i \in 1..n : Unowned(u, o, i) <=> Unowned(p, o, i)
      /\ \A i \in Nat \ {0} : Unowned(t, o, i) => Unowned(u, o, n + i)
  BY <1>1, PrependUnowned
<1> HIDE DEF u
<1> DEFINE Fits(i) ==
      /\ Kind(u, i) \in {"watch", "busName"} => Unowned(u, o, i)
      /\ Kind(u, i) = "owner" => Kind(u, i + 1) = "end" \/ Unowned(u, o, i)
<1>3. ASSUME NEW i \in 1..n PROVE Fits(i)
  BY <1>1, <1>2
<1>4. ASSUME NEW k \in 1..m PROVE Fits(n + k)
  <2>1. k \in Nat \ {0} /\ k + 1 \in Nat \ {0} /\ (n + k) + 1 = n + (k + 1)
    OBVIOUS
  <2>2. Kind(u, n + k) = Kind(t, k) /\ Kind(u, (n + k) + 1) = Kind(t, k + 1)
    BY <1>1, <2>1
  <2> QED BY <1>1, <1>2, <2>1, <2>2 DEF NamedUnowned
<1>5. ASSUME NEW i \in 1..(n + m) PROVE Fits(i)
  <2>1. CASE i \notin 1..n
    <3>1. i \in 1..((n + m) + 1)
      OBVIOUS
    <3>2. PICK k \in 1..(m + 1) : i = n + k
      BY <1>1, <2>1, <3>1
    <3>3. k \in 1..m
      BY <3>2
    <3> HIDE DEF Fits
    <3> QED BY <1>4, <3>2, <3>3
  <2> HIDE DEF Fits
  <2> QED BY <1>3, <2>1
<1>6. NamedUnowned(u, o)
  BY <1>1, <1>5 DEF NamedUnowned
<1> QED BY <1>6 DEF u

\* A fact that was due in p alone is due there still.
LEMMA DueInFront ==
  ASSUME NEW now, NEW W, NEW W2, NEW B, NEW B2, NEW n \in Nat, NEW i \in 1..n,
         Due(now, W, B, i),
         \A k \in 1..n : (k \in W => k \in W2) /\ (k \in B2 => k \in B)
  PROVE  Due(now, W2, B2, i)
<1>1. PICK j \in 0..(i - 1) : /\ IF j = 0 THEN now ELSE j \in W
                              /\ \A k \in (j + 1)..(i - 1) : k \notin B
  BY DEF Due
<1>2. /\ j # 0 => j \in 1..n
      /\ \A k \in (j + 1)..(i - 1) : k \in 1..n
  OBVIOUS
<1>3. (IF j = 0 THEN now ELSE j \in W2) /\ \A k \in (j + 1)..(i - 1) : k \notin B2
  BY <1>1, <1>2
<1> QED BY <1>3 DEF Due

LEMMA PrependRows ==
  ASSUME NEW p \in Seq(Steps), NEW t \in Seq(Steps), NEW o, NEW now, NEW now2,
         RowsDue(t, o, now), RowsDue(p, o, now2),
         \/ now => now2 /\ \A k \in 1..Len(p) : k \notin Adds(p, o)
         \/ \E w \in 1..Len(p) : /\ w \in At(p, {"clear"})
                                 /\ \A k \in (w + 1)..Len(p) : k \notin Adds(p, o)
  PROVE  RowsDue(p \o t, o, now2)
<1> DEFINE u == p \o t
           K == {"menuReset", "freeTracker", "newTracker"}
<1>1. PICK n \in Nat, m \in Nat :
           /\ Len(p) = n /\ Len(t) = m /\ Len(u) = n + m
           /\ \A i \in 1..n : Kind(u, i) = Kind(p, i)
           /\ \A i \in Nat \ {0} : Kind(u, n + i) = Kind(t, i)
           /\ \A i \in Nat \ {0} : Kind(p, i) # "end" => i \in 1..n
           /\ \A i \in 1..((n + m) + 1) : i \notin 1..n => \E k \in 1..(m + 1) : i = n + k
  BY KindsInFront
<1>2. /\ \A i \in 1..n : Unowned(u, o, i) <=> Unowned(p, o, i)
      /\ \A i \in Nat \ {0} : Unowned(t, o, i) => Unowned(u, o, n + i)
  BY <1>1, PrependUnowned
<1> HIDE DEF u
<1> DEFINE W == At(t, {"clear"})
           B == Adds(t, o)
           W2 == At(u, {"clear"})
           B2 == Adds(u, o)
           WP == At(p, {"clear"})
           BP == Adds(p, o)
<1>3. ASSUME NEW k \in 1..n
      PROVE  (k \in W2 <=> k \in WP) /\ (k \in B2 <=> k \in BP) /\ (k \in At(u, K) <=> k \in At(p, K))
  <2>1. k \in 1..(n + m)
    OBVIOUS
  <2> QED BY <1>1, <1>2, <2>1 DEF At, Adds
<1>4. ASSUME NEW k \in Nat \ {0}
      PROVE  (k \in W => n + k \in W2) /\ (n + k \in B2 => k \in B) /\ (n + k \in At(u, K) => k \in At(t, K))
  <2>1. k \in 1..m <=> n + k \in 1..(n + m)
    OBVIOUS
  <2> QED BY <1>1, <1>2, <2>1 DEF At, Adds
<1>5. \/ now => now2 /\ \A k \in 1..n : k \notin B2
      \/ \E w \in 1..n : w \in W2 /\ \A k \in (w + 1)..n : k \notin B2
  <2>1. CASE now => now2 /\ \A k \in 1..n : k \notin BP
    BY <1>3, <2>1
  <2>2. ASSUME NEW w \in 1..n, w \in WP, \A k \in (w + 1)..n : k \notin BP
        PROVE  \E w2 \in 1..n : w2 \in W2 /\ \A k \in (w2 + 1)..n : k \notin B2
    <3>1. \A k \in (w + 1)..n : k \in 1..n
      OBVIOUS
    <3> HIDE DEF W2, B2, WP, BP
    <3> QED BY <1>3, <2>2, <3>1
  <2> HIDE DEF W2, B2
  <2> QED BY <1>1, <2>1, <2>2
<1>6. \A i \in 1..(n + m) : i \in At(u, K) => i \in 1..n \/ \E k \in Nat \ {0} : i = n + k /\ k \in At(t, K)
  <2> SUFFICES ASSUME NEW i \in 1..(n + m), i \in At(u, K), i \notin 1..n
               PROVE  \E k \in Nat \ {0} : i = n + k /\ k \in At(t, K)
    OBVIOUS
  <2>1. PICK k \in 1..(m + 1) : i = n + k
    BY <1>1
  <2>2. k \in Nat \ {0}
    OBVIOUS
  <2> QED BY <1>4, <2>1, <2>2
<1>7. \A i \in At(t, K) : Due(now, W, B, i)
  BY DEF RowsDue
<1>8. \A i \in At(p, K) : Due(now2, WP, BP, i)
  BY DEF RowsDue
<1>9. At(u, K) \subseteq 1..(n + m)
  BY <1>1 DEF At
<1> HIDE DEF W, B, W2, B2, WP, BP, K
<1>10. ASSUME NEW i \in At(u, K) PROVE Due(now2, W2, B2, i)
  <2>1. CASE i \in 1..n
    <3>1. Due(now2, WP, BP, i)
      BY <1>3, <1>8, <2>1
    <3> QED BY <1>3, <2>1, <3>1, DueInFront
  <2>2. ASSUME NEW k \in Nat \ {0}, i = n + k, k \in At(t, K) PROVE Due(now2, W2, B2, n + k)
    <3>1. Due(now, W, B, k)
      BY <1>7, <2>2
    <3> QED BY <1>4, <1>5, <3>1, DuePrepended
  <2> QED BY <1>6, <1>9, <2>1, <2>2
<1>11. RowsDue(u, o, now2)
  BY <1>10 DEF RowsDue, W2, B2, K
<1> QED BY <1>11 DEF u

LEMMA PrependChecked ==
  ASSUME NEW p \in Seq(Steps), NEW t \in Seq(Steps), NEW now, NEW now2, NEW writers, NEW breakers,
         CheckedDue(t, now, writers, breakers),
         \A i \in 1..Len(p) : Kind(p, i) = "owner" => Due(now2, At(p, writers), At(p, breakers), i),
         \/ now => now2 /\ \A k \in 1..Len(p) : k \notin At(p, breakers)
         \/ \E w \in 1..Len(p) : /\ w \in At(p, writers)
                                 /\ \A k \in (w + 1)..Len(p) : k \notin At(p, breakers)
  PROVE  CheckedDue(p \o t, now2, writers, breakers)
<1> DEFINE u == p \o t
<1>1. PICK n \in Nat, m \in Nat :
           /\ Len(p) = n /\ Len(t) = m /\ Len(u) = n + m
           /\ \A i \in 1..n : Kind(u, i) = Kind(p, i)
           /\ \A i \in Nat \ {0} : Kind(u, n + i) = Kind(t, i)
           /\ \A i \in Nat \ {0} : Kind(p, i) # "end" => i \in 1..n
           /\ \A i \in 1..((n + m) + 1) : i \notin 1..n => \E k \in 1..(m + 1) : i = n + k
  BY KindsInFront
<1> HIDE DEF u
<1> DEFINE W == At(t, writers)
           B == At(t, breakers)
           W2 == At(u, writers)
           B2 == At(u, breakers)
           WP == At(p, writers)
           BP == At(p, breakers)
<1>3. ASSUME NEW k \in 1..n PROVE (k \in W2 <=> k \in WP) /\ (k \in B2 <=> k \in BP)
  <2>1. k \in 1..(n + m)
    OBVIOUS
  <2> QED BY <1>1, <2>1 DEF At
<1>4. ASSUME NEW k \in Nat \ {0} PROVE (k \in W => n + k \in W2) /\ (n + k \in B2 => k \in B)
  <2>1. k \in 1..m <=> n + k \in 1..(n + m)
    OBVIOUS
  <2> QED BY <1>1, <2>1 DEF At
<1>5. \/ now => now2 /\ \A k \in 1..n : k \notin B2
      \/ \E w \in 1..n : w \in W2 /\ \A k \in (w + 1)..n : k \notin B2
  <2>1. CASE now => now2 /\ \A k \in 1..n : k \notin BP
    BY <1>3, <2>1
  <2>2. ASSUME NEW w \in 1..n, w \in WP, \A k \in (w + 1)..n : k \notin BP
        PROVE  \E w2 \in 1..n : w2 \in W2 /\ \A k \in (w2 + 1)..n : k \notin B2
    <3>1. \A k \in (w + 1)..n : k \in 1..n
      OBVIOUS
    <3> HIDE DEF W2, B2, WP, BP
    <3> QED BY <1>3, <2>2, <3>1
  <2> HIDE DEF W2, B2
  <2> QED BY <1>1, <2>1, <2>2
<1>7. \A i \in Checked(t) : Due(now, W, B, i)
  BY DEF CheckedDue
<1>8. \A i \in 1..n : Kind(p, i) = "owner" => Due(now2, WP, BP, i)
  BY <1>1
<1>9. Checked(u) \subseteq 1..((n + m) + 1)
  BY <1>1 DEF Checked
<1>10. \A i \in 1..n : Kind(p, i) # "end"
  <2>1. \A i \in Nat \ {0} : Kind(p, i) = "end" <=> i > n
    BY <1>1, KindEnd
  <2>2. \A i \in 1..n : i \in Nat \ {0} /\ ~(i > n)
    OBVIOUS
  <2> QED BY <2>1, <2>2
<1> HIDE DEF W, B, W2, B2, WP, BP
<1>11. ASSUME NEW i \in Checked(u) PROVE Due(now2, W2, B2, i)
  <2>1. CASE i \in 1..n
    <3>1. Kind(p, i) = "owner"
      BY <1>1, <1>10, <2>1 DEF Checked
    <3>2. Due(now2, WP, BP, i)
      BY <1>8, <2>1, <3>1
    <3> QED BY <1>3, <2>1, <3>2, DueInFront
  <2>2. CASE i \notin 1..n
    <3>1. PICK k \in 1..(m + 1) : i = n + k
      BY <1>1, <1>9, <2>2
    <3>2. k \in Nat \ {0}
      OBVIOUS
    <3>3. Kind(t, k) \in {"owner", "end"}
      BY <1>1, <3>1, <3>2 DEF Checked
    <3>4. k \in Checked(t)
      BY <1>1, <3>3 DEF Checked
    <3>5. Due(now, W, B, k)
      BY <1>7, <3>4
    <3>6. Due(now2, W2, B2, n + k)
      BY <1>4, <1>5, <3>2, <3>5, DuePrepended
    <3> QED BY <3>1, <3>6
  <2> QED BY <2>1, <2>2
<1>12. CheckedDue(u, now2, writers, breakers)
  BY <1>11 DEF CheckedDue, W2, B2
<1> QED BY <1>12 DEF u

-----------------------------------------------------------------------------
(* The first step is done.                                                 *)

Pop ==
  /\ todo # <<>> /\ todo' = Tail(todo)
  /\ rows' = (IF Kind(todo, 1) = "clear" THEN 0 ELSE rows)
  /\ owner' = (IF Kind(todo, 1) = "noOwner" THEN NoOwner ELSE owner)
  /\ tracker' = (IF Kind(todo, 1) = "freeTracker" THEN None
                 ELSE IF Kind(todo, 1) = "assign" THEN todo[1].tracker ELSE tracker)
  /\ groups' = (IF Kind(todo, 1) = "updateActions" THEN UpdatedGroups ELSE groups)
  /\ IF Kind(todo, 1) = "watch"
     THEN name' = todo[1].name /\ watch' = (IF name' = NoName THEN None ELSE [name |-> name', seen |-> None])
     ELSE name' = name /\ watch' = watch
  /\ Kind(todo, 1) = "newTracker" => owner = NoOwner
  /\ menuPath' = menuPath /\ actions' = actions

LEMMA FirstStep ==
  ASSUME TypeOK, todo # <<>>
  PROVE  /\ todo \in Seq(Steps) /\ Tail(todo) \in Seq(Steps) /\ 1 \in 1..Len(todo)
         /\ todo[1] \in Steps /\ Head(todo) = todo[1]
         /\ Kind(todo, 1) = IF todo[1].op = "signal" THEN todo[1].signal ELSE todo[1].op
<1>1. todo \in Seq(Steps)
  BY DEF TypeOK
<1>2. Tail(todo) \in Seq(Steps) /\ Len(todo) \in Nat \ {0} /\ Head(todo) = todo[1]
  BY <1>1, HeadTailProperties, KindTail
<1>3. 1 \in 1..Len(todo)
  BY <1>2
<1>4. todo[1] \in Steps
  BY <1>1, <1>3, ElementOfSeq
<1> QED BY <1>1, <1>2, <1>3, <1>4 DEF Kind

LEMMA StepsPop ==
  ASSUME TypeOK,
         \/ EndSignal \/ Clear \/ ForgetOwner \/ UpdateActions \/ FreeTracker
         \/ NewTracker /\ owner = NoOwner
         \/ AssignTracker \/ WatchName
  PROVE  Pop
<1>1. todo # <<>> /\ todo' = Tail(todo)
  BY DEF EndSignal, Clear, ForgetOwner, UpdateActions, FreeTracker, NewTracker, AssignTracker,
         WatchName, Step, Done
<1>2. /\ Head(todo) = todo[1] /\ todo[1] \in Steps
      /\ Kind(todo, 1) = IF todo[1].op = "signal" THEN todo[1].signal ELSE todo[1].op
  BY <1>1, FirstStep
<1> DEFINE s == todo[1]
<1>3. s.op = "signal" => s.signal \in Signals
  BY <1>2 DEF Steps
<1> HIDE DEF s
<1>4. CASE EndSignal
  <2>1. Kind(todo, 1) \in Signals
    BY <1>2, <1>3, <1>4 DEF EndSignal, Step, s
  <2> QED BY <1>1, <1>4, <2>1 DEF EndSignal, Pop, Signals
<1>5. CASE Clear
  BY <1>1, <1>2, <1>5 DEF Clear, Step, Pop
<1>6. CASE ForgetOwner
  BY <1>1, <1>2, <1>6 DEF ForgetOwner, Step, Pop
<1>7. CASE UpdateActions
  BY <1>1, <1>2, <1>7 DEF UpdateActions, Step, Pop
<1>8. CASE FreeTracker
  BY <1>1, <1>2, <1>8 DEF FreeTracker, Step, Pop
<1>9. CASE NewTracker /\ owner = NoOwner
  BY <1>1, <1>2, <1>9 DEF NewTracker, Step, Done, Pop
<1>10. CASE AssignTracker
  BY <1>1, <1>2, <1>10 DEF AssignTracker, Step, Pop
<1>11. CASE WatchName
  BY <1>1, <1>2, <1>11 DEF WatchName, Step, Pop
<1> QED BY <1>4, <1>5, <1>6, <1>7, <1>8, <1>9, <1>10, <1>11

LEMMA PopType ==
  ASSUME TypeOK, Pop
  PROVE  TypeOK'
<1>1. /\ todo[1] \in Steps /\ Tail(todo) \in Seq(Steps)
      /\ Kind(todo, 1) = IF todo[1].op = "signal" THEN todo[1].signal ELSE todo[1].op
  BY FirstStep DEF Pop
<1>2. UpdatedGroups \in [Prefixes -> Group \cup {None}]
  <2>1. ASSUME NEW p \in Prefixes
        PROVE  (IF actions[p] = NoPath THEN groups[p]
                ELSE IF owner = NoOwner THEN None ELSE <<owner, actions[p]>>) \in Group \cup {None}
    BY LifecycleAssumption DEF TypeOK, Group
  <2> QED BY <2>1 DEF UpdatedGroups
<1>3. Kind(todo, 1) = "watch" => todo[1].name \in BusNames \cup {NoName}
  BY <1>1 DEF Steps, Signals
<1>4. Kind(todo, 1) = "assign" => todo[1].tracker \in Tracker
  BY <1>1 DEF Steps, Signals
<1>5. watch' \in Watch \cup {None} /\ name' \in BusNames \cup {NoName}
  BY <1>3 DEF Pop, TypeOK, Watch
<1>6. tracker' \in Tracker \cup {None} /\ groups' \in [Prefixes -> Group \cup {None}]
  BY <1>2, <1>4 DEF Pop, TypeOK
<1>7. /\ menuPath' \in Paths \cup {NoPath} /\ actions' \in ActionMaps
      /\ owner' \in Owners \cup {NoOwner} /\ rows' \in Nat /\ todo' \in Seq(Steps)
  BY <1>1 DEF Pop, TypeOK
<1> QED BY <1>5, <1>6, <1>7 DEF TypeOK

\* The tail's steps are the others.
LEMMA TailAt ==
  ASSUME NEW t \in Seq(Steps), t # <<>>, NEW kinds
  PROVE  /\ \A i \in At(Tail(t), kinds) : i + 1 \in At(t, kinds) /\ Tail(t)[i] = t[i + 1] /\ i \in Nat \ {0}
         /\ At(Tail(t), kinds) = {} => At(t, kinds) \subseteq {1}
         /\ 1 \in At(t, kinds) <=> Kind(t, 1) \in kinds
<1> DEFINE u == Tail(t)
<1>1. PICK n \in Nat : /\ Len(u) = n /\ Len(t) = n + 1
                       /\ \A i \in Nat \ {0} : Kind(u, i) = Kind(t, i + 1)
                       /\ \A i \in 1..Len(u) : u[i] = t[i + 1]
  BY KindTail, LenOfTail
<1> HIDE DEF u
<1>2. ASSUME NEW i \in At(u, kinds) PROVE i + 1 \in At(t, kinds) /\ u[i] = t[i + 1] /\ i \in Nat \ {0}
  <2>1. i \in 1..n /\ Kind(u, i) \in kinds
    BY <1>1 DEF At
  <2>2. i \in Nat \ {0} /\ i + 1 \in 1..(n + 1)
    BY <2>1
  <2> QED BY <1>1, <2>1, <2>2 DEF At
<1>3. ASSUME At(u, kinds) = {}, NEW i \in At(t, kinds) PROVE i = 1
  <2>1. i \in 1..(n + 1) /\ Kind(t, i) \in kinds
    BY <1>1 DEF At
  <2>2. i # 1 => i - 1 \in 1..n /\ i - 1 \in Nat \ {0} /\ (i - 1) + 1 = i
    BY <2>1
  <2>3. i # 1 => i - 1 \in At(u, kinds)
    BY <1>1, <2>1, <2>2 DEF At
  <2> QED BY <1>3, <2>3
<1>4. 1 \in At(t, kinds) <=> Kind(t, 1) \in kinds
  <2>1. 1 \in 1..(n + 1)
    OBVIOUS
  <2> QED BY <1>1, <2>1 DEF At
<1> QED BY <1>2, <1>3, <1>4 DEF u

LEMMA PopFreed ==
  ASSUME TypeOK, Shape(todo), Pop
  PROVE  FreedFirst'
<1>1. todo \in Seq(Steps) /\ todo # <<>> /\ 1 \in Nat \ {0}
  BY DEF TypeOK, Pop
<1>2. Kind(Tail(todo), 1) = Kind(todo, 1 + 1)
  BY <1>1, KindTail
<1>3. ASSUME Kind(todo, 2) = "newTracker" PROVE tracker' = None
  <2>1. 2 \in 1..Len(todo)
    BY <1>1, <1>3, KindEnd
  <2>2. Kind(todo, 2 - 1) = "freeTracker"
    BY <1>3, <2>1 DEF Shape
  <2>3. 2 - 1 = 1
    OBVIOUS
  <2> QED BY <2>2, <2>3 DEF Pop
<1> QED BY <1>2, <1>3 DEF FreedFirst, Pop

\* A tracker is assigned next, or nothing is done that it depends on.
LEMMA PopAssign ==
  ASSUME TypeOK, AssignOK, Pop
  PROVE  AssignOK'
<1>1. todo \in Seq(Steps) /\ todo # <<>> /\ todo' = Tail(todo)
  BY DEF TypeOK, Pop
<1>2. SUFFICES ASSUME NEW i \in At(todo', {"assign"})
      PROVE  /\ owner' # NoOwner /\ todo'[i].tracker.owner = owner' /\ todo'[i].tracker.path = menuPath'
             /\ rows' = todo'[i].tracker.items
             /\ \A k \in 1..(i - 1) : Kind(todo', k) \in {"updateActions", "firstRows"}
  BY DEF AssignOK
<1>3. i + 1 \in At(todo, {"assign"}) /\ todo'[i] = todo[i + 1] /\ i \in Nat \ {0}
  BY <1>1, TailAt
<1>4. \A k \in 1..((i + 1) - 1) : Kind(todo, k) \in {"updateActions", "firstRows"}
  BY <1>3 DEF AssignOK
<1>5. Kind(todo, 1) \in {"updateActions", "firstRows"}
  <2>1. 1 \in 1..((i + 1) - 1)
    BY <1>3
  <2> QED BY <1>4, <2>1
<1>6. owner' = owner /\ menuPath' = menuPath /\ rows' = rows
  BY <1>5 DEF Pop
<1>7. ASSUME NEW k \in 1..(i - 1) PROVE Kind(todo', k) \in {"updateActions", "firstRows"}
  <2>1. k \in Nat \ {0} /\ k + 1 \in 1..((i + 1) - 1)
    BY <1>3
  <2>2. Kind(todo', k) = Kind(todo, k + 1)
    BY <1>1, <2>1, KindTail
  <2> QED BY <1>4, <2>1, <2>2
<1> QED BY <1>3, <1>6, <1>7 DEF AssignOK

\* There are no rows before a tracker adds its own.
LEMMA NewTrackerHasNoRows ==
  ASSUME TypeOK, RowsDue(todo, owner, rows = 0), todo # <<>>, Kind(todo, 1) = "newTracker"
  PROVE  rows = 0
<1>1. 1 \in At(todo, {"menuReset", "freeTracker", "newTracker"})
  BY FirstStep DEF At
<1>2. Due(rows = 0, At(todo, {"clear"}), Adds(todo, owner), 1)
  BY <1>1 DEF RowsDue
<1>3. \A j \in 0..(1 - 1) : j = 0
  OBVIOUS
<1> QED BY <1>2, <1>3 DEF Due

LEMMA PopRowsNow ==
  ASSUME TypeOK, Shape(todo), FreedFirst, AssignOK, RowsDue(todo, owner, rows = 0), RowsNow, Pop
  PROVE  RowsNow'
<1> DEFINE K == {"clear", "freeTracker", "newTracker", "assign"}
<1>1. todo \in Seq(Steps) /\ todo # <<>> /\ todo' = Tail(todo) /\ 1 \in 1..Len(todo)
  BY FirstStep DEF TypeOK, Pop
<1>2. SUFFICES ASSUME At(todo', K) = {}
               PROVE  rows' = (IF tracker' = None THEN 0 ELSE tracker'.items)
  BY DEF RowsNow
<1>3. At(todo, K) \subseteq {1} /\ (1 \in At(todo, K) <=> Kind(todo, 1) \in K)
  BY <1>1, <1>2, TailAt
<1>4. ASSUME NEW i \in Nat \ {0}, i # 1 PROVE Kind(todo, i) \notin K
  <2>1. Kind(todo, i) # "end" => i \in 1..Len(todo)
    BY <1>1, KindEnd
  <2> QED BY <1>3, <1>4, <2>1 DEF At
<1>5. Kind(todo, 1) # "clear"
  <2> SUFFICES ASSUME Kind(todo, 1) = "clear" PROVE FALSE
    OBVIOUS
  <2>1. Kind(todo, 1 + 1) \in {"nameReset", "menuReset"}
    BY <1>1 DEF Shape
  <2>2. Kind(todo, 2) \in {"nameReset", "menuReset"}
    BY <2>1
  <2>3. 2 \in 1..Len(todo)
    BY <1>1, <2>2, KindEnd
  <2>4. Kind(todo, 2 + 1) = "freeTracker" \/ Kind(todo, 2 + 4) = "clear"
    BY <2>2, <2>3 DEF Shape
  <2> QED BY <1>4, <2>4
<1>6. Kind(todo, 1) # "freeTracker"
  <2> SUFFICES ASSUME Kind(todo, 1) = "freeTracker" PROVE FALSE
    OBVIOUS
  <2>1. Kind(todo, 1 + 1) = "newTracker"
    BY <1>1 DEF Shape
  <2> QED BY <1>4, <2>1
<1>7. CASE Kind(todo, 1) = "newTracker"
  <2>1. rows = 0 /\ tracker = None
    BY <1>1, <1>7, NewTrackerHasNoRows DEF FreedFirst
  <2> QED BY <1>7, <2>1 DEF Pop
<1>8. CASE Kind(todo, 1) = "assign"
  <2>1. rows = todo[1].tracker.items
    BY <1>3, <1>8, <1>1 DEF AssignOK, At
  <2>2. todo[1].tracker \in Tracker
    BY <1>1, <1>8, FirstStep DEF Steps, Signals
  <2>3. None \notin Tracker
    BY LifecycleAssumption
  <2> QED BY <1>8, <2>1, <2>2, <2>3 DEF Pop
<1>9. CASE Kind(todo, 1) \notin K
  <2>1. At(todo, K) = {}
    BY <1>3, <1>9
  <2>2. rows = (IF tracker = None THEN 0 ELSE tracker.items)
    BY <2>1 DEF RowsNow
  <2> QED BY <1>9, <2>2 DEF Pop
<1> QED BY <1>5, <1>6, <1>7, <1>8, <1>9

LEMMA PopMenu ==
  ASSUME TypeOK, Pop, FreedFirst, AssignOK
  PROVE  /\ Kind(todo, 1) \in {"newTracker", "assign"} => MenuNow'
         /\ MenuNow /\ Kind(todo, 1) \notin {"noOwner", "freeTracker"} => MenuNow'
<1>1. CASE Kind(todo, 1) = "newTracker"
  BY <1>1 DEF Pop, FreedFirst, MenuNow
<1>2. CASE Kind(todo, 1) = "assign"
  <2>1. todo # <<>> /\ 1 \in At(todo, {"assign"}) /\ todo[1].tracker \in Tracker
    BY <1>2, FirstStep DEF Pop, At, Steps, Signals
  <2>2. owner # NoOwner /\ todo[1].tracker.owner = owner /\ todo[1].tracker.path = menuPath
    BY <2>1 DEF AssignOK
  <2>3. None \notin Tracker
    BY LifecycleAssumption
  <2> QED BY <1>2, <2>1, <2>2, <2>3 DEF Pop, MenuNow
<1>3. CASE Kind(todo, 1) \notin {"newTracker", "assign", "noOwner", "freeTracker"}
  BY <1>3 DEF Pop, MenuNow
<1> QED BY <1>1, <1>2, <1>3

LEMMA PopPrefixes ==
  ASSUME TypeOK, Pop
  PROVE  /\ Kind(todo, 1) \in {"updateActions"} => PrefixesNow'
         /\ PrefixesNow /\ Kind(todo, 1) \notin {"noOwner"} => PrefixesNow'
<1>1. CASE Kind(todo, 1) = "updateActions"
  BY <1>1 DEF Pop, PrefixesNow, UpdatedGroups
<1>2. CASE Kind(todo, 1) \notin {"updateActions", "noOwner"}
  BY <1>2 DEF Pop, PrefixesNow
<1> QED BY <1>1, <1>2

LEMMA PopOwner ==
  ASSUME TypeOK, Pop, NamedUnowned(todo, owner), OwnerDue
  PROVE  OwnerDue'
<1>1. todo \in Seq(Steps) /\ todo # <<>> /\ todo' = Tail(todo) /\ 1 \in 1..Len(todo)
  BY FirstStep DEF TypeOK, Pop
<1>2. SUFFICES ASSUME At(todo', {"watch"}) = {}
               PROVE  IF At(todo', {"noOwner"}) = {} THEN OwnerNow'
                      ELSE watch' = None \/ watch'.seen \in {None, NoOwner}
  BY DEF OwnerDue
<1>3. /\ At(todo, {"watch"}) \subseteq {1}
      /\ At(todo', {"noOwner"}) = {} => At(todo, {"noOwner"}) \subseteq {1}
      /\ At(todo', {"noOwner"}) # {} => At(todo, {"noOwner"}) # {}
      /\ 1 \in At(todo, {"watch"}) <=> Kind(todo, 1) = "watch"
      /\ 1 \in At(todo, {"noOwner"}) <=> Kind(todo, 1) = "noOwner"
  BY <1>1, <1>2, TailAt
<1>4. CASE Kind(todo, 1) = "watch"
  <2>1. Unowned(todo, owner, 1)
    BY <1>1, <1>4 DEF NamedUnowned
  <2>2. owner = NoOwner
    BY <2>1 DEF Unowned
  <2>3. watch' = None \/ watch'.seen = None
    BY <1>4 DEF Pop
  <2>4. owner' = NoOwner
    BY <1>4, <2>2 DEF Pop
  <2> QED BY <2>3, <2>4 DEF OwnerNow
<1>5. CASE Kind(todo, 1) = "noOwner"
  <2>1. watch = None \/ watch.seen \in {None, NoOwner}
    BY <1>3, <1>5 DEF OwnerDue
  <2>2. watch' = watch /\ owner' = NoOwner
    BY <1>5 DEF Pop
  <2> QED BY <2>1, <2>2 DEF OwnerNow
<1>6. CASE Kind(todo, 1) \notin {"watch", "noOwner"}
  <2>1. At(todo, {"watch"}) = {} /\ (At(todo', {"noOwner"}) = {} <=> At(todo, {"noOwner"}) = {})
    BY <1>3, <1>6
  <2>2. watch' = watch /\ owner' = owner
    BY <1>6 DEF Pop
  <2> QED BY <2>1, <2>2 DEF OwnerNow, OwnerDue
<1> QED BY <1>4, <1>5, <1>6

LEMMA PopInvariant ==
  ASSUME IInv, Pop
  PROVE  IInv'
<1>1. /\ TypeOK /\ Shape(todo) /\ FreedFirst /\ NamedUnowned(todo, owner) /\ AssignOK
      /\ RowsDue(todo, owner, rows = 0) /\ RowsNow
      /\ CheckedDue(todo, MenuNow, {"newTracker", "assign"}, {"noOwner", "freeTracker"})
      /\ CheckedDue(todo, PrefixesNow, {"updateActions"}, {"noOwner"})
      /\ OwnerDue /\ WatchNamed
  BY DEF IInv, OnCourse
<1>2. todo \in Seq(Steps) /\ todo # <<>> /\ todo' = Tail(todo)
      /\ owner' = IF Kind(todo, 1) = "noOwner" THEN NoOwner ELSE owner
  BY <1>1 DEF TypeOK, Pop
<1>3. TypeOK' /\ Shape(todo') /\ NamedUnowned(todo', owner')
  BY <1>1, <1>2, PopType, TailShape, TailNamed
<1>4. FreedFirst' /\ AssignOK' /\ RowsNow' /\ OwnerDue'
  BY <1>1, PopFreed, PopAssign, PopRowsNow, PopOwner
<1>5. RowsDue(todo', owner', rows' = 0)
  <2>1. (Kind(todo, 1) = "clear" => rows' = 0) /\ (rows = 0 /\ 1 \notin Adds(todo, owner) => rows' = 0)
    BY DEF Pop
  <2> QED BY <1>1, <1>2, <2>1, TailRows
<1>6. CheckedDue(todo', MenuNow', {"newTracker", "assign"}, {"noOwner", "freeTracker"})
  <2>1. /\ Kind(todo, 1) \in {"newTracker", "assign"} => MenuNow'
        /\ MenuNow /\ Kind(todo, 1) \notin {"noOwner", "freeTracker"} => MenuNow'
    BY <1>1, PopMenu
  <2> QED BY <1>1, <1>2, <2>1, TailChecked
<1>7. CheckedDue(todo', PrefixesNow', {"updateActions"}, {"noOwner"})
  <2>1. /\ Kind(todo, 1) \in {"updateActions"} => PrefixesNow'
        /\ PrefixesNow /\ Kind(todo, 1) \notin {"noOwner"} => PrefixesNow'
    BY <1>1, PopPrefixes
  <2> QED BY <1>1, <1>2, <2>1, TailChecked
<1>8. WatchNamed'
  <2>1. None \notin Watch
    BY LifecycleAssumption
  <2>2. Kind(todo, 1) = "watch" => todo[1].name \in BusNames \cup {NoName}
    BY <1>1, <1>2, FirstStep DEF Steps, Signals
  <2>3. CASE Kind(todo, 1) = "watch"
    <3>1. [name |-> name', seen |-> None] \in Watch \/ name' = NoName
      BY <2>2, <2>3 DEF Pop, Watch
    <3> QED BY <2>1, <2>3, <3>1 DEF Pop, WatchNamed
  <2>4. CASE Kind(todo, 1) # "watch"
    BY <1>1, <2>4 DEF Pop, WatchNamed
  <2> QED BY <2>3, <2>4
<1> QED BY <1>3, <1>4, <1>5, <1>6, <1>7, <1>8 DEF IInv, OnCourse

-----------------------------------------------------------------------------
(* The steps that the functions put in front.                              *)

\* What setBusName and nameVanished have in front.
Clearing(p) ==
  /\ p \in Seq(Steps) /\ Len(p) \in {11, 13}
  /\ Kind(p, 1) = "aboutToReset" /\ Kind(p, 2) = "clear" /\ Kind(p, 3) = "nameReset"
  /\ Kind(p, 4) = "noOwner" /\ Kind(p, 5) = "updateActions" /\ Kind(p, 6) = "aboutToReset"
  /\ Kind(p, 7) = "clear" /\ Kind(p, 8) = "menuReset" /\ Kind(p, 9) = "freeTracker"
  /\ Kind(p, 10) = "newTracker" /\ Kind(p, 11) = "owner"
  /\ Len(p) = 13 => Kind(p, 12) = "watch" /\ Kind(p, 13) = "busName"

LEMMA BothClear ==
  /\ Clearing(ClearName) /\ Len(ClearName) = 11
  /\ \A n \in BusNames \cup {NoName} : Clearing(SetBusNameSteps(n)) /\ Len(SetBusNameSteps(n)) = 13
<1>1. Clearing(ClearName) /\ Len(ClearName) = 11
  BY ClearNameSteps DEF Clearing
<1>2. ASSUME NEW n \in BusNames \cup {NoName}
      PROVE  Clearing(SetBusNameSteps(n)) /\ Len(SetBusNameSteps(n)) = 13
  <2>1. /\ SetBusNameSteps(n) \in Seq(Steps) /\ Len(SetBusNameSteps(n)) = 13
        /\ \A i \in 1..11 : Kind(SetBusNameSteps(n), i) = Kind(ClearName, i)
        /\ Kind(SetBusNameSteps(n), 12) = "watch" /\ Kind(SetBusNameSteps(n), 13) = "busName"
    BY BusNameSteps
  <2> QED BY <2>1, ClearNameSteps DEF Clearing
<1> QED BY <1>1, <1>2

LEMMA ClearingDue ==
  ASSUME NEW p, Clearing(p), NEW o, NEW now
  PROVE  /\ Shape(p) /\ RowsDue(p, o, now)
         /\ \A i \in 1..Len(p) : Kind(p, i) \in {"watch", "busName", "owner"} => Unowned(p, o, i)
         /\ \E w \in 1..Len(p) : w \in At(p, {"clear"}) /\ \A k \in (w + 1)..Len(p) : k \notin Adds(p, o)
         /\ \A i \in 1..Len(p) : Kind(p, i) = "owner" =>
              /\ Due(now, At(p, {"newTracker", "assign"}), At(p, {"noOwner", "freeTracker"}), i)
              /\ Due(now, At(p, {"updateActions"}), At(p, {"noOwner"}), i)
         /\ \E w \in 1..Len(p) : /\ w \in At(p, {"newTracker", "assign"})
                                 /\ \A k \in (w + 1)..Len(p) : k \notin At(p, {"noOwner", "freeTracker"})
         /\ \E w \in 1..Len(p) : /\ w \in At(p, {"updateActions"})
                                 /\ \A k \in (w + 1)..Len(p) : k \notin At(p, {"noOwner"})
<1>1. /\ \/ Len(p) = 11 /\ \A i \in 1..Len(p) : i \in {1, 2, 3, 4, 5, 6, 7, 8, 9, 10, 11}
         \/ Len(p) = 13 /\ \A i \in 1..Len(p) : i \in {1, 2, 3, 4, 5, 6, 7, 8, 9, 10, 11, 12, 13}
      /\ \A i \in {1, 2, 3, 4, 5, 6, 7, 8, 9, 10, 11} : i \in 1..Len(p)
  <2>1. CASE Len(p) = 11
    BY <2>1
  <2>2. CASE Len(p) = 13
    BY <2>2
  <2> QED BY <2>1, <2>2 DEF Clearing
<1>2. Shape(p)
  BY <1>1 DEF Clearing, Shape
<1>3. ASSUME NEW i \in 1..Len(p), i > 4 PROVE Unowned(p, o, i)
  <2>1. 4 \in 1..(i - 1) /\ Kind(p, 4) = "noOwner"
    BY <1>1, <1>3 DEF Clearing
  <2> QED BY <2>1 DEF Unowned
<1>4. \A i \in 1..Len(p) : Kind(p, i) \in {"watch", "busName", "owner"} => Unowned(p, o, i)
  BY <1>1, <1>3 DEF Clearing
<1>5. \A i \in 1..Len(p) : i \notin Adds(p, o)
  <2>1. \A i \in 1..Len(p) : Kind(p, i) = "newTracker" => i > 4
    BY <1>1 DEF Clearing
  <2> QED BY <1>3, <2>1 DEF Adds, At
<1>6. RowsDue(p, o, now)
  <2> SUFFICES ASSUME NEW i \in At(p, {"menuReset", "freeTracker", "newTracker"})
               PROVE  Due(now, At(p, {"clear"}), Adds(p, o), i)
    BY DEF RowsDue
  <2>1. i \in {8, 9, 10} /\ i \in 1..Len(p)
    BY <1>1 DEF At, Clearing
  <2>2. 7 \in 0..(i - 1) /\ 7 \in At(p, {"clear"})
    BY <1>1, <2>1 DEF At, Clearing
  <2>3. \A k \in (7 + 1)..(i - 1) : k \notin Adds(p, o)
    BY <1>1, <1>5, <2>1
  <2> QED BY <2>2, <2>3 DEF Due
<1>7. \E w \in 1..Len(p) : w \in At(p, {"clear"}) /\ \A k \in (w + 1)..Len(p) : k \notin Adds(p, o)
  <2>1. 7 \in 1..Len(p) /\ 7 \in At(p, {"clear"})
    BY <1>1 DEF At, Clearing
  <2>2. \A k \in (7 + 1)..Len(p) : k \in 1..Len(p)
    BY DEF Clearing
  <2> QED BY <1>5, <2>1, <2>2
<1>8. 10 \in 1..Len(p) /\ 10 \in At(p, {"newTracker", "assign"})
  BY <1>1 DEF At, Clearing
<1>9. \A k \in (10 + 1)..Len(p) : k \notin At(p, {"noOwner", "freeTracker"})
  <2>1. CASE Len(p) = 11
    <3>1. \A k \in (10 + 1)..Len(p) : k = 11
      BY <2>1
    <3> QED BY <3>1 DEF At, Clearing
  <2>2. CASE Len(p) = 13
    <3>1. \A k \in (10 + 1)..Len(p) : k \in {11, 12, 13}
      BY <2>2
    <3> QED BY <2>2, <3>1 DEF At, Clearing
  <2> QED BY <2>1, <2>2 DEF Clearing
<1>10. 5 \in 1..Len(p) /\ 5 \in At(p, {"updateActions"})
  BY <1>1 DEF At, Clearing
<1>11. \A k \in (5 + 1)..Len(p) : k \notin At(p, {"noOwner"})
  <2>1. CASE Len(p) = 11
    <3>1. \A k \in (5 + 1)..Len(p) : k \in {6, 7, 8, 9, 10, 11}
      BY <2>1
    <3> QED BY <3>1 DEF At, Clearing
  <2>2. CASE Len(p) = 13
    <3>1. \A k \in (5 + 1)..Len(p) : k \in {6, 7, 8, 9, 10, 11, 12, 13}
      BY <2>2
    <3> QED BY <2>2, <3>1 DEF At, Clearing
  <2> QED BY <2>1, <2>2 DEF Clearing
<1>12. ASSUME NEW i \in 1..Len(p), Kind(p, i) = "owner"
       PROVE  /\ Due(now, At(p, {"newTracker", "assign"}), At(p, {"noOwner", "freeTracker"}), i)
              /\ Due(now, At(p, {"updateActions"}), At(p, {"noOwner"}), i)
  <2>1. i = 11
    BY <1>1, <1>12 DEF Clearing
  <2>2. /\ 10 \in 0..(i - 1) /\ \A k \in (10 + 1)..(i - 1) : k \in (10 + 1)..Len(p)
        /\ 5 \in 0..(i - 1) /\ \A k \in (5 + 1)..(i - 1) : k \in (5 + 1)..Len(p)
    BY <2>1 DEF Clearing
  <2> QED BY <1>8, <1>9, <1>10, <1>11, <2>2 DEF Due
<1> QED BY <1>2, <1>4, <1>6, <1>7, <1>8, <1>9, <1>10, <1>11, <1>12

LEMMA UpdateMenuModelDue ==
  ASSUME NEW o, NEW now
  PROVE  /\ Shape(UpdateMenuModel) /\ RowsDue(UpdateMenuModel, o, now)
         /\ o = NoOwner => \E w \in 1..Len(UpdateMenuModel) :
              /\ w \in At(UpdateMenuModel, {"clear"})
              /\ \A k \in (w + 1)..Len(UpdateMenuModel) : k \notin Adds(UpdateMenuModel, o)
         /\ \A i \in 1..Len(UpdateMenuModel) : Kind(UpdateMenuModel, i) \notin {"watch", "busName", "owner"}
         /\ \E w \in 1..Len(UpdateMenuModel) :
              /\ w \in At(UpdateMenuModel, {"newTracker", "assign"})
              /\ \A k \in (w + 1)..Len(UpdateMenuModel) : k \notin At(UpdateMenuModel, {"noOwner", "freeTracker"})
         /\ \A k \in 1..Len(UpdateMenuModel) : k \notin At(UpdateMenuModel, {"noOwner"})
<1> DEFINE p == UpdateMenuModel
<1>1. /\ p \in Seq(Steps) /\ Len(p) = 5
      /\ Kind(p, 1) = "aboutToReset" /\ Kind(p, 2) = "clear" /\ Kind(p, 3) = "menuReset"
      /\ Kind(p, 4) = "freeTracker" /\ Kind(p, 5) = "newTracker"
  BY UpdateMenuModelSteps
<1> HIDE DEF p
<1>2. \A i \in 1..Len(p) : i \in {1, 2, 3, 4, 5}
  BY <1>1
<1>3. Shape(p)
  BY <1>1, <1>2 DEF Shape
<1>4. RowsDue(p, o, now)
  <2> SUFFICES ASSUME NEW i \in At(p, {"menuReset", "freeTracker", "newTracker"})
               PROVE  Due(now, At(p, {"clear"}), Adds(p, o), i)
    BY DEF RowsDue
  <2>1. i \in {3, 4, 5}
    BY <1>1, <1>2 DEF At
  <2>2. 2 \in 0..(i - 1) /\ 2 \in At(p, {"clear"})
    BY <1>1, <2>1 DEF At
  <2>3. \A k \in (2 + 1)..(i - 1) : k \in {3, 4}
    BY <2>1
  <2>4. \A k \in (2 + 1)..(i - 1) : k \notin Adds(p, o)
    BY <1>1, <2>3 DEF Adds, At
  <2> QED BY <2>2, <2>4 DEF Due
<1>5. ASSUME o = NoOwner
      PROVE  \E w \in 1..Len(p) : w \in At(p, {"clear"}) /\ \A k \in (w + 1)..Len(p) : k \notin Adds(p, o)
  <2>1. 2 \in 1..Len(p) /\ 2 \in At(p, {"clear"})
    BY <1>1 DEF At
  <2> QED BY <1>5, <2>1 DEF Adds, Unowned
<1>6. 5 \in 1..Len(p) /\ 5 \in At(p, {"newTracker", "assign"}) /\ \A k \in (5 + 1)..Len(p) : FALSE
  BY <1>1 DEF At
<1>7. /\ \A k \in 1..Len(p) : k \notin At(p, {"noOwner"})
      /\ \A i \in 1..Len(p) : Kind(p, i) \notin {"watch", "busName", "owner"}
  BY <1>1, <1>2 DEF At
<1> QED BY <1>3, <1>4, <1>5, <1>6, <1>7 DEF p

\* Where a setter is called from.
LEMMA CalledFrom ==
  ASSUME TypeOK, NEW m, MayCall(m)
  PROVE  /\ todo \in Seq(Steps) /\ Kind(todo, 1) # "newTracker"
         /\ \/ todo = <<>> /\ \A kinds : At(todo, kinds) = {}
            \/ todo # <<>> /\ 1 \in 1..Len(todo) /\ Kind(todo, 1) \in Signals /\ m \in Reentry[Kind(todo, 1)]
<1>1. CASE todo = <<>>
  <2>1. Len(todo) = 0 /\ todo \in Seq(Steps)
    BY <1>1, EmptySeq DEF TypeOK
  <2> QED BY <1>1, <2>1 DEF At, Kind
<1>2. CASE todo # <<>>
  <2>1. /\ todo \in Seq(Steps) /\ 1 \in 1..Len(todo) /\ todo[1] \in Steps /\ Head(todo) = todo[1]
        /\ Kind(todo, 1) = IF todo[1].op = "signal" THEN todo[1].signal ELSE todo[1].op
    BY <1>2, FirstStep
  <2>2. Head(todo).op = "signal" /\ m \in Reentry[Head(todo).signal]
    BY <1>2 DEF MayCall
  <2>3. todo[1].op = "signal" => todo[1].signal \in Signals
    BY <2>1 DEF Steps
  <2>4. Kind(todo, 1) \in Signals
    BY <2>1, <2>2, <2>3
  <2> QED BY <1>2, <2>1, <2>2, <2>4 DEF Signals
<1> QED BY <1>1, <1>2

LEMMA NoAssignPending ==
  ASSUME Tame, TypeOK, AssignOK, NEW m \in {"name", "path"}, MayCall(m)
  PROVE  At(todo, {"assign"}) = {}
<1> SUFFICES ASSUME NEW i \in At(todo, {"assign"}) PROVE FALSE
  OBVIOUS
<1>1. todo # <<>> /\ Kind(todo, 1) \in Signals /\ m \in Reentry[Kind(todo, 1)]
  BY CalledFrom
<1>2. i # 1
  BY <1>1 DEF At, Signals
<1>3. Len(todo) \in Nat
  BY LenProperties DEF TypeOK
<1>4. 1 \in 1..(i - 1)
  BY <1>2, <1>3 DEF At
<1>5. Kind(todo, 1) \in {"updateActions", "firstRows"}
  BY <1>4 DEF AssignOK
<1>6. Kind(todo, 1) = "firstRows"
  BY <1>1, <1>5 DEF Signals
<1> QED BY <1>1, <1>6 DEF Tame

LEMMA PrependAt ==
  ASSUME NEW p \in Seq(Steps), NEW t \in Seq(Steps), NEW kinds
  PROVE  /\ \A i \in 1..Len(p) : i \in At(p \o t, kinds) <=> Kind(p, i) \in kinds
         /\ \A k \in At(t, kinds) : Len(p) + k \in At(p \o t, kinds) /\ (p \o t)[Len(p) + k] = t[k]
         /\ \A i \in At(p \o t, kinds) :
              i \in 1..Len(p) \/ \E k \in At(t, kinds) : i = Len(p) + k
<1> DEFINE u == p \o t
<1>1. PICK n \in Nat, m \in Nat :
           /\ Len(p) = n /\ Len(t) = m /\ Len(u) = n + m
           /\ \A i \in 1..n : Kind(u, i) = Kind(p, i)
           /\ \A i \in Nat \ {0} : Kind(u, n + i) = Kind(t, i)
           /\ \A i \in Nat \ {0} : Kind(p, i) # "end" => i \in 1..n
           /\ \A i \in 1..((n + m) + 1) : i \notin 1..n => \E k \in 1..(m + 1) : i = n + k
  BY KindsInFront
<1>2. \A i \in 1..Len(t) : u[Len(p) + i] = t[i]
  BY KindPrepended
<1> HIDE DEF u
<1>3. ASSUME NEW i \in 1..n PROVE i \in At(u, kinds) <=> Kind(p, i) \in kinds
  <2>1. i \in 1..(n + m)
    OBVIOUS
  <2> QED BY <1>1, <2>1 DEF At
<1>4. ASSUME NEW k \in At(t, kinds) PROVE n + k \in At(u, kinds) /\ u[n + k] = t[k]
  <2>1. k \in 1..m /\ Kind(t, k) \in kinds
    BY <1>1 DEF At
  <2>2. k \in Nat \ {0} /\ n + k \in 1..(n + m)
    BY <2>1
  <2> QED BY <1>1, <1>2, <2>1, <2>2 DEF At
<1>5. ASSUME NEW i \in At(u, kinds), i \notin 1..n PROVE \E k \in At(t, kinds) : i = n + k
  <2>1. i \in 1..(n + m) /\ Kind(u, i) \in kinds
    BY <1>1 DEF At
  <2>2. i \in 1..((n + m) + 1)
    BY <2>1
  <2>3. PICK k \in 1..(m + 1) : i = n + k
    BY <1>1, <1>5, <2>2
  <2>4. k \in 1..m /\ k \in Nat \ {0}
    BY <2>1, <2>3
  <2>5. k \in At(t, kinds)
    BY <1>1, <2>1, <2>3, <2>4 DEF At
  <2> QED BY <2>3, <2>5
<1> QED BY <1>1, <1>3, <1>4, <1>5 DEF u

-----------------------------------------------------------------------------
(* The functions preserve the invariant.                                   *)

\* Setting a name, or losing the owner.
LEMMA ClearingStep ==
  ASSUME IInv, NEW p, Clearing(p), todo' = p \o todo,
         Kind(todo, 1) # "newTracker", At(todo, {"assign"}) = {},
         UNCHANGED <<menuPath, actions, owner, groups, tracker, rows>>
  PROVE  /\ todo' \in Seq(Steps)
         /\ Shape(todo') /\ FreedFirst' /\ NamedUnowned(todo', owner') /\ AssignOK'
         /\ RowsDue(todo', owner', rows' = 0) /\ RowsNow'
         /\ CheckedDue(todo', MenuNow', {"newTracker", "assign"}, {"noOwner", "freeTracker"})
         /\ CheckedDue(todo', PrefixesNow', {"updateActions"}, {"noOwner"})
         /\ At(todo', {"noOwner"}) # {} /\ (Len(p) = 13 => At(todo', {"watch"}) # {})
<1> DEFINE t == todo
           o == owner
           now == rows = 0
           menu == MenuNow
           prefixes == PrefixesNow
<1>1. p \in Seq(Steps) /\ t \in Seq(Steps) /\ Kind(t, 1) # "newTracker"
  BY DEF Clearing, IInv, OnCourse, TypeOK
<1>2. /\ Shape(t) /\ NamedUnowned(t, o) /\ RowsDue(t, o, now)
      /\ CheckedDue(t, menu, {"newTracker", "assign"}, {"noOwner", "freeTracker"})
      /\ CheckedDue(t, prefixes, {"updateActions"}, {"noOwner"})
  BY DEF IInv, OnCourse
<1>3. owner' = o /\ (rows' = 0) = now /\ MenuNow' = menu /\ PrefixesNow' = prefixes
  BY DEF MenuNow, PrefixesNow
<1> HIDE DEF t, o, now, menu, prefixes
<1>4. /\ Shape(p) /\ RowsDue(p, o, now)
      /\ \A i \in 1..Len(p) : Kind(p, i) \in {"watch", "busName", "owner"} => Unowned(p, o, i)
      /\ \E w \in 1..Len(p) : w \in At(p, {"clear"}) /\ \A k \in (w + 1)..Len(p) : k \notin Adds(p, o)
  BY ClearingDue
<1>5. /\ \A i \in 1..Len(p) : Kind(p, i) = "owner" =>
              Due(menu, At(p, {"newTracker", "assign"}), At(p, {"noOwner", "freeTracker"}), i)
      /\ \E w \in 1..Len(p) : /\ w \in At(p, {"newTracker", "assign"})
                              /\ \A k \in (w + 1)..Len(p) : k \notin At(p, {"noOwner", "freeTracker"})
  BY ClearingDue
<1>6. /\ \A i \in 1..Len(p) : Kind(p, i) = "owner" =>
              Due(prefixes, At(p, {"updateActions"}), At(p, {"noOwner"}), i)
      /\ \E w \in 1..Len(p) : /\ w \in At(p, {"updateActions"})
                              /\ \A k \in (w + 1)..Len(p) : k \notin At(p, {"noOwner"})
  BY ClearingDue
<1>7. Shape(p \o t) /\ NamedUnowned(p \o t, o)
  BY <1>1, <1>2, <1>4, PrependShape, PrependNamed
<1>8. RowsDue(p \o t, o, now)
  BY <1>1, <1>2, <1>4, PrependRows
<1>9. CheckedDue(p \o t, menu, {"newTracker", "assign"}, {"noOwner", "freeTracker"})
  BY <1>1, <1>2, <1>5, PrependChecked
<1>10. CheckedDue(p \o t, prefixes, {"updateActions"}, {"noOwner"})
  BY <1>1, <1>2, <1>6, PrependChecked
<1>11. /\ 1 \in 1..Len(p) /\ 4 \in 1..Len(p) /\ 9 \in 1..Len(p) /\ (Len(p) = 13 => 12 \in 1..Len(p))
       /\ Kind(p, 1) = "aboutToReset" /\ Kind(p, 4) = "noOwner" /\ Kind(p, 9) = "freeTracker"
       /\ Len(p) = 13 => Kind(p, 12) = "watch"
  <2>1. CASE Len(p) = 11
    BY <2>1 DEF Clearing
  <2>2. CASE Len(p) = 13
    BY <2>2 DEF Clearing
  <2> QED BY <2>1, <2>2 DEF Clearing
<1>12. /\ At(p \o t, {"noOwner"}) # {} /\ (Len(p) = 13 => At(p \o t, {"watch"}) # {})
       /\ At(p \o t, {"clear", "freeTracker", "newTracker", "assign"}) # {}
  <2>1. \A i \in 1..Len(p) : i \in At(p \o t, {"noOwner"}) <=> Kind(p, i) \in {"noOwner"}
    BY <1>1, PrependAt
  <2>2. \A i \in 1..Len(p) : i \in At(p \o t, {"watch"}) <=> Kind(p, i) \in {"watch"}
    BY <1>1, PrependAt
  <2>3. \A i \in 1..Len(p) : i \in At(p \o t, {"clear", "freeTracker", "newTracker", "assign"}) <=>
          Kind(p, i) \in {"clear", "freeTracker", "newTracker", "assign"}
    BY <1>1, PrependAt
  <2> QED BY <1>11, <2>1, <2>2, <2>3
<1>13. At(p \o t, {"assign"}) = {}
  <2>1. \A i \in 1..Len(p) : Kind(p, i) # "assign"
    <3>1. \/ Len(p) = 11 /\ \A i \in 1..Len(p) : i \in {1, 2, 3, 4, 5, 6, 7, 8, 9, 10, 11}
          \/ Len(p) = 13 /\ \A i \in 1..Len(p) : i \in {1, 2, 3, 4, 5, 6, 7, 8, 9, 10, 11, 12, 13}
      <4>1. CASE Len(p) = 11
        BY <4>1
      <4>2. CASE Len(p) = 13
        BY <4>2
      <4> QED BY <4>1, <4>2 DEF Clearing
    <3> QED BY <3>1 DEF Clearing
  <2> QED BY <1>1, <2>1, PrependAt DEF t
<1>14. Kind(p \o t, 1) = "aboutToReset" /\ p \o t \in Seq(Steps)
  BY <1>1, <1>11, KindPrepended
<1>15. todo' = p \o t
  BY DEF t
<1> QED BY <1>3, <1>7, <1>8, <1>9, <1>10, <1>12, <1>13, <1>14, <1>15 DEF FreedFirst, AssignOK, RowsNow

LEMMA SetBusNameStep ==
  ASSUME IInv, Tame, SetBusName
  PROVE  IInv'
<1>1. PICK n \in BusNames \cup {NoName} : todo' = SetBusNameSteps(n) \o todo
  BY DEF SetBusName, First, SetBusNameSteps
<1>2. UNCHANGED <<name, menuPath, actions, watch, owner, groups, tracker, rows>> /\ MayCall("name")
  BY DEF SetBusName
<1>3. TypeOK /\ AssignOK /\ WatchNamed
  BY DEF IInv, OnCourse
<1>4. Kind(todo, 1) # "newTracker" /\ At(todo, {"assign"}) = {}
  BY <1>2, <1>3, CalledFrom, NoAssignPending
<1>5. Clearing(SetBusNameSteps(n)) /\ Len(SetBusNameSteps(n)) = 13
  BY BothClear
<1>6. /\ todo' \in Seq(Steps)
      /\ Shape(todo') /\ FreedFirst' /\ NamedUnowned(todo', owner') /\ AssignOK'
      /\ RowsDue(todo', owner', rows' = 0) /\ RowsNow'
      /\ CheckedDue(todo', MenuNow', {"newTracker", "assign"}, {"noOwner", "freeTracker"})
      /\ CheckedDue(todo', PrefixesNow', {"updateActions"}, {"noOwner"})
      /\ At(todo', {"watch"}) # {}
  BY <1>1, <1>2, <1>4, <1>5, ClearingStep
<1>7. TypeOK' /\ WatchNamed' /\ OwnerDue'
  BY <1>2, <1>3, <1>6 DEF TypeOK, WatchNamed, OwnerDue
<1> QED BY <1>6, <1>7 DEF IInv, OnCourse

\* Nothing is pending.
LEMMA NothingPending ==
  ASSUME TypeOK, todo = <<>>
  PROVE  /\ \A kinds : At(todo, kinds) = {}
         /\ Len(todo) = 0 /\ Kind(todo, 1) = "end" /\ Checked(todo) = {1}
         /\ \A W, B : Due(FALSE, W, B, 1) = FALSE
<1>1. Len(todo) = 0
  BY EmptySeq
<1>2. Kind(todo, 1) = "end" /\ \A kinds : At(todo, kinds) = {}
  BY <1>1 DEF Kind, At
<1>3. Checked(todo) = {1}
  BY <1>1, <1>2 DEF Checked
<1>4. \A W, B : Due(FALSE, W, B, 1) = FALSE
  BY DEF Due
<1> QED BY <1>1, <1>2, <1>3, <1>4

LEMMA NameVanishedStep ==
  ASSUME IInv, NameVanished
  PROVE  IInv'
<1>1. todo' = ClearName \o todo /\ todo = <<>> /\ watch # None /\ watch' = [watch EXCEPT !.seen = NoOwner]
  BY DEF NameVanished, First
<1>2. UNCHANGED <<name, menuPath, actions, owner, groups, tracker, rows>>
  BY DEF NameVanished
<1>3. TypeOK /\ WatchNamed
  BY DEF IInv, OnCourse
<1>4. Kind(todo, 1) # "newTracker" /\ At(todo, {"assign"}) = {}
  BY <1>1, <1>3, NothingPending
<1>5. Clearing(ClearName)
  BY BothClear
<1>6. /\ todo' \in Seq(Steps)
      /\ Shape(todo') /\ FreedFirst' /\ NamedUnowned(todo', owner') /\ AssignOK'
      /\ RowsDue(todo', owner', rows' = 0) /\ RowsNow'
      /\ CheckedDue(todo', MenuNow', {"newTracker", "assign"}, {"noOwner", "freeTracker"})
      /\ CheckedDue(todo', PrefixesNow', {"updateActions"}, {"noOwner"})
      /\ At(todo', {"noOwner"}) # {}
  BY <1>1, <1>2, <1>4, <1>5, ClearingStep
<1>7. watch' \in Watch /\ watch'.name = watch.name /\ watch'.seen = NoOwner /\ None \notin Watch
  BY <1>1, <1>3, LifecycleAssumption DEF TypeOK, Watch
<1>8. TypeOK'
  BY <1>2, <1>3, <1>6, <1>7 DEF TypeOK
<1>9. WatchNamed' /\ OwnerDue'
  BY <1>1, <1>2, <1>3, <1>6, <1>7 DEF WatchNamed, OwnerDue
<1> QED BY <1>6, <1>8, <1>9 DEF IInv, OnCourse

\* A path is set: what the pending steps have still to clear they clear.
LEMMA SetMenuObjectPathStep ==
  ASSUME IInv, Tame, SetMenuObjectPath
  PROVE  IInv'
<1> DEFINE p == UpdateMenuModel
           t == todo
           o == owner
           now == rows = 0
           menu == MenuNow
           prefixes == PrefixesNow
<1>1. todo' = p \o t /\ menuPath' \in Paths \cup {NoPath} /\ MayCall("path")
      /\ UNCHANGED <<name, actions, watch, owner, groups, tracker, rows>>
  BY DEF SetMenuObjectPath, First
<1>2. TypeOK /\ AssignOK /\ WatchNamed /\ OwnerDue
  BY DEF IInv, OnCourse
<1>3. /\ Shape(t) /\ NamedUnowned(t, o) /\ RowsDue(t, o, now)
      /\ CheckedDue(t, menu, {"newTracker", "assign"}, {"noOwner", "freeTracker"})
      /\ CheckedDue(t, prefixes, {"updateActions"}, {"noOwner"})
  BY DEF IInv, OnCourse
<1>4. owner' = o /\ (rows' = 0) = now /\ PrefixesNow' = prefixes
  BY <1>1 DEF PrefixesNow
<1>5. At(t, {"assign"}) = {} /\ t \in Seq(Steps) /\ Kind(t, 1) # "newTracker"
  BY <1>1, <1>2, CalledFrom, NoAssignPending
<1>6. \/ t = <<>> /\ \A kinds : At(t, kinds) = {}
      \/ /\ t # <<>> /\ 1 \in 1..Len(t)
         /\ Kind(t, 1) \in {"aboutToReset", "nameReset", "owner", "busName"}
  <2>1. \/ t = <<>> /\ \A kinds : At(t, kinds) = {}
        \/ t # <<>> /\ 1 \in 1..Len(t) /\ Kind(t, 1) \in Signals /\ "path" \in Reentry[Kind(t, 1)]
    BY <1>1, <1>2, CalledFrom
  <2> QED BY <2>1 DEF Tame, Signals
<1> HIDE DEF p, t, o, now, menu, prefixes
<1>7. /\ p \in Seq(Steps) /\ Len(p) = 5
      /\ Kind(p, 1) = "aboutToReset" /\ Kind(p, 2) = "clear" /\ Kind(p, 3) = "menuReset"
      /\ Kind(p, 4) = "freeTracker" /\ Kind(p, 5) = "newTracker"
  BY UpdateMenuModelSteps DEF p
<1>8. /\ Shape(p) /\ RowsDue(p, o, now)
      /\ o = NoOwner => \E w \in 1..Len(p) :
           w \in At(p, {"clear"}) /\ \A k \in (w + 1)..Len(p) : k \notin Adds(p, o)
      /\ \A i \in 1..Len(p) : Kind(p, i) \notin {"watch", "busName", "owner"}
      /\ \E w \in 1..Len(p) : /\ w \in At(p, {"newTracker", "assign"})
                              /\ \A k \in (w + 1)..Len(p) : k \notin At(p, {"noOwner", "freeTracker"})
      /\ \A k \in 1..Len(p) : k \notin At(p, {"noOwner"})
  BY UpdateMenuModelDue DEF p
<1>9. o # NoOwner => RowsDue(t, o, FALSE)
  <2> SUFFICES ASSUME o # NoOwner, NEW i \in At(t, {"menuReset", "freeTracker", "newTracker"})
               PROVE  Due(FALSE, At(t, {"clear"}), Adds(t, o), i)
    BY DEF RowsDue
  <2>1. /\ 1 \in 1..Len(t) /\ Kind(t, 1) \in {"aboutToReset", "nameReset", "owner", "busName"}
        /\ i \in 1..Len(t) /\ Kind(t, i) \in {"menuReset", "freeTracker", "newTracker"} /\ Len(t) \in Nat
    BY <1>5, <1>6, LenProperties DEF At
  <2>2. ~Unowned(t, o, 1)
    BY DEF Unowned
  <2>3. Kind(t, 1) # "busName"
    BY <2>1, <2>2, <1>3 DEF NamedUnowned
  <2>4. Kind(t, 1) # "owner"
    <3> SUFFICES ASSUME Kind(t, 1) = "owner" PROVE FALSE
      OBVIOUS
    <3>1. Kind(t, 1 + 1) = "end"
      BY <1>3, <2>1, <2>2 DEF NamedUnowned
    <3>2. 2 > Len(t)
      BY <1>5, <3>1, KindEnd
    <3>3. i = 1
      BY <2>1, <3>2
    <3> QED BY <2>1, <3>3
  <2>5. PICK c \in {2, 5} :
          c \in At(t, {"clear"}) /\ \A k \in 1..c : Kind(t, k) \notin {"menuReset", "freeTracker", "newTracker"}
    <3>1. CASE Kind(t, 1) = "aboutToReset"
      <4>1. Kind(t, 1 + 1) = "clear"
        BY <1>3, <2>1, <3>1 DEF Shape
      <4>2. 2 \in 1..Len(t) /\ Kind(t, 2) = "clear"
        BY <1>5, <4>1, KindEnd
      <4>3. \A k \in 1..2 : k \in {1, 2}
        OBVIOUS
      <4> QED BY <3>1, <4>2, <4>3 DEF At
    <3>2. CASE Kind(t, 1) = "nameReset"
      <4>1. /\ Kind(t, 1 + 1) = "noOwner" /\ Kind(t, 1 + 2) = "updateActions"
            /\ Kind(t, 1 + 3) = "aboutToReset" /\ Kind(t, 1 + 4) = "clear"
        BY <1>3, <2>1, <3>2 DEF Shape
      <4>2. 5 \in 1..Len(t) /\ Kind(t, 5) = "clear"
        BY <1>5, <4>1, KindEnd
      <4>3. \A k \in 1..5 : k \in {1, 2, 3, 4, 5}
        OBVIOUS
      <4> QED BY <3>2, <4>1, <4>2, <4>3 DEF At
    <3> QED BY <2>1, <2>3, <2>4, <3>1, <3>2
  <2>6. c < i /\ c \in Nat /\ i \in Nat
    BY <2>1, <2>5
  <2>7. Due(now, At(t, {"clear"}), Adds(t, o), i)
    BY <1>3 DEF RowsDue
  <2>8. PICK j \in 0..(i - 1) : /\ IF j = 0 THEN now ELSE j \in At(t, {"clear"})
                                /\ \A k \in (j + 1)..(i - 1) : k \notin Adds(t, o)
    BY <2>7 DEF Due
  <2>9. CASE j # 0
    BY <2>8, <2>9 DEF Due
  <2>10. CASE j = 0
    <3>1. c \in 0..(i - 1) /\ c # 0 /\ \A k \in (c + 1)..(i - 1) : k \in (j + 1)..(i - 1)
      BY <2>6, <2>10, <2>5
    <3> QED BY <2>5, <2>8, <3>1 DEF Due
  <2> QED BY <2>9, <2>10
<1>10. Shape(p \o t) /\ NamedUnowned(p \o t, o)
  BY <1>3, <1>5, <1>7, <1>8, PrependShape, PrependNamed
<1>11. RowsDue(p \o t, o, now)
  <2>1. CASE o = NoOwner
    BY <1>3, <1>5, <1>7, <1>8, <2>1, PrependRows
  <2>2. CASE o # NoOwner
    <3>1. FALSE => now /\ \A k \in 1..Len(p) : k \notin Adds(p, o)
      OBVIOUS
    <3> QED BY <1>5, <1>7, <1>8, <1>9, <2>2, <3>1, PrependRows
  <2> QED BY <2>1, <2>2
<1>12. CheckedDue(p \o t, MenuNow', {"newTracker", "assign"}, {"noOwner", "freeTracker"})
  <2>1. \A i \in 1..Len(p) : Kind(p, i) = "owner" =>
          Due(MenuNow', At(p, {"newTracker", "assign"}), At(p, {"noOwner", "freeTracker"}), i)
    BY <1>8
  <2> QED BY <1>3, <1>5, <1>7, <1>8, <2>1, PrependChecked
<1>13. CheckedDue(p \o t, prefixes, {"updateActions"}, {"noOwner"})
  <2>1. \A i \in 1..Len(p) : Kind(p, i) = "owner" =>
          Due(prefixes, At(p, {"updateActions"}), At(p, {"noOwner"}), i)
    BY <1>8
  <2> QED BY <1>3, <1>5, <1>7, <1>8, <2>1, PrependChecked
<1>14. /\ \A i \in 1..Len(p) : Kind(p, i) \notin {"assign", "watch", "noOwner"}
       /\ 1 \in 1..Len(p) /\ 4 \in 1..Len(p)
  BY <1>7
<1>15. /\ At(p \o t, {"assign"}) = {} /\ At(p \o t, {"clear", "freeTracker", "newTracker", "assign"}) # {}
       /\ At(p \o t, {"watch"}) = {} <=> At(t, {"watch"}) = {}
       /\ At(p \o t, {"noOwner"}) = {} <=> At(t, {"noOwner"}) = {}
  <2>1. ASSUME NEW kinds \in {{"assign"}, {"watch"}, {"noOwner"}}
        PROVE  At(p \o t, kinds) = {} <=> At(t, kinds) = {}
    <3>1. \A i \in 1..Len(p) : Kind(p, i) \notin kinds
      BY <1>14
    <3>2. /\ \A i \in 1..Len(p) : i \in At(p \o t, kinds) <=> Kind(p, i) \in kinds
          /\ \A k \in At(t, kinds) : Len(p) + k \in At(p \o t, kinds) /\ (p \o t)[Len(p) + k] = t[k]
          /\ \A i \in At(p \o t, kinds) :
               i \in 1..Len(p) \/ \E k \in At(t, kinds) : i = Len(p) + k
      BY <1>5, <1>7, PrependAt
    <3> QED BY <3>1, <3>2
  <2>2. 4 \in At(p \o t, {"clear", "freeTracker", "newTracker", "assign"})
    <3>1. p \in Seq(Steps) /\ t \in Seq(Steps)
      BY <1>5, <1>7
    <3>2. \A i \in 1..Len(p) : i \in At(p \o t, {"clear", "freeTracker", "newTracker", "assign"}) <=>
            Kind(p, i) \in {"clear", "freeTracker", "newTracker", "assign"}
      BY <3>1, PrependAt
    <3> QED BY <1>7, <1>14, <3>2
  <2> QED BY <1>5, <2>1, <2>2
<1>16. Kind(p \o t, 1) = "aboutToReset" /\ p \o t \in Seq(Steps)
  BY <1>5, <1>7, <1>14, KindPrepended
<1>17. /\ At(todo', {"watch"}) = {} <=> At(todo, {"watch"}) = {}
       /\ At(todo', {"noOwner"}) = {} <=> At(todo, {"noOwner"}) = {}
  BY <1>1, <1>15 DEF t
<1>18. TypeOK' /\ WatchNamed' /\ OwnerDue'
  BY <1>1, <1>2, <1>16, <1>17 DEF TypeOK, WatchNamed, OwnerDue, OwnerNow
<1>19. FreedFirst' /\ AssignOK' /\ RowsNow'
  BY <1>1, <1>15, <1>16 DEF FreedFirst, AssignOK, RowsNow
<1> QED BY <1>1, <1>4, <1>10, <1>11, <1>12, <1>13, <1>18, <1>19 DEF IInv, OnCourse

\* Steps of which nothing that is due depends, but that a tracker is assigned.
Quiet(p) == p \in Seq(Steps) /\ \A i \in 1..Len(p) : Kind(p, i) \in {"updateActions", "firstRows", "rows", "assign"}

LEMMA QuietDue ==
  ASSUME NEW p, Quiet(p), NEW o, NEW now
  PROVE  /\ Shape(p) /\ RowsDue(p, o, now)
         /\ \A i \in 1..Len(p) : Kind(p, i) \notin {"watch", "busName", "owner"}
         /\ \A k \in 1..Len(p) : k \notin Adds(p, o)
         /\ \A k \in 1..Len(p) : k \notin At(p, {"noOwner", "freeTracker"}) /\ k \notin At(p, {"noOwner"})
<1>1. \A i \in 1..Len(p) : Kind(p, i) \in {"updateActions", "firstRows", "rows", "assign"}
  BY DEF Quiet
<1>2. Shape(p)
  BY <1>1 DEF Shape
<1>3. RowsDue(p, o, now)
  BY <1>1 DEF RowsDue, At
<1>4. \A k \in 1..Len(p) : k \notin Adds(p, o)
  BY <1>1 DEF Adds, At
<1>5. \A k \in 1..Len(p) : k \notin At(p, {"noOwner", "freeTracker"}) /\ k \notin At(p, {"noOwner"})
  BY <1>1 DEF At
<1> QED BY <1>1, <1>2, <1>3, <1>4, <1>5

\* t is what was pending, or what is left of it when its first step is done.
LEMMA QuietInFront ==
  ASSUME NEW p, Quiet(p), NEW t \in Seq(Steps), NEW o, NEW now, NEW now2,
         NEW menu, NEW menu2, NEW prefixes, NEW prefixes2,
         Kind(t, 1) # "newTracker", OnCourse(t, o, now, menu, prefixes), now => now2,
         (menu => menu2) \/ \E w \in 1..Len(p) : w = Len(p) /\ Kind(p, w) = "assign",
         (prefixes => prefixes2) \/ \E w \in 1..Len(p) : Kind(p, w) = "updateActions"
  PROVE  p \o t \in Seq(Steps) /\ OnCourse(p \o t, o, now2, menu2, prefixes2)
<1>0. /\ Shape(t) /\ NamedUnowned(t, o) /\ RowsDue(t, o, now)
      /\ CheckedDue(t, menu, {"newTracker", "assign"}, {"noOwner", "freeTracker"})
      /\ CheckedDue(t, prefixes, {"updateActions"}, {"noOwner"})
  BY DEF OnCourse
<1>1. p \in Seq(Steps) /\ \A i \in 1..Len(p) : Kind(p, i) \in {"updateActions", "firstRows", "rows", "assign"}
  BY DEF Quiet
<1>2. /\ Shape(p) /\ RowsDue(p, o, now2)
      /\ \A i \in 1..Len(p) : Kind(p, i) \notin {"watch", "busName", "owner"}
      /\ \A k \in 1..Len(p) : k \notin Adds(p, o)
      /\ \A k \in 1..Len(p) : k \notin At(p, {"noOwner", "freeTracker"}) /\ k \notin At(p, {"noOwner"})
  BY QuietDue
<1>3. p \o t \in Seq(Steps)
  BY <1>1, KindPrepended
<1>4. Shape(p \o t) /\ NamedUnowned(p \o t, o)
  BY <1>0, <1>1, <1>2, PrependShape, PrependNamed
<1>5. RowsDue(p \o t, o, now2)
  BY <1>0, <1>1, <1>2, PrependRows
<1>6. Len(p) \in Nat
  BY <1>1, LenProperties
<1>7. CheckedDue(p \o t, menu2, {"newTracker", "assign"}, {"noOwner", "freeTracker"})
  <2>1. \A i \in 1..Len(p) : Kind(p, i) = "owner" =>
          Due(menu2, At(p, {"newTracker", "assign"}), At(p, {"noOwner", "freeTracker"}), i)
    BY <1>2
  <2>2. \/ menu => menu2 /\ \A k \in 1..Len(p) : k \notin At(p, {"noOwner", "freeTracker"})
        \/ \E w \in 1..Len(p) : /\ w \in At(p, {"newTracker", "assign"})
                                /\ \A k \in (w + 1)..Len(p) : k \notin At(p, {"noOwner", "freeTracker"})
    <3>1. CASE menu => menu2
      BY <1>2, <3>1
    <3>2. ASSUME NEW w \in 1..Len(p), Kind(p, w) = "assign"
          PROVE  /\ w \in At(p, {"newTracker", "assign"})
                 /\ \A k \in (w + 1)..Len(p) : k \notin At(p, {"noOwner", "freeTracker"})
      <4>1. \A k \in (w + 1)..Len(p) : k \in 1..Len(p)
        BY <1>6
      <4> QED BY <1>2, <3>2, <4>1 DEF At
    <3> QED BY <3>1, <3>2
  <2> QED BY <1>0, <1>1, <2>1, <2>2, PrependChecked
<1>8. CheckedDue(p \o t, prefixes2, {"updateActions"}, {"noOwner"})
  <2>1. \A i \in 1..Len(p) : Kind(p, i) = "owner" =>
          Due(prefixes2, At(p, {"updateActions"}), At(p, {"noOwner"}), i)
    BY <1>2
  <2>2. \/ prefixes => prefixes2 /\ \A k \in 1..Len(p) : k \notin At(p, {"noOwner"})
        \/ \E w \in 1..Len(p) : /\ w \in At(p, {"updateActions"})
                                /\ \A k \in (w + 1)..Len(p) : k \notin At(p, {"noOwner"})
    <3>1. CASE prefixes => prefixes2
      BY <1>2, <3>1
    <3>2. ASSUME NEW w \in 1..Len(p), Kind(p, w) = "updateActions"
          PROVE  /\ w \in At(p, {"updateActions"})
                 /\ \A k \in (w + 1)..Len(p) : k \notin At(p, {"noOwner"})
      <4>1. \A k \in (w + 1)..Len(p) : k \in 1..Len(p)
        BY <1>6
      <4> QED BY <1>2, <3>2, <4>1 DEF At
    <3> QED BY <3>1, <3>2
  <2> QED BY <1>0, <1>1, <2>1, <2>2, PrependChecked
<1> QED BY <1>3, <1>4, <1>5, <1>7, <1>8 DEF OnCourse

LEMMA QuietAt ==
  ASSUME NEW p, Quiet(p), NEW t \in Seq(Steps), NEW kinds, {"updateActions", "firstRows", "rows", "assign"} \cap kinds = {}
  PROVE  At(p \o t, kinds) = {} <=> At(t, kinds) = {}
<1>1. p \in Seq(Steps) /\ \A i \in 1..Len(p) : Kind(p, i) \notin kinds
  BY DEF Quiet
<1>2. /\ \A i \in 1..Len(p) : i \in At(p \o t, kinds) <=> Kind(p, i) \in kinds
      /\ \A k \in At(t, kinds) : Len(p) + k \in At(p \o t, kinds) /\ (p \o t)[Len(p) + k] = t[k]
      /\ \A i \in At(p \o t, kinds) :
           i \in 1..Len(p) \/ \E k \in At(t, kinds) : i = Len(p) + k
  BY <1>1, PrependAt
<1> QED BY <1>1, <1>2

LEMMA SetActionsStep ==
  ASSUME IInv, SetActions
  PROVE  IInv'
<1> DEFINE p == <<Do("updateActions")>>
<1>1. /\ todo' = p \o todo /\ actions' \in ActionMaps /\ MayCall("actions")
      /\ UNCHANGED <<name, menuPath, watch, owner, groups, tracker, rows>>
  BY DEF SetActions, First
<1>2. p \in Seq(Steps) /\ Len(p) = 1 /\ Kind(p, 1) = "updateActions"
  BY StepKinds, Single
<1> HIDE DEF p
<1>3. Quiet(p)
  <2>1. \A i \in 1..Len(p) : i = 1
    BY <1>2
  <2> QED BY <1>2, <2>1 DEF Quiet
<1>4. /\ TypeOK /\ OnCourse(todo, owner, rows = 0, MenuNow, PrefixesNow)
      /\ AssignOK /\ RowsNow /\ OwnerDue /\ WatchNamed
  BY DEF IInv, OnCourse
<1>5. Kind(todo, 1) # "newTracker" /\ todo \in Seq(Steps)
  BY <1>1, <1>4, CalledFrom
<1>6. /\ (MenuNow => MenuNow') \/ \E w \in 1..Len(p) : w = Len(p) /\ Kind(p, w) = "assign"
      /\ (PrefixesNow => PrefixesNow') \/ \E w \in 1..Len(p) : Kind(p, w) = "updateActions"
      /\ (rows = 0 => rows' = 0) /\ 1 \in 1..Len(p)
  BY <1>1, <1>2 DEF MenuNow
<1>7. p \o todo \in Seq(Steps) /\ OnCourse(p \o todo, owner, rows' = 0, MenuNow', PrefixesNow')
  BY <1>3, <1>4, <1>5, <1>6, QuietInFront
<1>8. TypeOK' /\ WatchNamed'
  BY <1>1, <1>4, <1>7 DEF TypeOK, WatchNamed
<1>9. OwnerDue'
  <2>1. At(todo', {"watch"}) = {} <=> At(todo, {"watch"}) = {}
    BY <1>1, <1>3, <1>5, QuietAt
  <2>2. At(todo', {"noOwner"}) = {} <=> At(todo, {"noOwner"}) = {}
    BY <1>1, <1>3, <1>5, QuietAt
  <2> QED BY <1>1, <1>4, <2>1, <2>2 DEF OwnerDue, OwnerNow
<1>10. FreedFirst'
  BY <1>1, <1>2, <1>5, <1>6, KindPrepended DEF FreedFirst
<1>11. /\ \A k \in At(todo, {"assign"}) : 1 + k \in At(todo', {"assign"}) /\ todo'[1 + k] = todo[k]
       /\ \A i \in At(todo', {"assign"}) : \E k \in At(todo, {"assign"}) : i = 1 + k
  <2>1. /\ \A i \in 1..Len(p) : i \in At(p \o todo, {"assign"}) <=> Kind(p, i) \in {"assign"}
        /\ \A k \in At(todo, {"assign"}) :
             Len(p) + k \in At(p \o todo, {"assign"}) /\ (p \o todo)[Len(p) + k] = todo[k]
        /\ \A i \in At(p \o todo, {"assign"}) :
             i \in 1..Len(p) \/ \E k \in At(todo, {"assign"}) : i = Len(p) + k
    BY <1>2, <1>5, PrependAt
  <2>2. \A i \in 1..Len(p) : Kind(p, i) # "assign"
    <3>1. \A i \in 1..Len(p) : i = 1
      BY <1>2
    <3> QED BY <1>2, <3>1
  <2> QED BY <1>1, <1>2, <2>1, <2>2
<1>12. AssignOK'
  <2> SUFFICES ASSUME NEW i \in At(todo', {"assign"})
               PROVE  /\ owner' # NoOwner /\ todo'[i].tracker.owner = owner' /\ todo'[i].tracker.path = menuPath'
                      /\ rows' = todo'[i].tracker.items
                      /\ \A k \in 1..(i - 1) : Kind(todo', k) \in {"updateActions", "firstRows"}
    BY DEF AssignOK
  <2>1. PICK k \in At(todo, {"assign"}) : i = 1 + k /\ todo'[i] = todo[k]
    BY <1>11
  <2>2. /\ owner # NoOwner /\ todo[k].tracker.owner = owner /\ todo[k].tracker.path = menuPath
        /\ rows = todo[k].tracker.items
        /\ \A l \in 1..(k - 1) : Kind(todo, l) \in {"updateActions", "firstRows"}
    BY <1>4 DEF AssignOK
  <2>3. k \in Nat
    BY DEF At
  <2>4. ASSUME NEW l \in 1..(i - 1) PROVE Kind(todo', l) \in {"updateActions", "firstRows"}
    <3>1. CASE l = 1
      BY <1>1, <1>2, <1>5, <1>6, <3>1, KindPrepended
    <3>2. CASE l # 1
      <4>1. l - 1 \in 1..(k - 1) /\ l - 1 \in Nat \ {0} /\ 1 + (l - 1) = l
        BY <2>1, <2>3, <3>2
      <4> DEFINE h == l - 1
      <4>2. h \in Nat \ {0} /\ Len(p) + h = l /\ h \in 1..(k - 1)
        BY <1>2, <4>1
      <4> HIDE DEF h
      <4>3. Kind(p \o todo, Len(p) + h) = Kind(todo, h)
        BY <1>2, <1>5, <4>2, KindPrepended
      <4> QED BY <1>1, <2>2, <4>2, <4>3
    <3> QED BY <3>1, <3>2
  <2> QED BY <1>1, <2>1, <2>2, <2>4
<1>13. RowsNow'
  <2> SUFFICES ASSUME At(todo', {"clear", "freeTracker", "newTracker", "assign"}) = {}
               PROVE  rows' = (IF tracker' = None THEN 0 ELSE tracker'.items)
    BY DEF RowsNow
  <2>1. At(todo, {"clear", "freeTracker", "newTracker", "assign"}) = {}
    BY <1>1, <1>2, <1>5, PrependAt
  <2> QED BY <1>1, <1>4, <2>1 DEF RowsNow
<1> QED BY <1>1, <1>4, <1>7, <1>8, <1>9, <1>10, <1>12, <1>13 DEF IInv, OnCourse

\* Without steps there is nothing in the way.
LEMMA EmptyOnCourse ==
  ASSUME TypeOK, todo = <<>>, NEW o, NEW cleared, NEW menu, NEW prefixes, OnCourse(todo, owner, cleared, menu, prefixes)
  PROVE  OnCourse(todo, o, FALSE, menu, prefixes)
<1>1. /\ \A kinds : At(todo, kinds) = {}
      /\ Len(todo) = 0 /\ Kind(todo, 1) = "end" /\ Checked(todo) = {1}
  BY NothingPending
<1>2. Shape(todo) /\ NamedUnowned(todo, o) /\ RowsDue(todo, o, FALSE)
  <2>1. \A i \in 1..Len(todo) : FALSE
    BY <1>1
  <2>2. At(todo, {"menuReset", "freeTracker", "newTracker"}) = {}
    BY <1>1
  <2> QED BY <2>1, <2>2 DEF Shape, NamedUnowned, RowsDue
<1> QED BY <1>2 DEF OnCourse

LEMMA MenuItemsStep ==
  ASSUME IInv, NEW n \in 0..MaxItems, MenuItems(n)
  PROVE  IInv'
<1> DEFINE p == <<Signal("rows")>>
<1>1. /\ todo' = p \o todo /\ todo = <<>> /\ tracker # None
      /\ tracker' = [tracker EXCEPT !.items = n]
      /\ rows' = n + (IF rows < tracker.items THEN 0 ELSE rows - tracker.items)
      /\ UNCHANGED <<name, menuPath, actions, watch, owner, groups>>
  BY DEF MenuItems, First
<1>2. p \in Seq(Steps) /\ Len(p) = 1 /\ Kind(p, 1) = "rows"
  BY StepKinds, Single DEF Signals
<1> HIDE DEF p
<1>3. Quiet(p)
  <2>1. \A i \in 1..Len(p) : i = 1
    BY <1>2
  <2> QED BY <1>2, <2>1 DEF Quiet
<1>4. /\ TypeOK /\ OnCourse(todo, owner, rows = 0, MenuNow, PrefixesNow)
      /\ AssignOK /\ RowsNow /\ OwnerDue /\ WatchNamed
  BY DEF IInv
<1>5. /\ \A kinds : At(todo, kinds) = {}
      /\ Kind(todo, 1) = "end" /\ todo \in Seq(Steps) /\ 1 \in 1..Len(p)
  <2>1. \A kinds : At(todo, kinds) = {}
    BY <1>1, <1>4, NothingPending
  <2>2. Kind(todo, 1) = "end"
    BY <1>1, <1>4, NothingPending
  <2> QED BY <1>2, <1>4, <2>1, <2>2 DEF TypeOK
<1>6. tracker \in Tracker /\ tracker' \in Tracker /\ tracker'.items = n /\ None \notin Tracker
      /\ tracker'.owner = tracker.owner /\ tracker'.path = tracker.path /\ n \in Nat
  BY <1>1, <1>4, LifecycleAssumption DEF TypeOK, Tracker
<1>7. rows' = n
  <2>1. rows = tracker.items /\ rows \in Nat
    BY <1>1, <1>4, <1>5 DEF RowsNow, TypeOK
  <2> QED BY <1>1, <1>6, <2>1
<1>8. MenuNow => MenuNow'
  BY <1>1, <1>6 DEF MenuNow
<1>9. PrefixesNow => PrefixesNow'
  BY <1>1 DEF PrefixesNow
<1>10. OnCourse(todo, owner, FALSE, MenuNow, PrefixesNow)
  BY <1>1, <1>4, EmptyOnCourse
<1>11. p \o todo \in Seq(Steps) /\ OnCourse(p \o todo, owner, rows' = 0, MenuNow', PrefixesNow')
  BY <1>3, <1>5, <1>8, <1>9, <1>10, QuietInFront
<1>12. TypeOK' /\ WatchNamed'
  BY <1>1, <1>4, <1>6, <1>7, <1>11 DEF TypeOK, WatchNamed
<1>13. ASSUME NEW kinds, {"updateActions", "firstRows", "rows", "assign"} \cap kinds = {} PROVE At(todo', kinds) = {}
  BY <1>1, <1>3, <1>5, <1>13, QuietAt
<1>14. OwnerDue'
  <2>1. At(todo', {"noOwner"}) = {} /\ OwnerNow
    BY <1>4, <1>5, <1>13 DEF OwnerDue
  <2> QED BY <1>1, <2>1 DEF OwnerDue, OwnerNow
<1>15. FreedFirst'
  BY <1>1, <1>2, <1>5, KindPrepended DEF FreedFirst
<1>16. AssignOK'
  <2>1. At(todo', {"assign"}) = {}
    <3>1. /\ \A i \in 1..Len(p) : i \in At(p \o todo, {"assign"}) <=> Kind(p, i) \in {"assign"}
          /\ \A i \in At(p \o todo, {"assign"}) :
               i \in 1..Len(p) \/ \E k \in At(todo, {"assign"}) : i = Len(p) + k
      BY <1>2, <1>5, PrependAt
    <3>2. \A i \in 1..Len(p) : i = 1
      BY <1>2
    <3> QED BY <1>1, <1>2, <1>5, <3>1, <3>2
  <2> QED BY <2>1 DEF AssignOK
<1>17. RowsNow'
  BY <1>6, <1>7 DEF RowsNow
<1> QED BY <1>1, <1>11, <1>12, <1>14, <1>15, <1>16, <1>17 DEF IInv

LEMMA NameAppearedStep ==
  ASSUME IInv, NEW o \in Owners, NameAppeared(o)
  PROVE  IInv'
<1> DEFINE p == AppearedSteps
<1>1. /\ todo = <<>> /\ watch # None /\ watch' = [watch EXCEPT !.seen = o] /\ owner' = o
      /\ UNCHANGED <<name, menuPath, actions, groups, tracker, rows>>
  BY DEF NameAppeared
<1>2. /\ p \in Seq(Steps) /\ Len(p) = 7
      /\ Kind(p, 1) = "updateActions" /\ Kind(p, 2) = "aboutToReset" /\ Kind(p, 3) = "clear"
      /\ Kind(p, 4) = "menuReset" /\ Kind(p, 5) = "freeTracker" /\ Kind(p, 6) = "newTracker"
      /\ Kind(p, 7) = "owner"
  BY NameAppearedSteps
<1>3. todo' = p
  <2>1. todo' = p \o todo
    BY DEF NameAppeared, First, AppearedSteps
  <2> QED BY <1>1, <1>2, <2>1, ConcatEmptySeq
<1> HIDE DEF p
<1>4. /\ TypeOK /\ WatchNamed
  BY DEF IInv
<1>5. /\ \A i \in 1..Len(p) : i \in {1, 2, 3, 4, 5, 6, 7}
      /\ \A i \in {1, 2, 3, 4, 5, 6, 7} : i \in 1..Len(p)
  BY <1>2
<1>6. Kind(p, 8) = "end" /\ Checked(p) = {7, 8}
  <2>1. Kind(p, 8) = "end"
    BY <1>2 DEF Kind
  <2>2. \A i \in 1..8 : i \in {1, 2, 3, 4, 5, 6, 7, 8}
    OBVIOUS
  <2>3. Len(p) + 1 = 8 /\ 7 \in 1..8 /\ 8 \in 1..8
    BY <1>2
  <2> QED BY <1>2, <2>1, <2>2, <2>3 DEF Checked
<1>7. Shape(p)
  BY <1>2, <1>5 DEF Shape
<1>8. NamedUnowned(p, o)
  <2>1. \A i \in 1..Len(p) : Kind(p, i) = "owner" => i = 7
    BY <1>2, <1>5
  <2>2. Kind(p, 7 + 1) = "end"
    BY <1>6
  <2> QED BY <1>2, <1>5, <2>1, <2>2 DEF NamedUnowned
<1>9. RowsDue(p, o, rows = 0)
  <2> SUFFICES ASSUME NEW i \in At(p, {"menuReset", "freeTracker", "newTracker"})
               PROVE  Due(rows = 0, At(p, {"clear"}), Adds(p, o), i)
    BY DEF RowsDue
  <2>1. i \in {4, 5, 6}
    BY <1>2, <1>5 DEF At
  <2>2. 3 \in 0..(i - 1) /\ 3 # 0 /\ 3 \in At(p, {"clear"})
    BY <1>2, <1>5, <2>1 DEF At
  <2>3. \A k \in (3 + 1)..(i - 1) : k \in {4, 5}
    BY <2>1
  <2>4. \A k \in (3 + 1)..(i - 1) : k \notin Adds(p, o)
    BY <1>2, <2>3 DEF Adds, At
  <2> QED BY <2>2, <2>4 DEF Due
<1>10. ASSUME NEW i \in {7, 8}
       PROVE  /\ Due(MenuNow', At(p, {"newTracker", "assign"}), At(p, {"noOwner", "freeTracker"}), i)
              /\ Due(PrefixesNow', At(p, {"updateActions"}), At(p, {"noOwner"}), i)
  <2>1. 6 \in 0..(i - 1) /\ 6 # 0 /\ 6 \in At(p, {"newTracker", "assign"})
    BY <1>2, <1>5 DEF At
  <2>2. 1 \in 0..(i - 1) /\ 1 # 0 /\ 1 \in At(p, {"updateActions"})
    BY <1>2, <1>5 DEF At
  <2>3. \A k \in (6 + 1)..(i - 1) : k = 7
    OBVIOUS
  <2>4. \A k \in (6 + 1)..(i - 1) : k \notin At(p, {"noOwner", "freeTracker"})
    BY <1>2, <2>3 DEF At
  <2>5. \A k \in 1..Len(p) : k \notin At(p, {"noOwner"})
    BY <1>2, <1>5 DEF At
  <2>6. \A k \in (1 + 1)..(i - 1) : k \in 1..Len(p)
    BY <1>2
  <2> QED BY <2>1, <2>2, <2>4, <2>5, <2>6 DEF Due
<1>11. OnCourse(p, o, rows = 0, MenuNow', PrefixesNow')
  BY <1>6, <1>7, <1>8, <1>9, <1>10 DEF OnCourse, CheckedDue
<1>12. watch' \in Watch /\ watch'.name = watch.name /\ watch'.seen = o /\ None \notin Watch
       /\ o # None /\ o # NoOwner
  BY <1>1, <1>4, LifecycleAssumption DEF TypeOK, Watch
<1>13. TypeOK' /\ WatchNamed'
  BY <1>1, <1>2, <1>3, <1>4, <1>12 DEF TypeOK, WatchNamed
<1>14. FreedFirst' /\ AssignOK' /\ RowsNow'
  <2>1. At(p, {"assign"}) = {}
    BY <1>2, <1>5 DEF At
  <2>2. 3 \in At(p, {"clear", "freeTracker", "newTracker", "assign"})
    BY <1>2, <1>5 DEF At
  <2> QED BY <1>2, <1>3, <2>1, <2>2 DEF FreedFirst, AssignOK, RowsNow
<1>15. OwnerDue'
  <2>1. At(p, {"noOwner"}) = {}
    BY <1>2, <1>5 DEF At
  <2> QED BY <1>1, <1>3, <1>12, <2>1 DEF OwnerDue, OwnerNow
<1>16. owner' = o /\ (rows' = 0) = (rows = 0)
  BY <1>1
<1> QED BY <1>3, <1>11, <1>13, <1>14, <1>15, <1>16 DEF IInv

\* What gtk_menu_tracker_new leads to.
AssignsLast(q, a) ==
  /\ Quiet(q)
  /\ \E l \in 1..Len(q) : /\ l = Len(q) /\ Kind(q, l) = "assign" /\ q[l] = a
                          /\ \A i \in 1..Len(q) : i # l => Kind(q, i) = "firstRows"

LEMMA TrackerSteps ==
  ASSUME NEW a \in Steps, a.op = "assign", NEW r \in {<<>>, <<Signal("firstRows")>>}
  PROVE  AssignsLast(r \o <<a>>, a)
<1>1. Signal("firstRows") \in Steps /\ Signal("firstRows").op = "signal" /\ Signal("firstRows").signal = "firstRows"
  BY StepKinds DEF Signals
<1>2. CASE r = <<>>
  <2> DEFINE q == <<a>>
  <2>1. q \in Seq(Steps) /\ Len(q) = 1 /\ Kind(q, 1) = "assign" /\ q[1] = a
    BY Single
  <2>2. r \o <<a>> = q
    BY <1>2, <2>1, ConcatEmptySeq
  <2> HIDE DEF q
  <2>3. \A i \in 1..Len(q) : i = 1
    BY <2>1
  <2>4. 1 \in 1..Len(q)
    BY <2>1
  <2>5. Quiet(q)
    BY <2>1, <2>3 DEF Quiet
  <2> QED BY <2>1, <2>2, <2>3, <2>4, <2>5 DEF AssignsLast
<1>3. CASE r = <<Signal("firstRows")>>
  <2> DEFINE q == r \o <<a>>
  <2>1. q \in Seq(Steps) /\ Len(q) = 2 /\ Kind(q, 1) = "firstRows" /\ Kind(q, 2) = "assign" /\ q[2] = a
    <3> DEFINE s == <<Signal("firstRows")>>
               e == <<a>>
    <3>1. s \in Seq(Steps) /\ Len(s) = 1 /\ Kind(s, 1) = "firstRows"
      BY <1>1, Single
    <3>2. e \in Seq(Steps) /\ Len(e) = 1 /\ Kind(e, 1) = "assign" /\ e[1] = a
      BY Single
    <3>3. q = s \o e
      BY <1>3
    <3> HIDE DEF s, e
    <3>4. /\ s \o e \in Seq(Steps) /\ Len(s \o e) = Len(s) + Len(e)
          /\ \A i \in Nat : 0 < i /\ i <= Len(s) => Kind(s \o e, i) = Kind(s, i)
          /\ \A i \in Nat : Len(s) < i => Kind(s \o e, i) = Kind(e, i - Len(s))
          /\ \A i \in Nat : Len(s) < i /\ i <= Len(s) + Len(e) => (s \o e)[i] = e[i - Len(s)]
      BY <3>1, <3>2, Joined
    <3> HIDE DEF q
    <3> QED BY <3>1, <3>2, <3>3, <3>4
  <2> HIDE DEF q
  <2>3. \A i \in 1..Len(q) : i \in {1, 2}
    BY <2>1
  <2>4. 2 \in 1..Len(q)
    BY <2>1
  <2>5. Quiet(q)
    BY <2>1, <2>3 DEF Quiet
  <2> QED BY <2>1, <2>3, <2>4, <2>5 DEF q, AssignsLast
<1> QED BY <1>2, <1>3

LEMMA NewTrackerStep ==
  ASSUME IInv, NewTracker, owner # NoOwner
  PROVE  IInv'
<1>1. PICK n \in 0..MaxItems :
        /\ rows' = rows + n
        /\ todo' = (IF n = 0 THEN <<>> ELSE <<Signal("firstRows")>>)
                   \o <<[op |-> "assign", tracker |-> [owner |-> owner, path |-> menuPath, items |-> n]]>>
                   \o Tail(todo)
  BY DEF NewTracker
<1> DEFINE a == [op |-> "assign", tracker |-> [owner |-> owner, path |-> menuPath, items |-> n]]
           r == IF n = 0 THEN <<>> ELSE <<Signal("firstRows")>>
           q == r \o <<a>>
           t == Tail(todo)
<1>2. todo' = q \o t /\ r \in {<<>>, <<Signal("firstRows")>>}
  BY <1>1
<1>3. /\ TypeOK /\ OnCourse(todo, owner, rows = 0, MenuNow, PrefixesNow)
      /\ AssignOK /\ RowsNow /\ OwnerDue /\ WatchNamed
  BY DEF IInv
<1>4. todo # <<>> /\ Head(todo).op = "newTracker"
      /\ UNCHANGED <<name, menuPath, actions, watch, owner, groups, tracker>>
  BY DEF NewTracker, Step
<1>5. /\ todo \in Seq(Steps) /\ t \in Seq(Steps) /\ 1 \in 1..Len(todo) /\ Kind(todo, 1) = "newTracker"
  BY <1>3, <1>4, FirstStep
<1>6. /\ a \in Steps /\ a.op = "assign"
      /\ a.tracker.owner = owner /\ a.tracker.path = menuPath /\ a.tracker.items = n
  <2>1. [owner |-> owner, path |-> menuPath, items |-> n] \in Tracker
    BY <1>3 DEF TypeOK, Tracker
  <2> QED BY <2>1 DEF Steps
<1>7. rows = 0 /\ rows' = n /\ n \in Nat
  <2>1. rows = 0
    BY <1>3, <1>4, <1>5, NewTrackerHasNoRows DEF OnCourse
  <2>2. n \in Nat
    BY LifecycleAssumption
  <2> QED BY <1>1, <2>1, <2>2
<1> HIDE DEF a, r
<1>8. /\ Quiet(q)
      /\ \E l \in 1..Len(q) :
           /\ l = Len(q) /\ Kind(q, l) = "assign" /\ q[l] = a
           /\ \A i \in 1..Len(q) : i # l => Kind(q, i) = "firstRows"
  <2>1. AssignsLast(r \o <<a>>, a)
    BY <1>2, <1>6, TrackerSteps
  <2> QED BY <2>1 DEF AssignsLast
<1> HIDE DEF q
<1>9. q \in Seq(Steps)
  BY <1>8 DEF Quiet
<1>10. PICK l \in 1..Len(q) :
         /\ l = Len(q) /\ Kind(q, l) = "assign" /\ q[l] = a
         /\ \A i \in 1..Len(q) : i # l => Kind(q, i) = "firstRows"
  BY <1>8
<1>11. OnCourse(t, owner, FALSE, TRUE, PrefixesNow)
  <2>1. /\ Shape(todo) /\ NamedUnowned(todo, owner) /\ RowsDue(todo, owner, rows = 0)
        /\ CheckedDue(todo, MenuNow, {"newTracker", "assign"}, {"noOwner", "freeTracker"})
        /\ CheckedDue(todo, PrefixesNow, {"updateActions"}, {"noOwner"})
    BY <1>3 DEF OnCourse
  <2>2. Shape(t)
    BY <1>4, <1>5, <2>1, TailShape
  <2>3. owner = IF Kind(todo, 1) = "noOwner" THEN NoOwner ELSE owner
    BY <1>5
  <2>4. NamedUnowned(t, owner)
    BY <1>4, <1>5, <2>1, <2>3, TailNamed
  <2>5. RowsDue(t, owner, FALSE)
    <3>1. 1 \in Adds(todo, owner)
      BY <1>5 DEF Adds, At, Unowned
    <3>2. RowsDue(Tail(todo), IF Kind(todo, 1) = "noOwner" THEN NoOwner ELSE owner, FALSE)
      BY <1>4, <1>5, <2>1, <3>1, TailRows
    <3> QED BY <1>5, <3>2
  <2>6. CheckedDue(t, TRUE, {"newTracker", "assign"}, {"noOwner", "freeTracker"})
    BY <1>4, <1>5, <2>1, TailChecked
  <2>7. CheckedDue(t, PrefixesNow, {"updateActions"}, {"noOwner"})
    BY <1>4, <1>5, <2>1, TailChecked
  <2> QED BY <2>2, <2>4, <2>5, <2>6, <2>7 DEF OnCourse
<1>12. Kind(t, 1) # "newTracker"
  <2> SUFFICES ASSUME Kind(t, 1) = "newTracker" PROVE FALSE
    OBVIOUS
  <2>1. Kind(todo, 1 + 1) = "newTracker"
    BY <1>4, <1>5, KindTail
  <2>2. 2 \in 1..Len(todo) /\ Kind(todo, 2) = "newTracker"
    BY <1>5, <2>1, KindEnd
  <2>3. Kind(todo, 2 - 1) = "freeTracker"
    BY <1>3, <2>2 DEF OnCourse, Shape
  <2> QED BY <1>5, <2>3
<1>13. PrefixesNow => PrefixesNow'
  BY <1>4 DEF PrefixesNow
<1>14. q \o t \in Seq(Steps) /\ OnCourse(q \o t, owner, rows' = 0, MenuNow', PrefixesNow')
  BY <1>5, <1>8, <1>11, <1>12, <1>13, QuietInFront
<1>15. TypeOK' /\ WatchNamed'
  BY <1>2, <1>3, <1>4, <1>7, <1>14 DEF TypeOK, WatchNamed
<1>16. ASSUME NEW kinds, {"updateActions", "firstRows", "rows", "assign", "newTracker"} \cap kinds = {}
       PROVE  At(todo', kinds) = {} <=> At(todo, kinds) = {}
  <2>1. At(q \o t, kinds) = {} <=> At(t, kinds) = {}
    BY <1>5, <1>8, <1>16, QuietAt
  <2>2. At(t, kinds) = {} <=> At(todo, kinds) = {}
    BY <1>4, <1>5, <1>16, TailAt
  <2> QED BY <1>2, <2>1, <2>2
<1>17. OwnerDue'
  <2>1. At(todo', {"watch"}) = {} <=> At(todo, {"watch"}) = {}
    BY <1>16
  <2>2. At(todo', {"noOwner"}) = {} <=> At(todo, {"noOwner"}) = {}
    BY <1>16
  <2> QED BY <1>3, <1>4, <2>1, <2>2 DEF OwnerDue, OwnerNow
<1>18. /\ Len(q) \in Nat \ {0} /\ 1 \in 1..Len(q)
       /\ \A i \in 1..Len(q) : Kind(q \o t, i) = Kind(q, i) /\ (q \o t)[i] = q[i]
  <2>1. Len(q) \in Nat /\ \A i \in 1..Len(q) : Kind(q \o t, i) = Kind(q, i) /\ (q \o t)[i] = q[i]
    BY <1>5, <1>9, KindPrepended
  <2>2. Len(q) \in Nat \ {0} /\ 1 \in 1..Len(q)
    BY <1>10, <2>1
  <2> QED BY <2>1, <2>2
<1>19. FreedFirst'
  BY <1>2, <1>10, <1>18 DEF FreedFirst
<1>20. At(t, {"assign"}) = {}
  <2> SUFFICES ASSUME NEW i \in At(t, {"assign"}) PROVE FALSE
    OBVIOUS
  <2>1. i + 1 \in At(todo, {"assign"}) /\ i \in Nat \ {0}
    BY <1>4, <1>5, TailAt
  <2>2. 1 \in 1..((i + 1) - 1)
    BY <2>1
  <2>3. Kind(todo, 1) \in {"updateActions", "firstRows"}
    BY <1>3, <2>1, <2>2 DEF AssignOK
  <2> QED BY <1>5, <2>3
<1>21. \A i \in At(todo', {"assign"}) : i = l
  <2>1. /\ \A i \in 1..Len(q) : i \in At(q \o t, {"assign"}) <=> Kind(q, i) \in {"assign"}
        /\ \A i \in At(q \o t, {"assign"}) :
             i \in 1..Len(q) \/ \E k \in At(t, {"assign"}) : i = Len(q) + k
    BY <1>5, <1>9, PrependAt
  <2> QED BY <1>2, <1>10, <1>20, <2>1
<1>22. AssignOK'
  <2>1. todo'[l] = a /\ \A k \in 1..(l - 1) : k \in 1..Len(q) /\ k # l
    BY <1>2, <1>10, <1>18
  <2>2. \A k \in 1..(l - 1) : Kind(todo', k) = "firstRows"
    BY <1>2, <1>10, <1>18, <2>1
  <2> QED BY <1>4, <1>6, <1>7, <1>21, <2>1, <2>2 DEF AssignOK
<1>23. RowsNow'
  <2>1. l \in At(q \o t, {"clear", "freeTracker", "newTracker", "assign"})
    <3>1. \A i \in 1..Len(q) : i \in At(q \o t, {"clear", "freeTracker", "newTracker", "assign"}) <=>
            Kind(q, i) \in {"clear", "freeTracker", "newTracker", "assign"}
      BY <1>5, <1>9, PrependAt
    <3> QED BY <1>10, <3>1
  <2> QED BY <1>2, <2>1 DEF RowsNow
<1>24. owner' = owner
  BY <1>4
<1> QED BY <1>2, <1>14, <1>15, <1>17, <1>19, <1>22, <1>23, <1>24 DEF IInv

-----------------------------------------------------------------------------
(* The invariant, and what it implies.                                     *)

LEMMA InitIInv == Init => IInv
<1> SUFFICES ASSUME Init PROVE IInv
  OBVIOUS
<1>1. /\ name = NoName /\ menuPath = NoPath /\ actions = [p \in Prefixes |-> NoPath]
      /\ watch = None /\ owner = NoOwner
      /\ groups = [p \in Prefixes |-> None]
      /\ tracker = None /\ rows = 0 /\ todo = <<>>
  BY DEF Init
<1>2. TypeOK
  BY <1>1, LifecycleAssumption, EmptySeq DEF TypeOK
<1>3. /\ \A kinds : At(todo, kinds) = {}
  BY <1>1, <1>2, NothingPending
<1>4. Len(todo) = 0 /\ Kind(todo, 1) = "end" /\ Checked(todo) = {1}
  BY <1>1, <1>2, NothingPending
<1>5. MenuNow /\ PrefixesNow
  BY <1>1 DEF MenuNow, PrefixesNow
<1>6. ASSUME NEW now, now, NEW writers, NEW breakers PROVE CheckedDue(todo, now, writers, breakers)
  <2>1. Due(now, At(todo, writers), At(todo, breakers), 1)
    <3>1. 0 \in 0..(1 - 1) /\ \A k \in (0 + 1)..(1 - 1) : FALSE
      OBVIOUS
    <3> QED BY <1>6, <3>1 DEF Due
  <2> QED BY <1>4, <2>1 DEF CheckedDue
<1>7. CheckedDue(todo, MenuNow, {"newTracker", "assign"}, {"noOwner", "freeTracker"})
  BY <1>5, <1>6
<1>8. CheckedDue(todo, PrefixesNow, {"updateActions"}, {"noOwner"})
  BY <1>5, <1>6
<1>9. Shape(todo) /\ NamedUnowned(todo, owner) /\ RowsDue(todo, owner, rows = 0)
  <2>1. \A i \in 1..Len(todo) : FALSE
    BY <1>4
  <2>2. At(todo, {"menuReset", "freeTracker", "newTracker"}) = {}
    BY <1>3
  <2> QED BY <2>1, <2>2 DEF Shape, NamedUnowned, RowsDue
<1>10. At(todo, {"assign"}) = {} /\ At(todo, {"watch"}) = {} /\ At(todo, {"noOwner"}) = {}
  BY <1>3
<1>11. FreedFirst /\ AssignOK /\ RowsNow /\ OwnerDue /\ WatchNamed
  BY <1>1, <1>10 DEF FreedFirst, AssignOK, RowsNow, OwnerDue, OwnerNow, WatchNamed
<1> QED BY <1>2, <1>7, <1>8, <1>9, <1>11 DEF IInv, OnCourse

LEMMA NextIInv == Tame /\ IInv /\ [Next]_vars => IInv'
<1> SUFFICES ASSUME Tame, IInv, [Next]_vars PROVE IInv'
  OBVIOUS
<1>1. TypeOK
  BY DEF IInv
<1>2. CASE SetBusName
  BY <1>2, SetBusNameStep
<1>3. CASE SetActions
  BY <1>3, SetActionsStep
<1>4. CASE SetMenuObjectPath
  BY <1>4, SetMenuObjectPathStep
<1>5. ASSUME NEW o \in Owners, NameAppeared(o) PROVE IInv'
  BY <1>5, NameAppearedStep
<1>6. CASE NameVanished
  BY <1>6, NameVanishedStep
<1>7. ASSUME NEW n \in 0..MaxItems, MenuItems(n) PROVE IInv'
  BY <1>7, MenuItemsStep
<1>8. CASE NewTracker /\ owner # NoOwner
  BY <1>8, NewTrackerStep
<1>9. CASE \/ EndSignal \/ Clear \/ ForgetOwner \/ UpdateActions \/ FreeTracker
           \/ NewTracker /\ owner = NoOwner
           \/ AssignTracker \/ WatchName
  BY <1>1, <1>9, StepsPop, PopInvariant
<1>10. CASE UNCHANGED vars
  BY <1>10 DEF vars, IInv, TypeOK, FreedFirst, AssignOK, RowsNow, OwnerDue, OwnerNow, WatchNamed,
               MenuNow, PrefixesNow
<1> QED BY <1>2, <1>3, <1>4, <1>5, <1>6, <1>7, <1>8, <1>9, <1>10 DEF Next

LEMMA Invariance == ASSUME Tame PROVE Spec => []IInv
<1>1. Tame
  OBVIOUS
<1>2. IInv /\ [Next]_vars => IInv'
  BY <1>1, NextIInv
<1> QED BY <1>2, InitIInv, PTL DEF Spec

\* The type invariant: a pending tracker is one of the model's, and so is each
\* group that updateActions puts into the muxer.
THEOREM LifecycleTypes == ASSUME Tame PROVE Spec => []TypeOK
<1>1. IInv => TypeOK
  BY DEF IInv
<1> QED BY <1>1, Invariance, PTL

\* What is due where the application is told, holds there.
LEMMA ToldNow ==
  ASSUME IInv, Told
  PROVE  MenuNow /\ PrefixesNow
<1>1. TypeOK /\ OnCourse(todo, owner, rows = 0, MenuNow, PrefixesNow)
  BY DEF IInv
<1>2. 1 \in Checked(todo)
  <2>1. CASE todo = <<>>
    BY <1>1, <2>1, NothingPending
  <2>2. CASE todo # <<>>
    <3>1. /\ 1 \in 1..Len(todo) /\ Head(todo) = todo[1]
          /\ Kind(todo, 1) = IF todo[1].op = "signal" THEN todo[1].signal ELSE todo[1].op
      BY <1>1, <2>2, FirstStep
    <3>2. todo[1] = Signal("owner")
      BY <2>2, <3>1 DEF Told, Returned
    <3>3. Kind(todo, 1) = "owner"
      BY <3>1, <3>2, StepKinds DEF Signals
    <3>4. Len(todo) \in Nat
      BY <1>1, LenProperties DEF TypeOK
    <3>5. 1 \in 1..(Len(todo) + 1)
      BY <3>4
    <3> QED BY <3>3, <3>5 DEF Checked
  <2> QED BY <2>1, <2>2
<1>3. ASSUME NEW now, NEW writers, NEW breakers, CheckedDue(todo, now, writers, breakers) PROVE now
  <2>1. Due(now, At(todo, writers), At(todo, breakers), 1)
    BY <1>2, <1>3 DEF CheckedDue
  <2>2. \A j \in 0..(1 - 1) : j = 0
    OBVIOUS
  <2> QED BY <2>1, <2>2 DEF Due
<1> QED BY <1>1, <1>3 DEF OnCourse

\* When everything has returned, the rows are those of the tracker that the
\* model holds, whatever the handlers have set meanwhile and whoever owns the
\* name by then, if they are Tame: no path from the second reset, no name or path
\* from the rows' own signals (clearItems, updateMenuModel).
THEOREM RowsOfTheTracker == ASSUME Tame PROVE Spec => []RowsTracked
<1>1. IInv => RowsTracked
  <2> SUFFICES ASSUME IInv, Returned PROVE rows = (IF tracker = None THEN 0 ELSE tracker.items)
    BY DEF RowsTracked
  <2>1. At(todo, {"clear", "freeTracker", "newTracker", "assign"}) = {}
    BY NothingPending DEF IInv, Returned
  <2> QED BY <2>1 DEF IInv, RowsNow
<1> QED BY <1>1, Invariance, PTL

\* When nameOwnerChanged is emitted, and when everything has returned, the menu
\* is that of the present owner at the path set last, if the handlers are Tame: a
\* name or path set from the first rows would leave the tracker made before it.
THEOREM MenuOfTheOwner == ASSUME Tame PROVE Spec => []MenuCurrent
<1>1. IInv => MenuCurrent
  BY ToldNow DEF MenuCurrent, MenuNow
<1> QED BY <1>1, Invariance, PTL

\* Likewise each prefix of the table leads to the present owner's group, if the
\* handlers are Tame.
THEOREM PrefixesOfTheOwner == ASSUME Tame PROVE Spec => []PrefixesCurrent
<1>1. IInv => PrefixesCurrent
  BY ToldNow DEF PrefixesCurrent, PrefixesNow
<1> QED BY <1>1, Invariance, PTL

\* When everything has returned the model watches the name set last, and its
\* owner is the one that this watch reported last, if the handlers are Tame.
THEOREM OwnerOfTheName == ASSUME Tame PROVE Spec => []OwnerWatched
<1>1. IInv => OwnerWatched
  <2> SUFFICES ASSUME IInv, Returned PROVE OwnerNow /\ WatchNamed
    BY DEF OwnerWatched, OwnerNow, WatchNamed
  <2>1. At(todo, {"watch"}) = {}
    BY NothingPending DEF IInv, Returned
  <2>2. At(todo, {"noOwner"}) = {}
    BY NothingPending DEF IInv, Returned
  <2> QED BY <2>1, <2>2 DEF IInv, OwnerDue
<1> QED BY <1>1, Invariance, PTL
=============================================================================
