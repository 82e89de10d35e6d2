-------------------------- MODULE MCActionRequests --------------------------
(***************************************************************************)
(* One action that may have states of any of many types, and a switch; two *)
(* services at one path.                                                   *)
(***************************************************************************)
EXTENDS ActionRequests, VariantConversion

CONSTANTS any, switch, s1, s2, path

TypeOf(v) == IF v = Null THEN "invalid" ELSE v.type

G(c, n) == Basic(<<c>>, n)
Tuple(parts) == Value(<<"(">> \o [k \in DOMAIN parts |-> parts[k].type], 0, parts)
List(t, parts) == Value(Array(t), 0, parts)
ByteArray(codes) == List(<<"y">>, [k \in DOMAIN codes |-> G("y", codes[k])])
Entry(key, g) == Value(VarDict[2], 0, <<G("s", key), Value(<<"v">>, 0, <<g>>)>>)

\* States that a schema returns, and some that come back as something else,
\* with it or without: an empty array, a variant or a dictionary with an array
\* inside, a dictionary whose keys are in no order, bytes that are no C string.
GStates == {
  Null,
  G("b", 1), G("y", 255), G("n", -300), G("q", 65000), G("i", 70000), G("i", -1),
  G("s", Word), G("s", 7),
  Value(<<"v">>, 0, <<G("i", 5)>>), G("o", Word),
  List(<<"s">>, <<>>), List(<<"s">>, <<G("s", Word), G("s", 7)>>),
  ByteArray(<<65, 0>>), List(Bytes, <<ByteArray(<<65, 0>>), ByteArray(<<0>>)>>),
  List(<<"i">>, <<G("i", 1), G("i", 2)>>),
  List(<<"(", <<"s">>, <<"y">>>>, <<Tuple(<<G("s", Word), G("y", 3)>>)>>),
  Tuple(<<G("i", 1), G("s", 7)>>), Tuple(<<G("b", 0), Tuple(<<G("n", 2)>>)>>),
  List(<<"v">>, <<Value(<<"v">>, 0, <<G("i", 5)>>)>>),
  List(VarDict[2], <<Entry(1, G("i", 5)), Entry(2, List(<<"s">>, <<G("s", Word)>>))>>),
  Tuple(<<>>), Tuple(<<List(<<"i">>, <<G("i", 1)>>)>>),
  List(<<"i">>, <<>>), List(Array(<<"i">>), <<List(<<"i">>, <<>>)>>),
  List(<<"v">>, <<Value(<<"v">>, 0, <<List(<<"i">>, <<G("i", 1)>>)>>)>>),
  List(VarDict[2], <<Entry(1, List(<<"i">>, <<G("i", 1)>>))>>),
  List(VarDict[2], <<Entry(2, G("i", 5)), Entry(1, G("i", 6))>>),
  ByteArray(<<65>>), ByteArray(<<65, 0, 66, 0>>), List(Bytes, <<ByteArray(<<65>>)>>)}

MCExports == [n \in {any, switch} |-> IF n = switch THEN {G("b", 0), G("b", 1)} ELSE GStates]

S(n) == Basic("string", n)
MCInputs == {
  Null, Basic("bool", 1), Basic("uchar", 55), Basic("short", -2), Basic("int", 0), Basic("int", 300),
  Basic("int", -70000), S(Word), S(EmptyText), S(300), S(-1), S(FalseText),
  Value("strings", 0, <<>>), Value("strings", 0, <<S(Word)>>), Value("strings", 0, <<S(1), S(2)>>),
  Value("list", 0, <<>>), Value("list", 0, <<Basic("int", 1), S(7)>>),
  Value("list", 0, <<S(Word), Basic("int", 1), Basic("bool", 1)>>),
  Value("list", 0, <<Value("list", 0, <<S(1), S(2)>>)>>),
  Value("list", 0, <<Basic("bool", 1), Value("list", 0, <<Basic("int", 5)>>)>>),
  Value("map", 0, <<>>), Value("map", 0, <<Value("entry", 1, <<Basic("int", 5)>>)>>)}

\* The types that a Qt type settles: neither tuples nor arrays that are lists
\* in Qt, nor a variant, which has the type of what is in it.
MCSettled(t) == t \in BasicTypes \cup {Strings, Bytes, BytesArray, VarDict}

\* Bytes that end with NUL and have no other.
CString(g) == g.parts # <<>> /\ \A k \in DOMAIN g.parts : g.parts[k].num = 0 <=> k = Len(g.parts)

SortedByKey(entries) ==
  \A k, l \in DOMAIN entries : k < l => entries[k].parts[1].num < entries[l].parts[1].num

\* Without a schema, tuples, dictionaries and what they consist of come back, but
\* no variant elsewhere and no array that is a list in Qt.
RECURSIVE MCEchoed(_)
MCEchoed(g) ==
  \/ g.type \in BasicTypes \cup {Strings}
  \/ g.type = Bytes /\ CString(g)
  \/ g.type = BytesArray /\ \A k \in DOMAIN g.parts : CString(g.parts[k])
  \/ /\ g.type = VarDict /\ SortedByKey(g.parts)
     /\ \A k \in DOMAIN g.parts : MCEchoed(g.parts[k].parts[2].parts[1])
  \/ IsTuple(g.type) /\ \A k \in DOMAIN g.parts : MCEchoed(g.parts[k])

\* With one, so do arrays that are not empty and variants, but inside a variant
\* or a dictionary there is none.
RECURSIVE MCReturned(_)
MCReturned(g) ==
  \/ MCEchoed(g)
  \/ g.type = <<"v">> /\ MCEchoed(g.parts[1])
  \/ /\ IsTuple(g.type) \/ (IsArray(g.type) /\ g.parts # <<>>)
     /\ g.type \notin {Bytes, BytesArray, VarDict}
     /\ \A k \in DOMAIN g.parts : MCReturned(g.parts[k])

\* What can be made into a type: numbers and texts into each other, anything
\* into a variant, a list into an array of what its parts can be made into, but
\* for the empty list, of which no array is made, and into a tuple with at most as
\* many members.
RECURSIVE MCFits(_, _)
MCFits(q, t) ==
  /\ q # Null
  /\ \/ t \in BasicTypes /\ q.type \in Numbers \cup {"string"}
     \/ t = <<"v">>
     \/ t = VarDict /\ q.type = "map"
     \/ t = Strings /\ q.type = "strings"
     \/ /\ IsArray(t) /\ t # VarDict /\ q.type \in {"list", "strings"} /\ q.parts # <<>>
        /\ \A k \in DOMAIN q.parts : MCFits(q.parts[k], t[2])
     \/ /\ IsTuple(t) /\ q.type \in {"list", "strings"} /\ Len(q.parts) >= Len(t) - 1
        /\ \A k \in 2..Len(t) : MCFits(q.parts[k - 1], t[k])

\* Any call from any handler, but those that disconnect inside serviceAppear and
\* those that start inside a setter.
TameReentry == [
  appear |-> {"start"}, vanish |-> {"start", "stop", "set"},
  stop |-> {"start", "stop", "set"}, set |-> {"stop", "set"}]
=============================================================================
