-------------------------- MODULE VariantConversion --------------------------
(***************************************************************************)
(* Converter (converter.cpp): GVariants to QVariants and back, with and    *)
(* without the type that is wanted (a schema).                             *)
(*                                                                         *)
(* Both kinds of value are a type, a number and parts.  A GVariantType is  *)
(* <<"i">>, an array's <<"a", its element>>, a tuple's <<"(", its members>> *)
(* and a dictionary entry's <<"{", its key, its value>>; a Qt type is its  *)
(* name.  The number of a text stands for what it says: the text of that   *)
(* number, or one of Words.  The 32 and 64 bit integers behave alike here, *)
(* and so does the double but for its fraction: "i" stands for them all.   *)
(*                                                                         *)
(* Left out: QVariants with an invalid one inside, such as those of object *)
(* paths or dictionaries other than a{sv}: GLib does not define what comes *)
(* of adding no value to a builder.  And Qt's conversions of bytes to and  *)
(* from other types.                                                       *)
(***************************************************************************)
EXTENDS Integers, SequencesExt

CONSTANT Null \* a NULL GVariant, an invalid QVariant

Value(type, num, parts) == [type |-> type, num |-> num, parts |-> parts]
Basic(type, num) == Value(type, num, <<>>)

Array(t) == <<"a", t>>
Strings == Array(<<"s">>)
Bytes == Array(<<"y">>)
BytesArray == Array(Bytes)
VarDict == Array(<<"{", <<"s">>, <<"v">>>>)

IsArray(t) == t[1] = "a"
IsTuple(t) == t[1] = "("

\* The basic types and the Qt types they have.
QtOf == [b |-> "bool", y |-> "uchar", n |-> "short", q |-> "ushort", i |-> "int", s |-> "string"]
BasicTypes == {<<c>> : c \in DOMAIN QtOf}
GOf(qt) == CHOOSE c \in DOMAIN QtOf : QtOf[c] = qt

\* Texts that are no numbers.
NullText == 100000  EmptyText == 100001  FalseText == 100002  TrueText == 100003  Word == 100004
Words == NullText..Word

Bits == [bool |-> 1, uchar |-> 8, short |-> 16, ushort |-> 16]
Numbers == {"bool", "uchar", "short", "ushort", "int"}

\* C's conversion of a number to a narrower type.
Wrapped(n, t) ==
  CASE t = "bool" -> IF n = 0 THEN 0 ELSE 1
    [] t \in {"uchar", "ushort"} -> n % 2^Bits[t]
    [] t = "short" -> ((n + 2^15) % 2^16) - 2^15
    [] t = "int" -> n

-----------------------------------------------------------------------------
(* What Qt does: QVariant::canConvert, convert and qvariant_cast.          *)

CanConvert(q, t) ==
  /\ q # Null
  /\ \/ q.type = t
     \/ {q.type, t} \subseteq Numbers \cup {"string"}
     \/ q.type = "string" /\ t = "strings"
     \/ q.type = "strings" /\ t = "string" /\ Len(q.parts) = 1
     \/ {q.type, t} = {"strings", "list"}

TextOf(q) ==
  CASE q.type = "string" -> q.num
    [] q.type = "bool"   -> IF q.num = 0 THEN FalseText ELSE TrueText
    \* A byte is taken for a Latin-1 character, of which some are digits.
    [] q.type = "uchar"  -> IF q.num \in 48..57 THEN q.num - 48 ELSE Word
    [] q.type \in Numbers \ {"bool", "uchar"} -> q.num
    [] OTHER -> NullText

\* The number of a text, if it is one of the type's sign.
Parsed(n, t) ==
  CASE t = "bool" -> Basic(t, IF n \in {0, FalseText, EmptyText, NullText} THEN 0 ELSE 1)
    [] n \in Words \/ (t \in {"uchar", "ushort"} /\ n < 0) -> Null
    [] OTHER -> Basic(t, Wrapped(n, t))

\* convert: the converted value, or Null where it returns false.
QConvert(q, t) ==
  IF ~CanConvert(q, t) THEN Null
  ELSE CASE q.type = t -> q
         [] t \in Numbers /\ q.type = "string" -> Parsed(q.num, t)
         [] t \in Numbers /\ q.type # "string" -> Basic(t, Wrapped(q.num, t))
         [] t = "string" /\ q.type = "strings" -> q.parts[1]
         [] t = "string" /\ q.type # "strings" -> Basic(t, TextOf(q))
         [] t = "strings" /\ q.type = "string" -> Value(t, 0, <<q>>)
         [] t = "strings" /\ q.type = "list"   ->
              Value(t, 0, [k \in DOMAIN q.parts |-> Basic("string", TextOf(q.parts[k]))])
         [] t = "list" -> Value(t, 0, q.parts)

\* qvariant_cast: a value that cannot be converted is the type's default.
NumberAs(q, t) == IF QConvert(q, t) = Null THEN 0 ELSE QConvert(q, t).num

-----------------------------------------------------------------------------

UpToNul(bytes) ==
  LET nuls == {k \in DOMAIN bytes : bytes[k].num = 0} IN
  IF nuls = {} THEN bytes ELSE SubSeq(bytes, 1, (CHOOSE k \in nuls : \A l \in nuls : k <= l) - 1)

\* g_variant_get_bytestring: an array that does not end with NUL is empty.
Bytestring(parts) ==
  IF parts = <<>> \/ Last(parts).num # 0 THEN <<>> ELSE UpToNul(parts)

QByteArray(parts) ==
  Value("bytes", 0, [k \in DOMAIN Bytestring(parts) |-> Basic("uchar", parts[k].num)])

\* A QMap: its entries, in the order of their keys; of two with one key, the
\* last that is inserted.
QMapOf(entries) ==
  LET keys == {entries[k].num : k \in DOMAIN entries}
      ofKey(key) == entries[CHOOSE k \in DOMAIN entries :
                              /\ entries[k].num = key
                              /\ \A l \in DOMAIN entries : l > k => entries[l].num # key]
  IN  Value("map", 0, [k \in DOMAIN SetToSortSeq(keys, <) |-> ofKey(SetToSortSeq(keys, <)[k])])

RECURSIVE toQVariant(_)
toQVariant(g) ==
  IF g = Null THEN Null
  ELSE LET parts == [k \in DOMAIN g.parts |-> toQVariant(g.parts[k])] IN
    CASE g.type \in BasicTypes -> Basic(QtOf[g.type[1]], g.num)
      [] g.type = Strings      -> Value("strings", 0, parts)
      [] g.type = Bytes        -> QByteArray(g.parts)
      [] g.type = BytesArray   -> Value("byteslist", 0, parts)
      [] g.type = <<"v">>      -> parts[1]
      [] g.type = VarDict      ->
           QMapOf([k \in DOMAIN parts |-> Value("entry", g.parts[k].parts[1].num,
                                                <<toQVariant(g.parts[k].parts[2])>>)])
      [] g.type \notin {Strings, Bytes, BytesArray, VarDict} /\ (IsArray(g.type) \/ IsTuple(g.type)) ->
           Value("list", 0, parts)
      [] OTHER -> Null

-----------------------------------------------------------------------------

\* g_variant_new_bytestring: up to a NUL, and a NUL.
NewBytestring(q) ==
  LET bytes == Append(UpToNul(q.parts), Basic("uchar", 0)) IN
  Value(Bytes, 0, [k \in DOMAIN bytes |-> Basic(<<"y">>, bytes[k].num)])

NewTuple(parts) == Value(<<"(">> \o [k \in DOMAIN parts |-> parts[k].type], 0, parts)

RECURSIVE toGVariant(_)
toGVariant(q) ==
  IF q = Null \/ (q.type = "string" /\ q.num = NullText) THEN Null
  ELSE LET parts == [k \in DOMAIN q.parts |-> toGVariant(q.parts[k])] IN
    CASE q.type \in Range(QtOf) -> Basic(<<GOf(q.type)>>, q.num)
      [] q.type = "bytes"     -> NewBytestring(q)
      [] q.type = "strings"   -> Value(Strings, 0, parts)
      [] q.type = "byteslist" -> Value(BytesArray, 0, parts)
      [] q.type = "map"       -> Value(VarDict, 0, parts)
      [] q.type = "entry"     -> Value(VarDict[2], 0, <<Basic(<<"s">>, q.num), Value(<<"v">>, 0, parts)>>)
      [] q.type = "list"      -> NewTuple(parts)

\* Mutant: the builder is one of a tuple.
BuiltTuple(parts) == IF parts = <<>> THEN Null ELSE NewTuple(parts)

\* A GVariantBuilder of any array: its first part settles the type and parts of
\* another are not added.  Nothing comes of it without any.
BuiltArray(parts) ==
  IF parts = <<>> THEN Null
  ELSE Value(Array(parts[1].type), 0, SelectSeq(parts, LAMBDA p: p.type = parts[1].type))

AsList(q) == QConvert(q, "list").parts

\* A list is cut to the members that the tuple has.
SchemaMembers(q, schema) ==
  LET n == Len(schema) - 1 IN SubSeq(AsList(q), 1, IF Len(AsList(q)) < n THEN Len(AsList(q)) ELSE n)

\* The parts of what a tuple or an array schema makes of a list, or Null if one
\* of them cannot be made.
RECURSIVE toGVariantWithSchema(_, _)
SchemaParts(list, schemas) ==
  LET parts == [k \in DOMAIN list |-> toGVariantWithSchema(list[k], schemas[k])] IN
  IF Null \in Range(parts) THEN Null ELSE parts

\* What is made for the schema; Null where the code falls back.
MadeForSchema(q, schema) ==
  CASE schema \in BasicTypes \ {<<"s">>} ->
         LET t == QtOf[schema[1]] IN
         IF CanConvert(q, t) THEN Basic(schema, NumberAs(q, t)) ELSE Null
    [] schema = <<"s">> ->
         IF CanConvert(q, "string")
         THEN LET text == QConvert(q, "string").num IN
              Basic(schema, IF text = NullText THEN EmptyText ELSE text)
         ELSE Null
    [] schema = <<"v">> ->
         IF toGVariant(q) = Null THEN Null ELSE Value(schema, 0, <<toGVariant(q)>>)
    [] schema = VarDict ->
         IF CanConvert(q, "map") THEN toGVariant(q) ELSE Null
    [] schema # VarDict /\ IsArray(schema) ->
         IF ~CanConvert(q, "list") THEN Null
         ELSE LET parts == SchemaParts(AsList(q), [k \in DOMAIN AsList(q) |-> schema[2]]) IN
              IF parts = Null THEN Null ELSE BuiltArray(parts)
    [] IsTuple(schema) ->
         IF ~CanConvert(q, "list") THEN Null
         ELSE LET parts == SchemaParts(SchemaMembers(q, schema), Tail(schema)) IN
              IF parts = Null THEN Null ELSE NewTuple(parts)
    [] OTHER -> Null


\* Without a schema, and where it does not fit, the straight conversion.
toGVariantWithSchema(q, schema) ==
  IF schema = Null \/ MadeForSchema(q, schema) = Null THEN toGVariant(q) ELSE MadeForSchema(q, schema)

=============================================================================
