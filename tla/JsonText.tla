------------------------------ MODULE JsonText ------------------------------
(***************************************************************************)
(* parson.c between text and values: the parser, the serialiser, and the   *)
(* functions the library calls on values.  A text is a sequence of symbols *)
(* for characters or for runs of them that are only read together: words,  *)
(* the four digits of \u, and true, false and null.  QUOTE, COMMA, LBRACE, *)
(* RBRACE and SP are characters by their names; "LF" is a control          *)
(* character, "BOM" is the mark of a text's byte order, "BAD" is not       *)
(* UTF-8, and "NUL" is what \u0000 stands for.  Numbers are integers of at   *)
(* most 17 digits, of which a double keeps the first, or infinite.         *)
(* Objects are names and items in their order, which JsonObject justifies. *)
(***************************************************************************)
EXTENDS Integers, Sequences, FiniteSets, SequencesExt, FiniteSetsExt

CONSTANTS
  MAX_NESTING,    \* 2048
  Precision,      \* digits of an integer that a double keeps: 15
  Symbols         \* all that occur in texts

\* A request's messages are three deep in its document.
ASSUME NestingAssumption == MAX_NESTING \in Nat /\ MAX_NESTING >= 3

ASSUME PrecisionAssumption == Precision \in Nat \ {0}

Digits == {"0", "1", "7"}

\* What the parser and the serialiser write; a NULL pointer is no text.
ASSUME SymbolsAssumption ==
  /\ {"[", "]", "LBRACE", "RBRACE", "COMMA", ":", "QUOTE", "\\", "/", "n", "u", "0000", "-"} \cup Digits \subseteq Symbols
  /\ {"null", "true", "false", "LF", "NUL", "A", "SMILE"} \subseteq Symbols
  /\ "NULL" \notin Symbols

Strings == Seq(Symbols)

-----------------------------------------------------------------------------
\* Values.

Value(type, chars, names, items) ==
  [type |-> type, chars |-> chars, names |-> names, items |-> items]

Error == Value("error", <<>>, <<>>, <<>>)    \* a JSON_Value that is NULL
Null == Value("null", <<>>, <<>>, <<>>)
String(chars) == Value("string", chars, <<>>, <<>>)
Number(chars) == Value("number", chars, <<>>, <<>>)
Boolean(word) == Value("boolean", <<word>>, <<>>, <<>>)
Array(items) == Value("array", <<>>, <<>>, items)
Object(names, items) == Value("object", <<>>, names, items)

\* What JSON allows for a number.
IsNumber(t) ==
  /\ t # <<>>
  /\ LET digits == IF t[1] = "-" THEN Tail(t) ELSE t
     IN digits # <<>> /\ ToSet(digits) \subseteq Digits /\ (digits[1] = "0" => Len(digits) = 1)

\* A number as a double: the first of its digits are kept.
Rounded(t) ==
  LET kept == Precision + (IF t[1] = "-" THEN 1 ELSE 0)
  IN [k \in DOMAIN t |-> IF k <= kept THEN t[k] ELSE "0"]

\* What %1.17g prints of a double, which strtod reads as that double again.
IsDouble(t) == IsNumber(t) /\ Rounded(t) = t

Names == {chars \in Strings : ~Contains(chars, "NUL")}

Plain(types, texts) == [type : types, chars : texts, names : {<<>>}, items : {<<>>}]

\* All values with so many in each other; a document is as deep as the parser
\* makes it.
Values[levels \in 0 .. MAX_NESTING + 1] ==
  IF levels = 0 THEN {}
  ELSE Plain({"null"}, {<<>>}) \cup Plain({"boolean"}, {<<"true">>, <<"false">>})
         \cup Plain({"number"}, {t \in Strings : IsDouble(t)}) \cup Plain({"string"}, Strings)
         \cup [type : {"array"}, chars : {<<>>}, names : {<<>>}, items : Seq(Values[levels - 1])]
         \cup {v \in [type : {"object"}, chars : {<<>>}, names : Seq(Names), items : Seq(Values[levels - 1])] :
                 Len(v.names) = Len(v.items) /\ IsInjective(v.names)}

Documents == Values[MAX_NESTING + 1]

NULL == <<"NULL">>    \* a string that is NULL

\* What a C function sees of a string with its length.
CString(chars) ==
  LET end == SelectInSeq(chars, LAMBDA c : c = "NUL")
  IN IF end = 0 THEN chars ELSE SubSeq(chars, 1, end - 1)

json_value_get_string(v) == IF v.type = "string" THEN CString(v.chars) ELSE NULL

\* A NULL string, one that is not UTF-8, and an infinite number have no value.
json_value_init_string(chars) ==
  IF chars = NULL \/ Contains(chars, "BAD") THEN Error ELSE String(chars)

json_value_init_number(chars) == IF Contains(chars, "inf") THEN Error ELSE Number(chars)

\* Of anything but an object this is nothing.
json_object_get_value(v, name) ==
  LET at == SelectInSeq(v.names, LAMBDA n : n = name)
  IN IF at = 0 THEN Error ELSE v.items[at]

\* "a.b.c": each name but the last must be an object's.
json_object_dotget_value(v, path) ==
  LET get[n \in 0 .. Len(path)] == IF n = 0 THEN v ELSE json_object_get_value(get[n - 1], path[n])
  IN get[Len(path)]

json_object_get_array(v, name) ==
  LET a == json_object_get_value(v, name) IN IF a.type = "array" THEN a ELSE Error

json_array_get_object(v, at) ==
  IF at \in DOMAIN v.items /\ v.items[at].type = "object" THEN v.items[at] ELSE Error

json_array_remove(v, at) == IF at \in DOMAIN v.items THEN Array(RemoveAt(v.items, at)) ELSE v

\* Nothing is appended to what is no array.
json_array_append_value(v, item) ==
  IF v.type = "array" /\ item # Error THEN Array(Append(v.items, item)) ELSE v

\* A refused call leaves the object as it is.
json_object_set_value(v, name, item) ==
  LET at == SelectInSeq(v.names, LAMBDA n : n = name) IN
  IF v.type # "object" \/ name = NULL \/ item = Error THEN v
  ELSE IF at = 0 THEN Object(Append(v.names, name), Append(v.items, item))
  ELSE Object(v.names, [v.items EXCEPT ![at] = item])

-----------------------------------------------------------------------------
\* The parser.  A text ends with its first character that is NUL.

At(s, i) == IF i \in DOMAIN s THEN s[i] ELSE "NUL"

White == {"SP", "LF"}
SKIP_WHITESPACES(s, i) == Min({j \in i .. i + Len(s) + 1 : At(s, j) \notin White})

\* A result: what was read and where to go on, or nothing.
Got(v, next) == [value |-> v, next |-> next]
Nothing == Got(Error, 0)

\* Slip: a backslash escapes a quote, whatever is before the backslash.
AnyBackslash(s, i) ==
  LET skip[j \in 1 .. Len(s) + 1] ==
        CASE At(s, j) = "QUOTE" -> j
          [] At(s, j) = "NUL" -> 0
          [] OTHER -> skip[IF At(s, j) = "\\" /\ At(s, j + 1) = "QUOTE" THEN j + 2 ELSE j + 1]
  IN skip[i]

\* The quote that ends a string of which i is a character, 0 if there is none.
skip_quotes(s, i) ==
  LET skip[j \in 1 .. Len(s) + 1] ==
        CASE At(s, j) = "QUOTE" -> j
          [] At(s, j) = "NUL" \/ (At(s, j) = "\\" /\ At(s, j + 1) = "NUL") -> 0
          [] OTHER -> skip[IF At(s, j) = "\\" THEN j + 2 ELSE j + 1]
  IN skip[i]

Escapes == [e \in {"QUOTE", "\\", "/", "n"} |-> IF e = "n" THEN "LF" ELSE e]
CodePoints == [u \in {"0000", "0041"} |-> IF u = "0000" THEN "NUL" ELSE "A"]

\* The surrogate pair d83d de00; neither of the two stands for itself.
parse_utf16(in) ==
  CASE At(in, 3) \in DOMAIN CodePoints -> [char |-> CodePoints[in[3]], used |-> 3]
    [] IsPrefix(<<"\\", "u", "d83d", "\\", "u", "de00">>, in) -> [char |-> "SMILE", used |-> 6]
    [] OTHER -> [char |-> "NULL", used |-> 0]

EscapeSequence(in) ==
  CASE At(in, 2) \in DOMAIN Escapes -> [char |-> Escapes[in[2]], used |-> 2]
    [] At(in, 2) = "u" -> parse_utf16(in)
    [] OTHER -> [char |-> "NULL", used |-> 0]

\* The first character of a string between its quotes, and how much that takes.
Character(in) ==
  CASE in[1] = "LF" -> [char |-> "NULL", used |-> 0]
    [] in[1] = "\\" -> EscapeSequence(in)
    [] OTHER -> [char |-> in[1], used |-> 1]

\* What a text between quotes stands for: one string, or none.
process_string(in) ==
  LET read[i \in 1 .. Len(in) + 1] ==
        IF i > Len(in) THEN {<<>>}
        ELSE LET c == Character(SubSeq(in, i, Len(in)))
             IN IF c.used = 0 THEN {} ELSE {<<c.char>> \o rest : rest \in read[i + c.used]}
  IN read[1]

TheString(strings, next) ==
  IF strings = {} THEN Nothing ELSE Got(String(CHOOSE chars \in strings : TRUE), next)

Between(s, i, end) ==
  IF end = 0 THEN Nothing ELSE TheString(process_string(SubSeq(s, i + 1, end - 1)), end + 1)

\* The string that starts with the quote at i.
get_quoted_string(s, i) ==
  IF At(s, i) # "QUOTE" THEN Nothing ELSE Between(s, i, skip_quotes(s, i + 1))

\* strtod takes what it can.  A sign alone is none of a number: it is left where
\* it is, and has been read as 0.
parse_number_value(s, i) ==
  LET first == IF At(s, i) = "-" THEN i + 1 ELSE i
      end == Min({j \in first .. first + Len(s) + 1 : At(s, j) \notin Digits})
  IN CASE At(s, first) = "inf" \/ (At(s, first) = "0" /\ end > first + 1) -> Nothing
       [] At(s, first) \notin Digits \cup {"inf"} -> Got(Number(<<"0">>), i)
       [] OTHER -> Got(Number(Rounded(SubSeq(s, i, end - 1))), end)

\* A loop that reads items: what it has read and where it stands, and whether
\* another item is to come.
More(v, i) == [got |-> Got(v, i), more |-> TRUE]
Done(v, i) == [got |-> Got(v, i), more |-> FALSE]
Fails == Done(Error, 0)

\* After a comma, or instead of it: the end, or another item if there was a comma.
Onward(s, i, comma, all, bracket) ==
  CASE At(s, i) = bracket -> Done(all, i + 1)
    [] comma /\ At(s, i) # bracket -> More(all, i)
    [] OTHER -> Fails

\* After an item.
Continue(s, i, all, bracket) ==
  IF At(s, i) = "COMMA" THEN Onward(s, SKIP_WHITESPACES(s, i + 1), TRUE, all, bracket)
  ELSE Onward(s, i, FALSE, all, bracket)

\* A turn of the loop of parse_array_value.  What parse_value finds anywhere, one
\* level further down, is in "value".
AddElement(s, array, item) ==
  IF item = Nothing THEN Fails
  ELSE Continue(s, SKIP_WHITESPACES(s, item.next), json_array_append_value(array, item.value), "]")

Element(s, value, loop) ==
  IF loop.more THEN AddElement(s, loop.got.value, value[loop.got.next]) ELSE loop

\* ... and of parse_object_value.
AddMember(s, object, name, item) ==
  IF item = Nothing \/ Contains(object.names, name) THEN Fails
  ELSE Continue(s, SKIP_WHITESPACES(s, item.next),
                Object(Append(object.names, name), Append(object.items, item.value)), "RBRACE")

AfterName(s, value, object, name, i) ==
  IF At(s, i) # ":" THEN Fails ELSE AddMember(s, object, name, value[i + 1])

Named(s, value, object, key) ==
  IF key = Nothing \/ Contains(key.value.chars, "NUL") THEN Fails
  ELSE AfterName(s, value, object, key.value.chars, SKIP_WHITESPACES(s, key.next))

Member(s, value, loop) ==
  IF loop.more THEN Named(s, value, loop.got.value, get_quoted_string(s, loop.got.next)) ELSE loop

\* Every turn but the last reads a comma.
Rounds(s) == Cardinality({i \in DOMAIN s : s[i] = "COMMA"}) + 1

Elements(s, i, value) ==
  LET turn[k \in 0 .. Rounds(s)] ==
        IF k = 0 THEN More(Array(<<>>), i) ELSE Element(s, value, turn[k - 1])
  IN turn[Rounds(s)].got

Members(s, i, value) ==
  LET turn[k \in 0 .. Rounds(s)] ==
        IF k = 0 THEN More(Object(<<>>, <<>>), i) ELSE Member(s, value, turn[k - 1])
  IN turn[Rounds(s)].got

parse_array_value(s, first, value) ==
  IF At(s, first) = "]" THEN Got(Array(<<>>), first + 1) ELSE Elements(s, first, value)

parse_object_value(s, first, value) ==
  IF At(s, first) = "RBRACE" THEN Got(Object(<<>>, <<>>), first + 1) ELSE Members(s, first, value)

\* The switch of parse_value.
parse_any_value(s, i, value) ==
  CASE At(s, i) = "LBRACE" -> parse_object_value(s, SKIP_WHITESPACES(s, i + 1), value)
    [] At(s, i) = "[" -> parse_array_value(s, SKIP_WHITESPACES(s, i + 1), value)
    [] At(s, i) = "QUOTE" -> get_quoted_string(s, i)
    [] At(s, i) \in {"true", "false"} -> Got(Boolean(s[i]), i + 1)
    [] At(s, i) \in {"-"} \cup Digits -> parse_number_value(s, i)
    [] At(s, i) = "null" -> Got(Null, i + 1)
    [] OTHER -> Nothing

\* What parse_value finds at every place, with so many levels to go.
Found(s) ==
  LET value[levels \in 0 .. MAX_NESTING + 1] ==
        [i \in Nat |-> IF levels = 0 THEN Nothing ELSE parse_any_value(s, SKIP_WHITESPACES(s, i), value[levels - 1])]
  IN value

parse_value(s, i, nesting) == Found(s)[MAX_NESTING + 1 - nesting][i]

\* A text starts after the mark of its byte order, if it has one.
Start(s) == IF At(s, 1) = "BOM" THEN 2 ELSE 1

\* What follows the value is not looked at.
json_parse_string(s) == IF s = NULL THEN Error ELSE parse_value(s, Start(s), 0).value

\* read_file takes an empty file for one it cannot read.
json_parse_file(contents) == IF contents = <<>> THEN Error ELSE json_parse_string(contents)

-----------------------------------------------------------------------------
\* The serialiser, as json_serialize_to_string uses it: not pretty.

\* Slip: only what could end the string is escaped.
EscapeQuotes(c) == IF c \in {"QUOTE", "\\"} THEN <<"\\", c>> ELSE <<c>>

Escape(c) ==
  CASE c \in {"QUOTE", "\\", "/"} -> <<"\\", c>>
    [] c = "LF" -> <<"\\", "n">>
    [] c = "NUL" -> <<"\\", "u", "0000">>
    [] OTHER -> <<c>>

Escaped(chars) == FlattenSeq([i \in DOMAIN chars |-> Escape(chars[i])])

json_serialize_string(chars) == <<"QUOTE">> \o Escaped(chars) \o <<"QUOTE">>

Joined(texts) ==
  FlattenSeq([i \in DOMAIN texts |-> IF i = Len(texts) THEN texts[i] ELSE texts[i] \o <<"COMMA">>])

\* The texts of all values of so many levels.
Texts[levels \in 0 .. MAX_NESTING + 1] ==
  [v \in Values[levels] |->
     LET items == [i \in DOMAIN v.items |-> Texts[levels - 1][v.items[i]]]
         names == [i \in DOMAIN v.names |-> json_serialize_string(v.names[i])]
     IN CASE v.type = "array" -> <<"[">> \o Joined(items) \o <<"]">>
          [] v.type = "object" ->
               <<"LBRACE">> \o Joined([i \in DOMAIN items |-> names[i] \o <<":">> \o items[i]]) \o <<"RBRACE">>
          [] v.type = "string" -> json_serialize_string(v.chars)
          [] v.type \in {"number", "boolean"} -> v.chars
          [] OTHER -> <<"null">>]

json_serialize_to_string(v) == IF v = Error THEN NULL ELSE Texts[MAX_NESTING + 1][v]
=============================================================================
