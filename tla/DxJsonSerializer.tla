-------------------------- MODULE DxJsonSerializer --------------------------
(***************************************************************************)
(* dx_jsonSerialize of dx_json_serializer.c: triples of a type, a name and *)
(* a value become the text of an object, in a buffer of the caller's.      *)
(***************************************************************************)
EXTENDS JsonText

Numeric == {"DX_JSON_INT", "DX_JSON_LONG", "DX_JSON_FLOAT", "DX_JSON_DOUBLE"}

\* What a caller passes.  Names and texts are strings of C; a number is a double
\* in the end.  A type that is none has no value: its name is followed by a type.
IsTriple(t) ==
  /\ t.key \in Strings \cup {NULL} /\ ~Contains(t.key, "NUL")
  /\ CASE t.type = "DX_JSON_STRING" -> t.value \in Strings \cup {NULL}
       [] t.type = "DX_JSON_BOOL" -> t.value \in {<<"true">>, <<"false">>}
       [] t.type \in Numeric -> t.value = <<"inf">> \/ (t.value \in Strings /\ IsDouble(t.value))
       [] OTHER -> t.value = NULL

\* A type that is none sets nothing.
Item(triple) ==
  CASE triple.type = "DX_JSON_STRING" -> json_value_init_string(triple.value)
    [] triple.type = "DX_JSON_BOOL" -> Boolean(triple.value[1])
    [] triple.type \in Numeric -> json_value_init_number(triple.value)
    [] OTHER -> Error

\* No result is read: a value that cannot be set is left out.
SetTriple(object, triple) == json_object_set_value(object, triple.key, Item(triple))

Serialized(triples) ==
  LET object[n \in 0 .. Len(triples)] ==
        IF n = 0 THEN Object(<<>>, <<>>) ELSE SetTriple(object[n - 1], triples[n])
  IN json_serialize_to_string(object[Len(triples)])

DX_SAFE_STRING_COPY(text, size) == SubSeq(text, 1, IF Len(text) < size THEN Len(text) ELSE size - 1)

\* Slip: the text is copied whatever its length.
SerializeAll(buffer, buffer_size, triples) == [result |-> TRUE, buffer |-> Serialized(triples)]

\* Slip: one character more than there is room for is let through.
SerializeTight(buffer, buffer_size, triples) ==
  LET text == Serialized(triples)
      fits == Len(text) <= buffer_size
  IN [result |-> fits, buffer |-> IF fits THEN DX_SAFE_STRING_COPY(text, buffer_size) ELSE buffer]

dx_jsonSerialize(buffer, buffer_size, triples) ==
  LET text == Serialized(triples)
      fits == Len(text) < buffer_size
  IN [result |-> fits, buffer |-> IF fits THEN DX_SAFE_STRING_COPY(text, buffer_size) ELSE buffer]
=============================================================================
