------------------------ MODULE MCDxOpenAiFunctions ------------------------
EXTENDS DxOpenAiProperties

\* Texts as a person writes them: blanks between the parts, slashes as they are.
InQuotes(chars) ==
  <<"QUOTE">> \o FlattenSeq([i \in DOMAIN chars |->
     CASE chars[i] \in {"QUOTE", "\\"} -> <<"\\", chars[i]>>
       [] chars[i] = "LF" -> <<"\\", "n">>
       [] chars[i] = "NUL" -> <<"\\", "u", "0000">>
       [] OTHER -> <<chars[i]>>]) \o <<"QUOTE">>
Separated(texts) ==
  FlattenSeq([i \in DOMAIN texts |-> IF i = 1 THEN texts[i] ELSE <<"COMMA", "SP">> \o texts[i]])
ListOf(texts) == <<"[">> \o Separated(texts) \o <<"]">>
ObjectWith(members) ==
  <<"LBRACE">> \o Separated([i \in DOMAIN members |-> InQuotes(<<members[i][1]>>) \o <<":">> \o members[i][2]])
    \o <<"RBRACE">>

M(role, text) == ObjectWith(<<<<"role", InQuotes(<<role>>)>>, <<"content", InQuotes(<<text>>)>>>>)
Prompt(messages) == ObjectWith(<<<<"messages", ListOf(messages)>>>>)

\* Prompts with and without a question and an answer, with messages that are
\* none; documents without messages, or not even objects; no document.
Prompts == {
  <<>>, <<"[">>, ListOf(<<<<"1">>>>),
  ObjectWith(<<<<"messages", <<"null">>>>, <<"temperature", <<"7">>>>>>),
  Prompt(<<>>),
  Prompt(<<M("user", "t2"), M("system", "t1"), M("assistant", "t2")>>),
  Prompt(<<<<"1", "7", "1">>, <<"LBRACE", "RBRACE">>, M("assistant", "t1"), M("system", "t1"), M("user", "t1")>>) }

\* Nothing new, a question and an answer, and one of them without a text.
Awkward == <<"QUOTE", "\\", "LF">>
QuestionsAndAnswers == {<<NULL, NULL>>, <<Awkward, <<"t2">>>>, <<<<"BAD">>, Awkward>>, <<NULL, <<"BAD">>>>}

Says(content, finish_reason, name, arguments) ==
  [content |-> content, finish_reason |-> finish_reason, name |-> name, arguments |-> arguments]
Choice(message, reason) ==
  ObjectWith(<<<<"choices", ListOf(<<ObjectWith(<<<<"message", message>>,
                                                   <<"finish_reason", InQuotes(<<reason>>)>>>>)>>)>>>>)
Arguments == <<"LBRACE", "QUOTE", "t1", "QUOTE", ":", "1", "RBRACE">>

\* Something else, a marked answer with a NUL, which ends it, and a call with
\* arguments that are JSON.  No answer at all is one that ends before its first piece.
Replies == {
  [text |-> <<"LBRACE", "RBRACE">>, says |-> Silence],
  [text |-> <<"BOM">> \o Choice(ObjectWith(<<<<"content", InQuotes(<<"t1", "NUL", "t2">>)>>>>), "stop") \o <<"LF">>,
   says |-> Says(<<"t1">>, <<"stop">>, NULL, NULL)],
  [text |-> Choice(ObjectWith(<<<<"content", <<"null">>>>,
              <<"function_call", ObjectWith(<<<<"name", InQuotes(<<"t2">>)>>,
                                              <<"arguments", InQuotes(Arguments)>>>>)>>>>), "call"),
   says |-> Says(NULL, <<"call">>, <<"t2">>, Arguments)] }

\* Memory has held nothing, or an answer that was freed.
Freed == {<<>>} \cup {r.text : r \in Replies}

Zero == <<"0">>
Ten == <<"1", "0">>

T(type, key, value) == [type |-> type, key |-> <<key>>, value |-> value]
TripleLists == {
  <<T("DX_JSON_INT", "a", <<"1">>), T("other", "b", NULL)>>,
  <<T("DX_JSON_INT", "a", <<"1">>), T("DX_JSON_BOOL", "b", <<"true">>), T("DX_JSON_DOUBLE", "a", <<"-", "7">>)>>,
  <<T("DX_JSON_STRING", "a", <<"t1">>), T("DX_JSON_STRING", "b", <<"BAD">>), T("DX_JSON_STRING", "a", NULL)>>,
  <<T("DX_JSON_DOUBLE", "a", <<"inf">>), T("DX_JSON_STRING", "b", <<"QUOTE", "/">>)>>,
  <<T("DX_JSON_BOOL", "a", <<"false">>), T("DX_JSON_STRING", "a", <<"LF">>)>>,
  <<T("DX_JSON_STRING", "a", <<"QUOTE", "QUOTE", "QUOTE", "QUOTE", "QUOTE">>), T("DX_JSON_LONG", "b", <<"1">>)>> }

\* Short texts, and all that one missing, wrong or added character makes of them.
Alphabet == {"[", "]", "LBRACE", "RBRACE", "COMMA", ":", "QUOTE", "\\", "u", "n", "0000", "d83d", "de00",
             "LF", "a", "0", "1", "-", "inf", "true"}
Edits(t) ==
  {RemoveAt(t, i) : i \in DOMAIN t}
    \cup {[t EXCEPT ![i] = c] : i \in DOMAIN t, c \in Alphabet}
    \cup {InsertAt(t, i, c) : i \in 1 .. Len(t) + 1, c \in Alphabet}
Seeds == {
  <<"-", "1", "7", "1">>,
  <<"[", "7", "COMMA", "SP", "-", "1", "]">>,
  <<"[", "[", "]", "COMMA", "LBRACE", "RBRACE", "]">>,
  <<"LBRACE", "QUOTE", "a", "QUOTE", ":", "1", "COMMA", "QUOTE", "b", "QUOTE", ":", "null", "RBRACE">>,
  <<"[", "QUOTE", "\\", "QUOTE", "\\", "u", "0000", "QUOTE", "]">>,
  <<"QUOTE", "\\", "u", "d83d", "\\", "u", "de00", "QUOTE">> }
\* ... and all that occurs in any text here.
Characters ==
  Alphabet \cup Digits \cup {"NUL", "BOM", "SP", "/", "false", "null", "BAD", "A", "SMILE", "b", "t1", "t2",
    "messages", "role", "content", "user", "assistant", "system", "temperature", "max_tokens",
    "choices", "message", "finish_reason", "function_call", "name", "arguments", "stop", "call"}

\* As deep as may be, and deeper.
Nested(depth, inside) == [i \in 1 .. depth |-> "["] \o inside \o [i \in 1 .. depth |-> "]"]
Neighbours ==
  UNION {Edits(t) : t \in Seeds}
    \cup {Nested(MAX_NESTING + d, inside) : d \in 0 .. 2, inside \in {<<>>, <<"1">>, <<"LBRACE", "RBRACE">>}}
=============================================================================
