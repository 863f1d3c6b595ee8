------------------------- MODULE DxOpenAiProperties -------------------------
(***************************************************************************)
(* What the requests of dx_openai_functions.c, and dx_jsonSerialize, owe   *)
(* to the application, in terms of the documents their texts stand for.    *)
(***************************************************************************)
EXTENDS DxOpenAiFunctions, JsonGrammar

\* What an answer says is what is found in the whole of it.
ASSUME AnswersAssumption == \A a \in Answers : a.says = Findings(a.text)

Role(m) == json_value_get_string(json_object_get_value(m, <<"role">>))

AtMostOne(messages, role) ==
  \A i, j \in DOMAIN messages : Role(messages[i]) = role /\ Role(messages[j]) = role => i = j

Message(role, text) ==
  CASE text = NULL -> <<>>
    [] Contains(text, "BAD") -> <<Object(<<<<"role">>>>, <<String(role)>>)>>
    [] OTHER -> <<Object(<<<<"role">>, <<"content">>>>, <<String(role), String(text)>>)>>

Without(messages, role) ==
  LET others[n \in 0 .. Len(messages)] ==
        IF n = 0 THEN <<>>
        ELSE others[n - 1] \o IF Role(messages[n]) = role THEN <<>> ELSE <<messages[n]>>
  IN others[Len(messages)]

\* The prompt's own messages, then the question and the answer.
Expected(messages, user, assistant) ==
  Without(Without(messages, <<"user">>), <<"assistant">>)
    \o Message(<<"user">>, user) \o Message(<<"assistant">>, assistant)

\* A text is a document again: the prompt's, with the context's numbers, and for
\* its messages the prompt's own in their order, then a question and an answer.
\* The prompt has one question and one answer at the most.
Extends(document, messages, posted, user, assistant) ==
  IF document.type # "object" THEN posted = document
  ELSE
    AtMostOne(messages.items, <<"user">>) /\ AtMostOne(messages.items, <<"assistant">>) =>
      /\ posted.type = "object"
      /\ ToSet(posted.names) = ToSet(document.names) \cup {<<"temperature">>, <<"max_tokens">>}
      /\ IsPrefix(document.names, posted.names)
      /\ \A i \in DOMAIN posted.names :
           posted.items[i] =
             CASE posted.names[i] = <<"temperature">> -> Number(Temperature)
               [] posted.names[i] = <<"max_tokens">> -> Number(MaxTokens)
               [] posted.names[i] = <<"messages">> /\ messages # Error ->
                    Array(Expected(messages.items, user, assistant))
               [] OTHER -> json_object_get_value(document, posted.names[i])

ExtendsPrompt(document, posted) ==
  Extends(document, json_object_get_array(document, <<"messages">>), posted, request.user, request.assistant)

\* When the prompt has one question and one answer at the most, a request posts its
\* document with its own question and answer and no other's, whatever they contain,
\* after any number of requests, with or without them, from handlers too.
PostsThisConversation ==
  Where = "http" => ExtendsPrompt(json_parse_file(file), json_parse_string(request.posted))

\* The handler hears all that the answer says when all of it has come, in whatever
\* pieces; of an answer that ends early, or fails, it hears all or nothing.  (Of one
\* that ends well without a single piece it hears what malloc left.)
HearsTheAnswer ==
  Where = "handler" /\ request.memory # Unwritten =>
    /\ request.heard \in {Silence, request.answer.says}
    /\ request.memory # NULL /\ request.rest = <<>> => request.heard = request.answer.says

-----------------------------------------------------------------------------

Lasting(t) ==
  /\ t.key # NULL /\ t.type \in {"DX_JSON_STRING", "DX_JSON_BOOL"} \cup Numeric
  /\ t.type = "DX_JSON_STRING" => t.value # NULL /\ ~Contains(t.value, "BAD")
  /\ t.type \in Numeric => ~Contains(t.value, "inf")

\* The object of some triples: every name at the place of its first value, with
\* its last.
IsObjectOf(v, list) ==
  LET lasting == {i \in DOMAIN list : Lasting(list[i])}
      Of(name) == {i \in lasting : list[i].key = name}
  IN /\ v.type = "object"
     /\ ToSet(v.names) = {list[i].key : i \in lasting}
     /\ \A j, k \in DOMAIN v.names : j < k => Min(Of(v.names[j])) < Min(Of(v.names[k]))
     /\ \A k \in DOMAIN v.names : v.items[k] = Item(list[Max(Of(v.names[k]))])

\* What is in the buffer is always the whole text, for the last call that said it
\* was done, of an object with the last value of each name: a call that finds too
\* little room, or a value it cannot write, leaves no half of a text behind.
IsTextOf(read, list) ==
  read # Nothing /\ read.next = Len(buffer) + 1 /\ IsObjectOf(read.value, list)

SerializesLastValues == triples # <<>> => IsTextOf(parse_value(buffer, 1, 0), triples)

\* The parser and the grammar agree on what the serialiser makes and on every
\* sample: what an escape, a comma, a bracket or a sign that is missing, misplaced
\* or one too many does to a text, it does in both.
ReadsWhatIsWritten == Misread = {} /\ (buffer = <<>> \/ ReadAsWritten(buffer))
=============================================================================
