-------------------------- MODULE DxOpenAiFunctions --------------------------
(***************************************************************************)
(* dx_openai_functions.c: a prompt read from a file is kept as a JSON      *)
(* document; every request takes the last question and answer out of its   *)
(* messages, puts the new ones in, posts its text, reads the text that     *)
(* comes back in pieces, and hands what it finds there to the              *)
(* application's handler, which may itself use the context again.  The     *)
(* application may make a message with dx_jsonSerialize.                   *)
(***************************************************************************)
EXTENDS DxJsonSerializer

CONSTANTS
  Files,        \* texts the prompt file can hold
  Turns,        \* pairs of user_msg and assistant_msg
  Temperature,  \* of the context: a finite number, as %1.17g prints it
  MaxTokens,    \* ... and another one
  Answers,      \* what the server can answer: a text and what it says
  Leftovers,    \* texts that memory can hold which nothing was written to
  Calls,        \* sequences of triples for dx_jsonSerialize
  BufferSize,   \* of the buffer it fills
  PieceSizes,   \* bound: of the pieces an answer comes in
  MaxDepth      \* bound: requests made from inside handlers

Silence == [content |-> NULL, finish_reason |-> NULL, name |-> NULL, arguments |-> NULL]
NoAnswer == [text |-> <<>>, says |-> Silence]
Unwritten == <<"?">>    \* memory from malloc, which nothing was written to: no text

ASSUME OpenAiAssumption ==
  /\ Files \subseteq Strings
  /\ Turns \subseteq (Strings \cup {NULL}) \X (Strings \cup {NULL})
  /\ \A n \in {Temperature, MaxTokens} : n \in Strings /\ IsDouble(n)
  /\ BufferSize \in Nat \ {0} /\ MaxDepth \in Nat /\ PieceSizes \subseteq Nat \ {0}
  /\ \A list \in Calls : list \in Seq(ToSet(list)) /\ \A i \in DOMAIN list : IsTriple(list[i])
  /\ \A a \in Answers : a.text \in Strings
  /\ Leftovers \subseteq Strings
  /\ {"messages", "role", "content", "user", "assistant", "temperature", "max_tokens"} \subseteq Symbols
  /\ "?" \notin Symbols

VARIABLES
  file,       \* the prompt file
  json_root,  \* the context's
  headers,    \* the context's: NULL or not
  frames,     \* dx_openai_function_post_request, innermost first
  request,    \* the innermost:
              \*   user, assistant  its user_msg and assistant_msg
              \*   posted           the text it posts
              \*   answer           what the server answers
              \*   rest             ... and what of that is still to come
              \*   memory           where it is collected, or NULL
              \*   heard            the arguments of the handler
  buffer,     \* the application's, filled by dx_jsonSerialize
  triples     \* ... from these, as far as it was told

contextVars == <<file, json_root, headers>>
bufferVars == <<buffer, triples>>
vars == <<contextVars, frames, request, bufferVars>>

NoRequest ==
  [user |-> NULL, assistant |-> NULL, posted |-> <<>>, answer |-> NoAnswer, rest |-> <<>>,
   memory |-> NULL, heard |-> Silence]

TypeOK ==
  /\ file \in Files
  /\ json_root \in Documents \cup {Error}
  /\ headers \in BOOLEAN
  /\ frames \in Seq({"http", "handler"}) /\ Len(frames) <= MaxDepth + 1
  /\ request \in [user : Strings \cup {NULL}, assistant : Strings \cup {NULL}, posted : Strings,
                  answer : Answers \cup {NoAnswer}, rest : Strings, memory : Strings \cup {NULL, Unwritten},
                  heard : [DOMAIN Silence -> Strings \cup {NULL}]]
  /\ buffer \in Strings /\ Len(buffer) < BufferSize /\ triples \in Calls \cup {<<>>}

Init ==
  /\ file \in Files
  /\ json_root = Error /\ headers = FALSE
  /\ frames = <<>> /\ request = NoRequest
  /\ buffer = <<>> /\ triples = <<>>

-----------------------------------------------------------------------------

\* The application's code runs: outside of any request, or in a handler.
Where == IF frames = <<>> THEN "application" ELSE Head(frames)
AppRuns == Where # "http"

\* Both are left alone when they are there; without a key there are no headers.
dx_openai_function_init ==
  /\ AppRuns
  /\ json_root' = IF json_root = Error THEN json_parse_file(file) ELSE json_root
  /\ \E key \in BOOLEAN : headers' = (headers \/ key)
  /\ UNCHANGED <<file, frames, request, bufferVars>>

dx_openai_function_free ==
  /\ AppRuns
  /\ json_root' = Error /\ headers' = FALSE
  /\ UNCHANGED <<file, frames, request, bufferVars>>

\* The application makes a message, for its next request, and only then.
Compose ==
  /\ frames = <<>>
  /\ \E list \in Calls :
       LET made == dx_jsonSerialize(buffer, BufferSize, list)
       IN buffer' = made.buffer /\ triples' = IF made.result THEN list ELSE triples
  /\ UNCHANGED <<contextVars, frames, request>>

\* Slip: the last message with this role is taken, whatever it is.
RemoveLast(messages, key) == json_array_remove(messages, Len(messages.items))

\* The first message with this role is removed.  What is no object, or has no
\* role, is passed over.
del_existing_msgs(messages, key) ==
  json_array_remove(messages,
    SelectInSeq(messages.items, LAMBDA m :
      json_value_get_string(json_object_get_value(m, <<"role">>)) = key))

\* No result is read: a text that is not UTF-8 leaves the message without one.
NewMessage(role, text) ==
  json_object_set_value(
    json_object_set_value(Object(<<>>, <<>>), <<"role">>, json_value_init_string(role)),
    <<"content">>, json_value_init_string(text))

Given(messages, role, text) ==
  IF text = NULL THEN messages ELSE json_array_append_value(messages, NewMessage(role, text))

Conversation(messages, user, assistant) ==
  Given(Given(
    del_existing_msgs(del_existing_msgs(messages, <<"user">>), <<"assistant">>),
    <<"user">>, user), <<"assistant">>, assistant)

\* Of a document that is no object, or has no array of messages, as much is
\* changed as there is.
Prepared(root, user, assistant) ==
  LET numbered == json_object_set_value(
                    json_object_set_value(root, <<"temperature">>, json_value_init_number(Temperature)),
                    <<"max_tokens">>, json_value_init_number(MaxTokens))
      messages == json_object_get_array(numbered, <<"messages">>)
  IN IF messages = Error THEN numbered
     ELSE json_object_set_value(numbered, <<"messages">>, Conversation(messages, user, assistant))

\* dx_openai_function_post_request up to curl_easy_perform, with a given question
\* and answer or with what the application made.
PostRequest ==
  /\ AppRuns
  /\ Len(frames) <= MaxDepth
  /\ json_root # Error /\ headers
  /\ \E turn \in Turns \cup {<<buffer, NULL>>}, answer \in Answers :
       /\ json_root' = Prepared(json_root, turn[1], turn[2])
       /\ request' = [user |-> turn[1], assistant |-> turn[2],
                      posted |-> json_serialize_to_string(json_root'),
                      answer |-> answer, rest |-> answer.text,
                      memory |-> Unwritten, heard |-> Silence]
  /\ frames' = <<"http">> \o frames
  /\ buffer' = <<>> /\ triples' = <<>>
  /\ UNCHANGED <<file, headers>>

\* Slip: a piece is put where the first one was.
WriteAtStart(chunk, contents) == contents

\* The first piece replaces what malloc left.
WriteMemoryCallback(chunk, contents) ==
  IF chunk = Unwritten THEN contents ELSE chunk \o contents

Receive ==
  /\ Where = "http" /\ request.rest # <<>>
  /\ \E size \in PieceSizes :
       LET n == Min({size, Len(request.rest)}) IN
       request' = [request EXCEPT !.memory = WriteMemoryCallback(@, SubSeq(request.rest, 1, n)),
                                  !.rest = SubSeq(@, n + 1, Len(@))]
  /\ UNCHANGED <<contextVars, frames, bufferVars>>

\* What parse_response finds in a text, if anything.
TextIn(choice, path) == json_value_get_string(json_object_dotget_value(choice, path))

FoundIn(choice) ==
  [content |-> TextIn(choice, <<<<"message">>, <<"content">>>>),
   finish_reason |-> TextIn(choice, <<<<"finish_reason">>>>),
   name |-> TextIn(choice, <<<<"message">>, <<"function_call">>, <<"name">>>>),
   arguments |-> TextIn(choice, <<<<"message">>, <<"function_call">>, <<"arguments">>>>)]

Findings(response) ==
  FoundIn(json_array_get_object(
    json_object_get_array(json_parse_string(response), <<"choices">>), 1))

\* The transfer ends, with all of the answer or with less, or fails; then the
\* handler is called with what was found.  Without a single piece it is found in
\* what the memory held before.
ResponseHandled ==
  /\ Where = "http"
  /\ \E response \in {request.memory, NULL} :
       \E text \in IF response = Unwritten THEN Leftovers ELSE {response} :
         request' = [request EXCEPT !.memory = response, !.heard = Findings(text)]
  /\ frames' = <<"handler">> \o Tail(frames)
  /\ UNCHANGED <<contextVars, bufferVars>>

\* The handler returns and the answer is freed.
RequestReturns ==
  /\ Where = "handler"
  /\ frames' = Tail(frames)
  /\ request' = NoRequest
  /\ UNCHANGED <<contextVars, bufferVars>>

Next ==
  \/ dx_openai_function_init \/ dx_openai_function_free \/ Compose
  \/ PostRequest \/ Receive \/ ResponseHandled \/ RequestReturns

Spec == Init /\ [][Next]_vars
=============================================================================
