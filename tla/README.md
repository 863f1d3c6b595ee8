# A verification of the DevX library (EdgeMqttDevX)

TLA+ specifications of the library in `src/`, model-checked with TLC on small
instances and, where it matters most, proved with TLAPS for instances of any
size. Source paths below are relative to `src/` of the repository's C files
(`src/dx_mqtt.c`, `include/dx_mqtt.h`, ...).

1. [The system](#1-the-system)
2. [Modules and how they follow the code](#2-modules-and-how-they-follow-the-code)
3. [What is checked](#3-what-is-checked)
4. [Fairness](#4-fairness)
5. [What is proved](#5-what-is-proved)
6. [Disagreements between the code and what is said of it](#6-disagreements-between-the-code-and-what-is-said-of-it)
7. [Assumptions about code that is not here](#7-assumptions-about-code-that-is-not-here)
8. [What is not modelled](#8-what-is-not-modelled)
9. [Plan](#9-plan)

## 1. The system

DevX is a small static library for one process: an application's `main` opens
peripherals, starts timers, connects to a broker and then sits in a libuv event
loop until something stops it. There is no test in the repository. The parts, in
the order of how hard they are to get right:

| part | state it keeps | operations | who calls it, and whom it calls |
|---|---|---|---|
| MQTT client, `dx_mqtt.c` | static: the `mqtt_client`, its buffers and descriptor; `_is_initialized`, `_is_connected`, `_daemon_running`, `_daemon_created`, the thread's handle; handler and context; the last error | `dx_mqttConnect`, `Publish`, `Subscribe`, `Unsubscribe`, `Disconnect`, `dx_isMqttConnected`, `GetLastError`; the thread `client_refresher`; `publish_callback`; `open_nb_socket` | the application's thread and the library's own background thread share all of it without a lock of their own; MQTT-C and the kernel underneath; the application's handler runs on the background thread |
| Timers, `dx_timer.c` | `initialized` and the `uv_timer_t` of each binding | start, stop, one-shot, change, sets of timers, `dx_eventLoopRun`, `dx_eventLoopStop` | the application, before the loop or in callbacks of it |
| Asyncs, `dx_async.c` | `async.data` and the `uv_async_t` | `dx_asyncInit`, `dx_asyncSend` (from any thread), the handler | other threads send, the loop's thread handles |
| Termination, `dx_terminate.c` | `_exitCode` | `dx_terminate` (any thread), the signal handler | stops the loop |
| Network check, `dx_utilities.c` | a cached answer, a mutex, a timer and the flag that it is initialised; the flag that libcurl is | `dx_isNetworkConnected`, the timer's handler, `dx_getHttpData` | any thread, and the loop; libcurl underneath |
| GPIO, `dx_gpio.c` | a table of chips with a count of lines each; the line handle of each binding | open, close, sets of bindings, on, off, get | libgpiod |
| OpenAI functions, `dx_openai_functions.c` | a JSON document and HTTP headers in a context | init, free, post a request (which edits the document), collect the answer and read it | libcurl, parson; calls the application's handler, which can call back |
| JSON serializer, `dx_json_serializer.c` | the caller's buffer | `dx_jsonSerialize` | parson |
| JSON library, `parson.c` (vendored) | an object: a hash table with open addressing and arrays of names and values; texts | parse, serialise, set, add, get, remove, clear, append | the two parts above it |
| Peripherals that are not built: `rx_gpio.c`, `dx_i2c.c`, `dx_pwm.c` | a descriptor per binding, or per PWM controller | open, close, sets, use | the descriptor table of the process |
| Logging, `log.c`; clocks and host name in `dx_utilities.c` | a buffer, an epoch | format, print, ask the system | none of them calls back |

The behaviours that are hard, and what makes each part correct:

- *MQTT.* Two threads, reconnection over a live session, a join that waits for a
  thread that waits for a mutex, failures at every point of `dx_mqttConnect`,
  connections that drop at any time. Correct means: no socket leaked or used
  after its number was given away; at most one background thread, which the flags
  know of; a session that counts as initialised is served; calls return, losses
  are noticed, what was accepted is sent; and with sessions that are properly
  ended, none inherits anything from an earlier one.
- *The loop.* Its clock is cached, so time in a callback is not seen; `uv_stop` is
  a flag that a blocked poll does not look at; an async's wake-ups merge.
- *The network check.* A double-checked flag under a mutex, a cached value that is
  read and written without it, and a timer that must be there to end it. libcurl is
  initialised by whichever thread comes first, on the strength of a flag without a lock.
- *GPIO and the other peripherals.* Shared chips, controllers and descriptor
  numbers, and failures after half of an open.
- *OpenAI.* A document edited in place, by requests that can nest; an answer that
  comes in pieces, or half, and is searched for what may not be there; texts that
  contain what JSON must escape, or cannot hold.
- *JSON.* Removal from an open-addressing table, and growth in the middle of a set. A
  scanner that looks for the end of a string before it reads it, and escapes that are
  several characters long. A buffer that the text must fit with its terminator.

Every hazard found in the code, with its line and the properties that watch it, is
listed in `PROJECT.json`, and so is each component with what is left out of it.

## 2. Modules and how they follow the code

| module | models | lines up with the code as follows |
|---|---|---|
| `MqttC` | the MQTT-C client as `dx_mqtt.c` uses it, TCP connections, the kernel's descriptor table, the broker | external; one operator per library call. `mqtt_init` leaves the mutex locked until `mqtt_connect`, as the library's does |
| `DxMqtt` | `dx_mqtt.c` | EXTENDS `MqttC`. One action per access the other thread could observe: `apc` is where the application's call is, `dpc` where each background thread is. A call begins with its early returns (`ConnectInvalid`, `PublishRefused`, ...) |
| `DxMqttProperties` | properties, fairness, and the mapping to `MqttSession` | |
| `MqttSession` | abstract: sessions that follow each other, each with the packets it accepted and carried and the handler it delivers to | implemented by `DxMqtt` when each session is ended by `dx_mqttDisconnect` |
| `OpenNbSocket` | `open_nb_socket`, call by call, over any list of addresses | `DxMqtt` has the whole of it as one step, `OpenSocket` or `OpenSocketFails`; `OpenNbSocket` shows that those are its two results |
| `UvLoop` | libuv's loop: cached time, timers, asyncs, the poll and its timeout | external; the phases of `uv_run` |
| `DxEventLoop` | `dx_timer.c`, `dx_async.c`, `dx_terminate.c` | EXTENDS `UvLoop`. Calls on the loop's thread are one step (nothing else touches what they touch); those of other threads and of the signal handler are one step per write |
| `DxHttp` | `dx_getHttpData` and the flag that guards `curl_global_init` | `http` per thread: one step for each test or write of the flag, one for `curl_global_init`, one for the transfer |
| `DxNetwork` | `dx_isNetworkConnected` and the handler of its timer, and applications that call `dx_getHttpData` themselves (`Fetch`) | EXTENDS `UvLoop`, the same loop with other callers, and `DxHttp`, which a test of the network runs through. `pc` per thread, one step per access to shared state |
| `DxGpio` | `dx_gpio.c` | one action per call; sets are opened one binding per step |
| `JsonText` | of `parson.c`, parser, compact serialiser, and the calls on values that the library makes | pure operators, named as the functions are. A text is a sequence of `Symbols`: characters, some of them by their names (`QUOTE`, `COMMA`, `LBRACE`, `RBRACE`, `SP`), and runs of characters that are only read together (a word, the four digits of `\u`); positions are the parser's. The recursion of `parse_value` and of the serialiser is a function of the levels that are left (`Found`, `Texts`), the loops of `parse_object_value` and `parse_array_value` are functions of the turn (`Members`, `Elements`), so that both can be reasoned about |
| `JsonGrammar` | nothing: the language of JSON as a reference | `Denoted` gives every text, level by level, the set of all values it can stand for, by taking it apart at every comma, colon and spelling; it shares with `JsonText` the alphabet, what is a number and what is blank, and no scanner |
| `DxJsonSerializer` | `dx_json_serializer.c` | `dx_jsonSerialize` from the buffer, its size and the triples to the result and the buffer |
| `DxOpenAiFunctions` | `dx_openai_functions.c` | EXTENDS `DxJsonSerializer`. `json_root` is a value of `JsonText`; `frames` is the stack of requests, which the handler makes nest; one step up to `curl_easy_perform`, one for each call of `WriteMemoryCallback`, one up to the handler |
| `DxOpenAiProperties` | properties | a request's text is read back and compared as a document; `AnswersAssumption` says that what an answer says is what is found in the whole of it |
| `JsonObject` | the hash table of an object of `parson.c` | cells, items and both directions of their links; `CellEmptied` is the loop of `json_object_remove_internal`. The hash of a name is any function |
| `JsonMap` | abstract: a map | implemented by `JsonObject` |
| `DxApplibs` | `rx_gpio.c`, `dx_i2c.c`, `dx_pwm.c`, which share the process's descriptors | one action per call; the PWM arithmetic keeps its width |
| `MC*` | constants for TLC | |
| `*Proofs` | theorems | each EXTENDS the module it is about |

A definition whose comment begins with *Slip* is not the code. It is a plausible
mistake in the definition that follows it, and shows that a property would notice
the mistake: each checked property has one (`PROJECT.json`, "mutants").

Data is abstracted to what the properties tell apart. Packets keep their type, QoS
and retain flag; topics and payloads are gone. A handler and its context are two
halves of one registration, so that a mix of two is visible. A value of an async
is the number of the send. A chat message has a role and one of two texts. A
timespec is a number of ticks, two to the millisecond, so that "less than a
millisecond" exists. The alphabet of JSON has one letter or digit of each kind the
code tells apart, one control character, one byte that is not UTF-8, one code point
below and one above 2^16; numbers are integers, of which a double keeps the first
digits (`Rounded`), or infinite.

## 3. What is checked

| run | instance and bounds | distinct states | what it shows |
|---|---|---|---|
| `mqtt_cycle` | sessions ended by disconnect; 3 connections, 2 descriptors, 2 thread handles, 2 registrations, send buffer of 2, 3 packets a connection, 4 kinds of request | 1,089,942 | `WireFaithful`, `HealthyMeansConnected`, `CallbackMatches`, `QuietWhenDown`, and `ImplementsSession` (refinement) |
| `mqtt_any_order` | any order of calls; 2 connections, 2 descriptors, 2 thread handles, send buffer of 1, 2 packets a connection | 395,670 | `SocketOwned`, `OneDaemon`, `ServedWhenInitialized`; liveness: `CallsReturn`, `LossNoticed`, `RequestsAreSent` |
| `open_nb_socket` | 3 addresses with every mix of 8 outcomes | 25,312 | `NothingLeaks`, `FirstGoodAddress`, `Returns` |
| `loop_timers` | 5 timers: one-shot, periodic, both, refused, repeat under a millisecond; 4 sets | 48,396 | `StoppedIsIdle`, `OneShotNotEarly`, `AllOrNone` |
| `loop_async` | 2 threads, an async, a timer, 2 sends, 2 exit codes (one out of range), a signal | 42,102 | `CodeBeforeStop`, `DataIsSeen`, `TimerEndsTermination` |
| `network` | the loop's thread and 2 others, the library's timer and one of the application's; each thread may fetch a page itself | 121,305 | `CacheHasAnEnd`, `NoTransferBeforeInit`, `CacheExpires` |
| `gpio` | bindings on 2 chips, a line two of them want, an invalid one, 3 chip handles | 292 | `ChipsCounted`, `NoHandleLost` |
| `openai` | 7 prompt files; 4 pairs of a question and an answer, with a text of all that is escaped and one that is not UTF-8, or what `dx_jsonSerialize` made of 6 lists of triples in a buffer of 12; 3 answers whole or in pieces of 30 symbols; memory that held nothing or an answer; doubles of 2 digits; a handler that posts once more; about 2,000 sample texts | 6,720 | `PostsThisConversation`, `HearsTheAnswer`, `SerializesLastValues`, `ReadsWhatIsWritten` |
| `json_object` | 4 names under every hash function to 3 hashes, tables of 4 and 8 cells | 5,421 (up to symmetry) | `CellsMatchItems`, `EnumeratesWhatIsFound`, `HoldsItsValues`, `ImplementsMap` (refinement) |
| `applibs` | 4 pins, one of them with a negative number, an I2C interface, 2 channels of a PWM controller, 4 descriptors; a second of 10^6 ns and a word of 2^22 | 290,628 (up to symmetry) | `DescriptorsOwned`, `OnlyRefusedLeak`, `PulseFits` |
| `doc_stale_loss` | | | a counterexample, see section 6 |
| `doc_terminate` | | | a counterexample, see section 6 |

Types are proved for every module with a state.

What the less obvious of these say:

- `NoTransferBeforeInit`: the flag is read and set without a lock, so several threads
  may run `curl_global_init`; but whoever uses libcurl has seen the flag, or returned
  from its own call, after some call has returned.
- `PostsThisConversation`, for prompts with one message of the user and one of the
  assistant at most: the text of each request, read as JSON, is the prompt's
  document with the two numbers, and for its messages the prompt's own and then this
  request's question and answer, after any history of requests, failed ones and
  nested ones included, and whatever the texts contain.
- `HearsTheAnswer`: the handler hears what a complete answer says, and of one that
  stops early or fails, either nothing or all. A transfer that ends well without a
  single piece is excluded: what the handler hears then is in section 6.
- `AllOrNone`: `dx_timerSetStart` starts all timers of its set; or none runs after it
  that did not run before, and none of those before the one that failed runs at all. A
  timer behind that one may run on, if it ran before the call.
- `OnlyRefusedLeak`: the open descriptors that no binding counts as its own are exactly
  those that `dx_i2cOpen` got and gave up because the bus refused its speed or its
  timeout (`refused` remembers them): the leak of `dx_i2c.c:25` and `:32` is there, and
  there is no other, in a failure, a second open or a close.
- `SerializesLastValues`: what a successful `dx_jsonSerialize` leaves in the buffer is
  a text that the parser reads to its end, as the object with each name at the place of
  its first value and with its last (`IsObjectOf`); an unsuccessful one leaves what was there.
- `ReadsWhatIsWritten`: on the samples, which are six short texts and everything that
  removing, replacing or inserting one symbol makes of them, and nests as deep as
  allowed and deeper, the parser reads a text to its end exactly when the grammar has a
  value for it, and reads that value; so it does with every text the serialiser made.
  The run judges model and grammar on these texts, `ReadsAsWritten` on all texts.
- `CellsMatchItems`: cells and items point at each other, every name is reachable from
  its hash without crossing an empty cell, and there is always an empty cell to end a
  search that finds nothing.

Why the bounds are enough for the interesting cases to happen:

- *MQTT.* Three connections let an error of the first meet the third with the
  number of its descriptor in use again: two numbers, so reuse is forced. A send
  buffer of one or two packets overflows, since three, or two, can be accepted. Two thread handles
  let a thread that should have been the only one have a companion. Two
  registrations are all a mix needs. Reconnecting adds interleavings, so
  `mqtt_any_order`, which also checks liveness, has the smaller numbers.
- *Sockets.* Three addresses give a first, a middle and a last; every mix of
  outcomes is an initial state.
- *The loop.* `MaxLag` (2 ticks, a millisecond, or 1 for `loop_async`) bounds how
  long the loop's time can be behind; a one-shot of one or two ticks can then be
  overtaken. Two sends to one async are what merging needs.
- *JSON.* Capacities of 4 and 8 hold 2 and 5 items: four names grow the table
  once. Hashes 0, 3 and 7 collide in both sizes, and 3 and 7 wrap round their ends.
- *JSON texts.* `MAX_NESTING` is 5 where the code has 2048; only its comparison with
  the depth matters, and the samples go to 5, 6 and 7. A buffer of 12 is filled exactly
  by one of the texts that are made for it and missed by one character by another. A double
  keeps 2 digits, so that 171 in a prompt and -171 in a sample are not kept. One answer
  begins with the mark of a text's byte order, which `json_parse_string` skips (`Start`). Pieces of 30
  symbols cut the two long answers, and of 100 leave them whole.
  `MaxDepth` 1 is a handler that posts; deeper ones repeat what it does to the same
  document. `Compose` happens between requests, since its buffer is read by the next.
- *PWM.* TLC's integers are too small for 10^9 * 100, so a second is 10^6 ns and a
  word 2^22; 10^6 * 100 overflows it 23 times, as 10^9 * 100 overflows 2^32.
- *Symmetry* is used for thread handles, registrations, names and descriptors,
  only in runs without liveness, and where nothing but equality is asked of them.
- `MaxOpens`, `MaxPackets`, `MaxSends`, `MaxDepth` and `MaxLag` are the bounds in
  guards; the code has none of them.

`CHECK_DEADLOCK FALSE` is set where the system may really stop: a loop that has
ended and an application that makes no more calls.

## 4. Fairness

- *MQTT* (`Fairness` in `DxMqttProperties`). Both threads are scheduled: weak
  fairness of each step of a call that has begun and of the background thread. The
  application never *has* to call anything. Requests and DISCONNECT take the
  client's mutex, which the background thread takes over and over: they get strong
  fairness, because `client_refresher` sleeps 100 ms (line 121) between two
  `mqtt_sync`, so that the mutex is free almost all of the time. The network has
  no fairness: peers need not answer. The application's handler returns.
- *The loop* (`FairSpec` of `DxEventLoop`). The loop's steps, callbacks returning,
  the clock, and the second half of a `dx_asyncSend`, a `dx_terminate` or a signal
  handler that has begun. Nobody has to call anything.
- *The network check* (`FairSpec` of `DxNetwork`). As above, and strong fairness of
  `dx_eventLoopRun` and of the application's handler returning, because the main
  thread may call `dx_isNetworkConnected` any number of times before it does so;
  and a mutex that is fair. A call's weak fairness includes its steps in
  `dx_getHttpData`: its transfer has a timeout.
- *Sockets*: weak fairness of the call's steps; `select` has a timeout.

`TimerEndsTermination` and `CacheExpires` hold only with an active timer that
wakes the loop, and say so: see section 6 for what happens without.

## 5. What is proved

TLAPS checks these for every value of the constants, under the assumptions named
`...Assumption` in the modules, which only give constants their types. The proofs
hold for any number of descriptors, threads, addresses, bindings and so on, and
`DxMqtt`'s for both disciplines of the caller where no other assumption is named.

| theorem | says | argument |
|---|---|---|
| `TypeCorrect`, `TypeSafe` (`DxMqttProofs`) | `[]TypeOK` | needs one more conjunct: a request in progress is one of `Requests` |
| `ResourceInv`, with `SocketsOwned`, `OneDaemonAlways`, `Served` | `[]SocketOwned`, `[]OneDaemon`, `[]ServedWhenInitialized` | the inductive invariant is `TypeInv /\ SocketInv /\ ThreadInv`. The properties by themselves are not inductive: whether a step of a call may open or close depends on where the call is, so `SocketPc` says for each place whether `_sockfd` is set and whether the `mqtt_client` has the same one, and `ThreadInv` what the flags are there. The background thread touches none of those (`DaemonFrame`, `NetworkFrame`), so only the steps of the calls need an argument |
| `SessionsKept`, with `QuietAfterwards`, `HealthyIsConnected`, `DeliversToItsOwner`, `CarriesWhatWasAsked` | `[]QuietWhenDown`, `[]HealthyMeansConnected`, `[]CallbackMatches`, `[]WireFaithful`, if `ReconnectAllowed = FALSE` | on top of `ResourceInv`. `ThreadInSession`: the thread exists between the end of `dx_mqttConnect` and the join of `dx_mqttDisconnect` only, and works only in a session, because it waits for `_is_connected`; so whatever it may disturb is out of its reach while a session is prepared. `LossHasCause`: it takes `_is_connected` away only after an error, which `mqtt_init` alone resets. `OneRegistration` and `Delivery`: the handler and its context are both stored before the thread can read them. `Carried`: what was accepted is what the wire carried followed by what is queued, for as long as the connection is up |
| `ImplementsSessions` | `ImplementsSession`, if `ReconnectAllowed = FALSE` | with the same invariant, each step of the code maps to a step of `MqttSession` or to a stutter (`AppImplements`, `DaemonImplements`): `SetConnected` opens, a packet queued without an error is accepted, an error loses the session, `CleanupFlags` closes it |
| `NoLeak`, `FirstAnswer` (`OpenNbSocketProofs`) | `[]NothingLeaks`, `[]FirstGoodAddress` | `IInv` adds how far the attempt for the present address has come, which calls have succeeded for it, and that every address before it failed |
| `StoppedTimersIdle`, `OneShotsInTime` (`DxEventLoopProofs`) | `[]StoppedIsIdle`, `OneShotNotEarly` | the loop's clock may lag the real one, by no more than `MaxLag`. For a one-shot timer that waits, what is owed to its caller, plus what the clock lags now, is no more than what the timer has left on the loop's clock (`Promised`); a timer set from a callback that ran long starts on a clock that lags |
| `SetsStartedOrNot` | `AllOrNone` | the first binding that does not start is the least one (from the well-foundedness of the naturals), and what was started before it is stopped; what comes after it is not touched, so it runs if it ran before |
| `CodesBeforeStops` | `CodeBeforeStop`, if 0 is no code anyone terminates with | who is about to stop the loop has written its code, and no write takes a code back to 0 |
| `EventLoopTypes` | `[]TypeOK` of `DxEventLoop` | given `TimesFit`, that the bound on time covers the bindings' own; what a thread is about to send is an async that was initialised |
| `CacheAlwaysEnds` (`DxNetworkProofs`) | `[]CacheHasAnEnd` | the handle is initialised once, under the mutex, before any thread can arm it (`Starting`, `StartedFirst`): otherwise `dx_timerStart` by a second thread could stop a timer that runs |
| `NetworkTypes` | `[]TypeOK` of `DxNetwork` and its loop | the time to block is some active timer's |
| `LibcurlIsReady` | `[]NoTransferBeforeInit` | inductive with one more fact: the flag, once set, and every thread that is about to set it, come after a call that returned |
| `Counted`, `NoneLost` (`DxGpioProofs`) | `[]ChipsCounted`, `[]NoHandleLost` | two chips never have the same handle; the rest is cardinalities of the sets of a chip's holders (from `FiniteSetTheorems`) |
| `GpioTypes`, `SocketTypes` | `[]TypeOK` of `DxGpio` and `OpenNbSocket` | part of the invariants above |
| `OwnDescriptors`, `LeaksAreRefused` (`DxApplibsProofs`) | `[]DescriptorsOwned`, `[]OnlyRefusedLeak` | inductive together: a close removes the descriptors of what counts as opened, `DescriptorsOwned` says that those are nobody else's, and so what `refused` remembers is never among them |
| `PulsesFit`, `ApplibsTypes` | `[]PulseFits`, `[]TypeOK` of `DxApplibs` | for any word length and any settings: a remainder is not larger than the product it is taken of (`Remainder`, `PartOf`, `Hundredth`), so what overflows only shortens the pulse |
| `AlwaysKept`, with `ObjectTypes`, `CellsAndItems`, `EnumeratedIsFound`, `ValuesHeldOnce` (`JsonObjectProofs`) | `[]TypeOK`, `[]CellsMatchItems`, `[]EnumeratesWhatIsFound`, `[]HoldsItsValues` of `JsonObject` | for any names, any function that hashes them and any number of items. `Well`: cells and items name each other, a name is there once, and no cell from an item's home to its own is empty (`Reached`); that is why probing finds it (`ProbeFinds`). One cell is always empty, by the pigeonhole principle (`RoomLeft`), so a new name has a place and the visits of a removal end. Rehashing adds the items one by one (`RehashWell`). Removal is the hard one: `Trail` is the way of the empty cell, `TrailFilled` says that each cell it leaves gets exactly one item, and `WayKept` that where it comes to rest it is on no item's way from home |
| `TableIsMap` | `ImplementsMap` | with the same invariant each call maps to a step of `JsonMap` or to a stutter (`StepKeeps`); growing changes the table and not the map (`SameMap`) |
| `ReadsAsWritten` (`DxOpenAiProofs`) | `ReadAsWritten(t)` of every text: `parse_value` reads it to its end exactly when the grammar has a value for it, as that value, and the grammar then has no other | `FoundAsWritten`, by the levels. `ValueReads`: whatever the grammar gives a part of the text, the parser finds at its beginning, and stops before the blanks at its end (complete). `ValueMeans`: whatever the parser finds from one place to another, the grammar gives that part (sound). Each rests on the same of the level below for what is between brackets (`AnyReads`, `AnyMeans`), with `MAX_NESTING` counted alike on both sides. The two loops are treated as one that puts items into a list: from a comma on, what it will have read in the end is what one of the grammar's lists has (`ListRead`, `ListMeans`), by induction from the back of the text; `LoopEnds` counts commas to show that it has turns enough. In strings the place where `skip_quotes` stops is the only one where a spelling can end (`SkipQuotesIs`, `SpeltRead`). A number is the exception both statements name: it is read whole only if no digit follows, and of a sign without digits the parser makes 0 and leaves the sign where it is, so that nothing else is read after it |
| `ReadsWritten` | `[]ReadsWhatIsWritten` | from `ReadsAsWritten`: the samples and, by `TypeCorrect`, the buffer are texts |
| `RoundTrip` | what `json_serialize_to_string` writes of any document, `json_parse_string` reads to its end as that document | the grammar gives that text the document, level by level (`TextsWritten`, from `StringTight`, `ArrayWritten` and `ObjectWritten`); so the parser reads it as that, by `FoundAsWritten` |
| `ReadEarly` | a beginning of a text that is read as a value, unless it is a number, is read as the value of the whole | `Starts` relates the two texts. The grammar gives the part that was read the value, by soundness in the shorter text; the longer has the same part, and completeness there reads it |
| `PostsConversation` | `[]PostsThisConversation`, which speaks of prompts with at most one message of the user and one of the assistant | the inductive invariant is `TypeOK /\ RequestInv /\ PromptInv`. The property is about the text; `PromptInv` is about the document in the context, between requests too: it `Keeps` the prompt's names in their order, and taking a question and an answer out of its messages leaves the prompt's own. That is so of the prompt itself, which has one of each at most (`OwnIs`), and of what a request makes of it, where the first message of a role is the one that request put there (`DelAppended`). So one more request `Keeps` it again (`KeepsPrepared`), and by `RoundTrip` the text reads as the document (`PostedIs`) |
| `HearsAnswer` | `[]HearsTheAnswer` | `RequestInv`: requests in each other wait for one answer at a time (`IsStack`), what has been collected followed by what is to come is the answer (`Collects`), and the handler has heard all or nothing (`Heard`). That half an answer says nothing, or as much as all of it, is `FoundEarly`: something is found in an object only, so `ReadEarly` applies |
| `SerializesLast` | `[]SerializesLastValues` | `BufferInv`: the buffer is the text of the triples. After n triples the object has what `IsObjectOf` says of the first n (`SerializedObject`, by `ObjectStep`); it is a document, which `RoundTrip` reads back |
| `TypeCorrect` (`DxOpenAiProofs`) | `[]TypeOK` of `DxOpenAiFunctions` | with `RequestInv`. The levels are what matters: the parser makes documents within `MAX_NESTING` (`FoundTyped`), and the messages of a request are no deeper than three |

`DxOpenAiProofs` assumes that `MAX_NESTING` is at least 3 (the code has 2048), that what
the parser and the serialiser write is among the `Symbols`, that files, questions,
answers and triples are texts of these, and that `NULL` and the mark of memory nothing was written to
are none. What an answer says is what is found in the whole of it (`AnswersAssumption`);
in the run the two are written down separately, and TLC compares them.

Every safety property of the runs, every action property and both refinements have a
theorem. Only model-checked are the liveness properties: the prover does not do fairness.

The prover has no induction over data, and it does not need to where a recursive
function has an interval for its domain: the levels of a document, the turns of a loop,
the places of a text, the triples of a call, the visits of a removal. `LeastOf` and
`Inductive` derive from the well-foundedness of the naturals that what holds at the first
and is handed on holds of all; `ValuesExist`, `FoundExists`, `ReadExists` and their like
show that each such function exists, which is what its equations rest on.

## 6. Disagreements between the code and what is said of it

Two are shown by runs that end in a counterexample.

- `doc_stale_loss`. `dx_isMqttConnected` is "True if connected, false otherwise"
  (`include/dx_mqtt.h:89`). The background thread looks at `_client.error`
  (`dx_mqtt.c:111`) and clears `_is_connected` (line 114) in two steps; a
  `dx_mqttConnect` that replaces the connection, without `dx_mqttDisconnect` before it,
  can fit in between. The new session is up, accepted by the broker and without an
  error, and stays reported as lost; the thread no longer serves it. With a
  `dx_mqttDisconnect` first this cannot happen (`HealthyMeansConnected`).
- `doc_terminate`. "Graceful termination" (`dx_terminate.c:16`, `:60`) only sets
  libuv's stop flag: `uv_stop` does not wake a loop that is blocked. With no timer
  active and nothing sent, the application does not end. With an active timer it
  does (`TimerEndsTermination`). `uv_async_send` is what wakes a loop.

Others were read off the code and are in the models, not in runs of their own:

- The retain flag of a message is not passed on: `dx_mqttPublish` (line 290) gives
  the library the QoS only (`PublishPacket`).
- `dx_mqttConnect` returns true when CONNECT is queued; that the broker refuses it
  is found by the background thread later. `connack` is in the model for this.
- A reconnect without disconnect stores the new handler and the new context one
  after the other while the thread may be between reading the two, in either order
  (`StoreHandler`, `StoreContext`, `CallbackHasHandler`, `CallbackReadsHandler`,
  `CallbackReadsContext`): a handler can be called with the context of another call.
  No property forbids that, since nothing says it cannot; and packets the thread was
  about to send go to the new socket.
- A reconnect that fails leaves `_is_initialized` false with the thread still
  there; `dx_mqttDisconnect` then returns at once (line 415), and the thread stays
  until the next successful session is ended.
- `dx_mqttDisconnect` stops the thread right after it queued DISCONNECT, which may
  then never be sent.
- `dx_mqttPublish` on a client that is not initialised or not connected returns
  false and sets no error, so `dx_mqttGetLastError` says nothing of it.
- `del_existing_msgs` (`dx_openai_functions.c:131`) removes the first message of a
  role, where the comment at line 250 speaks of the existing messages: of a prompt with
  two user messages the first request keeps the second, and the next request removes
  that and keeps the question of the first. `PostsThisConversation` is about prompts
  with one of each at most.
- `dx_pwmSetDutyCycle` (`dx_pwm.c:17`) multiplies in 32 bits: below about 24 Hz the
  pulse is not the percentage asked for. It still fits the period (`PulseFits`).
- parson, and so this library, takes a comma before a closing bracket, `-` alone as 0,
  and anything after the value it was asked for (`Onward`, `parse_number_value`,
  `json_parse_string`). An empty file counts as one that cannot be read.
- A string that holds `\u0000` is kept with it, but the callers see it as a C string that
  ends there: the handler of a request hears the part before it (`CString`).
- A question or an answer that is not UTF-8 is posted as a message without content,
  since no result is read (`NewMessage`).
- `dx_getHttpData` and the OpenAI request give out memory of `malloc` that was never
  written when an answer has no body (`Unwritten`): the first is only freed, the second is
  parsed. What is found there is whatever a text of `Leftovers` says, any of them; in the
  run that is nothing, or an answer that was freed before, which the handler then hears
  again. `HearsTheAnswer` leaves this case out, because it does not hold of it.
- An integer of more digits than a double keeps is not the one that was written, and a
  prompt that has one is posted with another (`Rounded`, `parse_number_value`).
- An inverted pin of `rx_gpio.c` inverts its initial state in the binding, so every
  second open starts at the other level (`InvertInitialState`).

## 7. Assumptions about code that is not here

MQTT-C (an empty submodule), libuv, libgpiod, libcurl, the applibs and the kernel
are modelled from the calls the code makes to them.

- *MQTT-C*: API calls queue; `mqtt_sync` receives and sends, all under the mutex
  of the client; an error stays until `mqtt_init`; after a full buffer the library
  still sends, after a failed socket it does not.
- The application's MQTT handler does not itself call `dx_mqtt*`: publishing from
  it would lock the mutex `mqtt_sync` holds, and disconnecting would make the
  thread join itself. Neither is documented as allowed.
- One application thread calls `dx_mqtt*`: the code has no lock for two.
- *libuv*: timers overdue together fire in any order; a poll that a signal
  interrupts goes on; `uv_timer_*` are called on the loop's thread, except where
  `dx_isNetworkConnected` calls them on its caller's, which the code does. There
  each call is taken as one step: a data race inside libuv is not modelled.
- *libcurl* is 7.84 or later, whose `curl_global_init` may run on two threads at once.
  It hands over an answer in pieces of any size in their order, and may end a transfer
  early without an error.
- The application may make a message with `dx_jsonSerialize` between requests; a
  handler that is NULL is one that returns at once.
- *parson's objects* keep their names in the order in which they were set and find each:
  `JsonText` takes that from what `JsonObject` is shown to do. The library removes
  nothing from an object, so the order `json_object_remove` leaves does not arise.
- *libgpiod and the kernel*: a line is given to one request at a time; any call
  that can fail may fail.
- *libuv's asyncs*: `uv_async_init` may fail, and `dx_asyncInit` then terminates.
  `uv_async_send` cannot, on a handle that is initialised: it writes to the loop's own
  descriptor and aborts on anything it does not expect. So the branch of `dx_asyncSend`
  that terminates (`dx_async.c:24`) is not in `AsyncSend`, and an async that could not be
  initialised is not sent to.
- *Doubles*: of an integer the first `Precision` digits are kept (15 in a double) and the
  rest become 0. In which digits a longer integer really differs is `strtod`'s; that it
  differs, and that `%1.17g` and `strtod` keep it from then on, is what counts here.
- A binding passed to the GPIO, I2C or PWM calls is not NULL.

## 8. What is not modelled

- Reading and writing GPIO lines through libgpiod: no state of the program changes.
- `dx_timerEventLoopStop`, which frees a loop the process is done with; the clocks.
- What the answer of `dx_getHttpData` says; host name, addresses, logging: input and
  output with no state a property could be about.
- Of `parson.c`, what nothing in the library calls: comments, pretty printing, setting
  by dotted names, deep copies, comparison and validation. Fractions and exponents of
  numbers: they are `strtod`'s and `sprintf`'s.
- A value after a type that is none of the enumeration: `dx_jsonSerialize` takes the
  name and no value for it (`Item`), so such a triple has none (`IsTriple`). With one,
  everything after it would be read as something else, which has no defined meaning.
- `dx_openai.c`: commented out.
- The text of `_last_error`: only whether there is one.
- Memory: what the JSON library owns, beyond which values an object holds.

## 9. Plan

The order followed so far puts the MQTT client first, since it has the threads, then
its socket, the loop and the parts on it, then the parts that share tables and
descriptors. What is left, in order:

1. *More of the system.* Line values in `DxGpio`; comments and deep copies in `JsonText`.
2. *Compositions.* `OpenNbSocket` as the `OpenSocket` step of `DxMqtt`, by
   refinement; the application's use of the MQTT client from a timer of the loop.
3. *Proofs.* The safety parts of the liveness properties, such as that a handler of an
   async, once it runs, sees the value sent last.
