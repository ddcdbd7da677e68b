# Verification of the NetworkActiv IP filtering plugin

The plugin is a Windows DLL. A host program calls `IsIPAllowed(address)`; the plugin asks every
server named in its settings file about the address over HTTP, looks up values in the JSON each
of them returns, compares the values with lists, and answers true or false. The code is in
`src/NA_Plugin_IPFiltering`; everything under `src/packages` is a vendored copy of the headers of
Microsoft's cpprestsdk, of which the plugin uses the HTTP client, its streams and its tasks.

## Inventory

| Component | Code | State | Operations | What is hard |
|---|---|---|---|---|
| IP check | `PluginBase.cpp` 85-188 | locals of the call (`ChecksRemaining`, `FailCount`, `PassCount`), `Reason` on the heap, one task chain per server | send, respond, read the body, filter, count, poll, decide | continuations on other threads update the locals of the caller without a lock, and may do so after the caller has returned |
| Filter evaluation | `PluginBase.cpp` 126-157 | none | one filter against one value | order and number of counter updates |
| Settings loading | `NA_Plugin_IPFiltering.cpp` 130-352 | `HasLoaded`, `Servers` and their `Filters`, `WebClient` | `Load`, once, when the DLL is loaded | entries with defects are skipped one by one; an exception in the middle keeps what was read before; a conversion without memory loses a text and goes on |
| Path lookup | `NA_Plugin_IPFiltering.cpp` 377-428 | a cursor in a JSON document | one step per path segment, rendering of the value | absent members, indices into objects, names into arrays |
| URL handling | `NA_Plugin_IPFiltering.cpp` 210-234, `PluginBase.cpp` 103-108 | `URL`, `Protocol`, `Domain` of a server | split at load time, recombine at call time | URLs without a protocol, addresses with a scope ID |
| Text helpers | `NA_Plugin_IPFiltering.cpp` 430-454, 576-610 | none | `StringSplit`, `ReplaceOne`, `ReplaceAll` | boundaries |
| Settings file | `NA_Plugin_IPFiltering.cpp` 456-566 | the file, a buffer | size, open, read, decode | the size is asked for before the file is opened, others may write to it while it is read, and whether the rest was read is not asked |
| Plugin start and calls | `NA_Plugin_IPFiltering.cpp` 115-128, `PluginBase.cpp` 73-86 | the global `Settings` | construct, call | what one component leaves behind half done, the next one starts from |
| Debug log | `NA_Plugin_IPFiltering.cpp` 46-105 | the log file, a static buffer | `DoLogEntry` from any thread of any process | concurrent writers, entries that get lost, a crash between two writes |
| Exports | `PluginBase.cpp` 13-81 | none | constants, message boxes | nothing |
| Response of the HTTP client | cpprestsdk: `http_client_impl.h`, `producerconsumerstream.h`, `astreambuf.h`, `streams.h`, `pplxtasks.h` | the context of a request, the buffer of its body, the state of tasks | complete headers, write, read, close, continue, pass an exception on | a response before or after its continuation, reads of other sizes than the writes, a failure while the body is read |

The exports call the IP check. The IP check reads the global `Settings` that loading filled,
sends requests through the SDK, whose threads run its continuations, evaluates filters on values
the path lookup finds, and logs. Loading reads the file through the file component and splits
URLs with the text helpers.

What makes each component correct:

- IP check: a call that returns true was approved by every filter of every server, from answers
  to this very call. A call that returns false has a reason of its own. A failure that was
  counted is not lost. The caller does not wait for ever, and does not decide early. Nothing
  writes through a pointer to a frame that has been given back. The process survives.
- Filter evaluation: a failure is counted exactly for the values the filter does not permit.
- Settings loading: a file without defects is in force as it was written, except for texts that
  are lost for lack of memory; a file with defects puts nothing in force that it does not state;
  loading that fails leaves the plugin blocking.
- Path lookup: a value that is there is found; one that is not is never taken for another; no
  read lies outside a JSON value.
- URL handling: the text recombined at call time is the path and query of the URL, with the
  address in place of `$IPAddress`.
- Text helpers: splitting and joining with the same separator gives back the text; replacing
  replaces what is found, once or everywhere, and nothing else.
- Settings file: the text is the whole content of one version of the file, or there is no text; if
  a read fails, what is returned is at least no document that no version holds.
- Plugin start and calls: no call is allowed by settings that were not read, nor by fewer
  servers or filters than the file lists.
- Debug log: entries are whole or lost, never mixed, each has its own time, and the times are in order
  as long as the clock is not set back.
- Response: the filters see the whole body, once, or the request fails; one of the two happens.

## Modules

| Module | What it is |
|---|---|
| `FilterEval` | types of filters, texts and documents; `Tally`, the loop body over one filter, and `Permits`, its reference definition |
| `IPCheck` | `IsIPAllowedInternal`: any number of calls, each with the caller's thread and one chain of continuations per server |
| `FailClosed` | what the plugin promises its host, without threads, counters or memory; `IPCheck` is shown to implement it in one environment and seen to miss it in others |
| `SettingsLoad` | `SettingsBase::Load` |
| `SettingsFile` | `ReadAllText`, beside a program that saves the file |
| `Plugin` | composes `SettingsFile`, `SettingsLoad` and `IPCheck`: from the file to the verdict |
| `JsonPath` | `GetValueFromPath` and `GetValueString` |
| `TextHelpers` | `Find`, `Trim`, `StringSplit`, `ReplaceOne`, `ReplaceAll` on sequences of symbols |
| `ServerUrl` | the split of a URL at loading and what each call makes of it |
| `DebugLog` | `DoLogEntry`, by threads of several processes |
| `LogBook` | what the log promises its reader; `DebugLog` is shown to implement it |
| `StreamBuffer` | the producer-consumer buffer of the SDK: an operator per hold of its lock |
| `TaskLibrary` | tasks, continuations and exceptions of the SDK: an operator per hold of a task's lock |
| `Response` | one request from the plugin's two lambdas down to the network: composes the two above with the context of the request and `read_to_end` |
| `Exchange` | what `IPCheck` takes for granted of a request; `Response` is shown to implement it |
| `MCIPCheck`, `MCSettingsLoad`, `MCPlugin`, `MCJsonPath`, `MCServerUrl`, `MCDebugLog`, `MCResponse` | the small instances that TLC checks |
| `IPCheck_proof` | proofs about `IPCheck` in every environment |
| `IPCheckPrompt_proof` | proofs about `IPCheck` when answers are in time |
| `SettingsLoad_proof` | lemmas and proofs about `SettingsLoad` |
| `Plugin_proof` | proofs about `SettingsFile`, and about `Plugin` from those about its parts |
| `JsonPath_proof` | proofs about `JsonPath` |
| `ServerUrl_proof` | proofs about `ServerUrl`, `ReplaceOne`, `StringSplit` and `ReplaceAll` |
| `DebugLog_proof` | proofs about `DebugLog`, and that it implements `LogBook` |
| `Response_proof` | lemmas about the buffer and the tasks, proofs about `Response`, and that it implements `Exchange` |

Definitions marked as mutants in a comment are not part of a specification. Each is a plausible
mistake in the definition it stands next to, and shows that a property notices that mistake.

### IPCheck

State of the code and of the model:

| Code | Model |
|---|---|
| global `Settings`, constant after the DLL is loaded | `Settings` |
| locals of a call on the stack | `frame[c]`, an address, and `mem[frame[c]]`, the counters that lie there |
| `Reason` on the heap | `Reason[c]`: not yet made, live or deleted |
| the two loop counters, where the caller's thread is | `next[c]`, `polls[c]`, `pc[c]` |
| what the call returns, or that an exception leaves it | `verdict[c]`, `pc[c] = "thrown"` |
| request and continuations for one server | `task[c][s]`, `at`, `todo`, `reg`, `InDoc` |
| the host process | `running` |

`PassCount` is left out: nothing reads it. `todo` holds the counter updates one filter makes;
`NextFilter` computes them and later steps make them one at a time.

Memory is modelled as the code uses it. `++` and `--` through the captured pointers are a read
and a write, so two tasks may lose an update. A frame goes back to the pool when its call ends,
and another call may get it; a continuation that is still running keeps its pointer. What the
language leaves undefined, using a dead frame, appending to a string that is deleted or that
another thread is using, has two outcomes: nothing is noticed, or the process ends (`Survival`).
Two things are left out. A dead frame is only ever reused by another call of this function, not
by other code of the host. A counter is read and written whole, although a 32-bit build does so in two
halves; the upper half of a counter is zero unless a stale decrement has made it negative.

The requests belong to cpprestsdk. The model has what the plugin relies on: a request is
answered or it fails, at any time or never; continuations run on other threads; an exception of
a task that nobody observes ends the process when the task library frees it
(`TerminateUnobserved`; the destructor of the holder is in `pplxtasks.h` 949-959 of the vendored
headers). `Response` is the model of that side.

Two constants choose the environment. `Faults` says what may fail. `Prompt` says that every
answer to a call is processed before that call's last sleep ends, so a run with `Prompt`
shows how the code behaves when its ten seconds are always enough. The runs whose names begin
with `late` have `Prompt = FALSE`.

### SettingsLoad

A settings file is a tree in which each member is absent, of the wrong type, or right. `pc` says which
of the nested loops the loading is in; `x`, `y` and `o` are the loop variables of the source. An
exception may occur at every step when `NoMemory` is set, and at the construction of a client for a URL
in `BadUrls` in any case; both end in the `catch` around all loops. Memory may lack in a second way:
`UTF8ToUTF16`, through which every URL, path and value goes, returns the empty text when its `malloc`
fails, and the loading goes on. `Converted` is what a text may become; a lost URL is among those no
client can be built for. The empty text may also be what the file says, so `Lost` is a filter that may
have lost a text. The server enters the list before its client is built, as in line 208.

User name and password only count as present or not (so it is not seen that their conversion may lose
them), and the text of a URL is opaque; `ServerUrl` is about the text. The model is of a release
build, in which rapidjson's assertions are compiled out.

### SettingsFile

A file is a sequence of bytes, a text one of characters; a character is one byte in UTF-8, and in
UTF-16 that byte and a zero in the order of the mark. `step` says how far `ReadAllText` is: it
asks for the size, opens, reads two bytes, reads the rest. Between any two of these another
program may save the file (`Save`), which the sharing mode of `CreateFile` allows; only deleting
an open file is impossible. The rest is read up to the size that was asked for, so a file that
has become shorter leaves memory as it was ("junk") in the buffer, and a file that has become
longer is cut. `Failures` says what may fail: a read, which then stops at any byte, and the search for
the size (`disk`), or `malloc`, for the buffer and in the conversion from UTF-8 (`memory`). The code asks
only whether the first two bytes have been read. A size that does not fit an `int` of `Width`
bits, or is below that of the mark, overruns the buffer (`Overrun`): the process ends, or the text is any
beginning of the file, with or without memory as it was behind it.

### Plugin

The constructor of the global `Settings` runs `SettingsFile`, then `SettingsLoad`, and then the
host calls (`Start`). The two halves meet in `Parse`: `Meanings` relates the texts that are JSON
to the trees of `SettingsLoad`; any other text has no members, or, as a root that is no object is
searched all the same, ends the process (`NoObject`). `Parse` also converts the text to UTF-8, which
without memory leaves an empty document. `IPCheck` is an instance
whose `Settings` is the mapping `InForce` of what loading has left, so that it starts in every
state that loading ends in, also one an exception has caused.

### ServerUrl and TextHelpers

A text is a sequence of symbols. The protocols and the marker have one for each character, so that
cutting a protocol off where it is not takes as many characters as in the code; within an
address, which is never cut, a symbol may stand for more. The client throws for a domain without
characters or with ones that may not stand in a host, the constructor of `uri` for a path with ones
that may not stand in it; both are parts of the SDK that are not in the repository, and `Illegal` is all
that is assumed of them. (So a bracket in an authority counts as illegal.)

A call does not send `PathText` as it is, but `uri_builder(uri(PathText)).to_string()`, and the client
combines that with its own URI. The operators from `HasScheme` to `Resource` say what comes of it,
after the components that `base_uri.h` 40-104 names: what precedes a colon that no slash precedes is a
scheme, which is refused or stripped; two slashes begin an authority, which is left out; an empty
path becomes a slash; an empty query is left out. `UrlAssumption` keeps two things away that are not
modelled: fragments, and a query where the code looks for the domain.

### DebugLog

A call of `DoLogEntry` opens the file, goes to its end, writes the parts of its entry one by one, and
closes it. The code has five calls of `WriteFile`, the second of which writes the time: `Writes`. Each
write may fail, which the code ignores, and a process may end at any point and close its files
(`Crash`). The file keeps for each part which call wrote it, and for the time which call formatted it in
the static buffer of its process. The sharing mode of `CreateFile` is `CanOpen`: the only thing that
keeps the writers apart. Under the mapping to `LogBook` the book says of each place in the file at which
an entry ends whose entry it is.

### StreamBuffer, TaskLibrary and Response

The headers of the SDK are in the repository, the code they are compiled with
(`http_client_winhttp.cpp`, `http_msg.cpp`) is not: what the network's thread does with the
buffer is modelled from the helpers of `http_client_impl.h` and the interface of the buffer.

| Code | Model |
|---|---|
| blocks, counters and queue of `basic_producer_consumer_buffer` | `buffer`, with the names of the source |
| a `_Task_impl` with `_M_TaskState` and `_M_Continuations` | `tasks.state`, `tasks.continuations`; `tasks.ended` and `tasks.scheduled` are what its thread or the pool has still to do |
| the calling thread in `request().then(...)` | `caller` |
| the network's thread: headers, chunks, `close` | `network` |
| the first lambda of the plugin | `first` |
| a turn of the loop of `read_to_end` | `turn`, `event`, `outbuf`, `checked` |
| the plugin's `ReceiveBuffer` | `target` |

A turn that has read something may also end the loop with an exception, when the target cannot take it
(`streams.h` 979-981); `putn_nocopy`, its continuation and `sync` are one step (`Copy`), since the
target is memory of the plugin that nobody else looks at. Operations that hold a lock are one step, all
others are separate: `close` notes that nothing more will be written before it takes the lock, `getn`
queues a read before the task of its event exists, `then` may find a task that is just ending. The
mapping to `Exchange` says which stage of a task in `IPCheck` a state of all this is, so the assumptions
of `IPCheck` about the SDK (`Respond`, `ReceiveBody`, `Fail`, `TerminateUnobserved`) are checked against
the SDK.

### JsonPath

The steps of the walk are actions. A segment is a number or a name. An index is converted with the width of
an `int` (`Width` bits): what `sscanf_s` does beyond that range is undefined, and the model has
both the largest value and the low bits. An object read as an array, or the opposite, is outside
what rapidjson defines, so `Misread` may end in any text or in the end of the process. An integer
is converted as in the code, so an unsigned 64-bit number may come out negative.

## Runs

| Run | Instance | Properties | What it shows |
|---|---|---|---|
| `prompt_servers` | 1 call; 3 servers with 1, 2 and 1 filters, or 2 of which one lacks a client, or 1 without filters, or no settings; 3 polls; all faults | `TypeOK`, `AllowedByEveryServer`, `WaitCoversOutstanding`, `NoDanglingContinuation`, `BlockedWithCause`, `PromiseKept` | races between the tasks of a call, and requests that fail, neither lose a denial nor end the wait early; the call implements `FailClosed` |
| `late_ends` | 2 calls, 1 frame; 1 server, or 2 of which one rejects an address; 1 poll; connections fail | `CountedFailureBlocks`, `EveryCallEnds` | silent servers do not hold the caller's thread, and a stale continuation cannot make a call forget a failure it has counted |
| `loading` | a settings file in each encoding, up to 2 saves by another program; failing reads; up to 2 servers with up to 3 filters and defects of every kind at every level; exceptions and lost texts anywhere; then 1 call | `TypeOK`, `CleanIsComplete`, `NothingInvented`, `OnlyLastLacksClient`, `SettledIsWhole`, `OnlySaved`, `AllowedAsStated`, `UnreadBlocks` | from the file to the verdict, what is in force is what the file states but for lost texts, and what was not read allows nothing |
| `lookup` | documents of two levels, paths of up to three segments, 3-bit index | `TypeOK`, `PresentIsFound`, `AbsentIsDenied` | the walk finds what the path denotes, and what is missing does not satisfy a filter that allows certain values only |
| `logging` | 3 calls of 2 processes, entries of 3 parts, a clock with 3 values, failing opens and writes, crashes | `TypeOK`, `NotMixed`, `OwnTime`, `InOrder`, `BookKept` | the sharing mode of the open alone keeps entries apart, and keeps the shared buffer of the time safe |
| `requests` | URLs with and without protocol, port, path, marker and blanks, with paths that look like a host or a scheme, and with queries; 4 addresses, one with a scope ID, one in brackets | `TypeOK`, `AsksAsConfigured`, `OnlyIllegalThrows`, `SplitsRightly`, `ReplacesFirst`, `ReplacesAll` | what loading, calling and the library do to a URL fits together, at the ends of texts too |
| `response` | a body of five characters in chunks of 1 to 3, blocks and reads of 2, a flush; the network fails, memory runs out | `TypeOK`, `NothingLost`, `ExchangeKept`, `EndReachesPlugin` | what `IPCheck` takes for granted of a request is what the SDK does, in every order of chunks, reads, close, exception and continuations |
| `late_timeout` | 1 call, 1 server, 3 polls | `TimeoutBlocks` (violated) | finding 1 |
| `late_blame` | 2 calls, 1 frame, 2 servers, 2 polls | `BlockedWithCause` (violated) | finding 2 |
| `refused` | 1 call, 1 server, connections fail | `ProcessSurvives` (violated) | finding 3 |
| `failed_load` | the settings of `loading` without their file, and without allocation failures | `FailedLoadBlocks` (violated) | finding 4 |
| `other_address` | the URLs of `requests` but for paths that look like a host, addresses without scope ID or brackets | `AddressIsAsked` (violated) | finding 5 |

The property comments in the modules say what each one means.

Bounds, and why they are enough for the questions asked:

- `MaxPolls` is 1000 in the code and 1 to 3 here. A turn of the loop only reads one counter, and
  between any two turns the tasks may take any number of steps, so one turn already separates
  "decided before the answers" from "after". Two or three let the bound and the break be reached
  in either order. The theorems hold for every `MaxPolls`.
- Two calls, where calls disturb each other: one whose continuation is late, one that gets its
  frame. A third call in the same frame only repeats the second. When answers are prompt one
  call is checked; that any number of them keep the promise is a theorem.
- Two servers are the fewest that race; three in `prompt_servers` let one lose its update to two
  others. A filter can add two failures or a failure and a pass at most, and `TwoSided` does so.
- Three texts: the one of a JSON null, one that a filter allows and one that it blocks.
- Two servers in a settings file show which one a step changes, and which one an exception
  leaves unfinished. The empty text is a URL, a path and a value of the instance, so each may be lost.
- Three versions of the settings file that begin with the same bytes, and one in UTF-16, whose joins
  with one another differ from each of them; two saves, one before and one after the open. `Width = 5`: the
  longest file does not fit a signed integer of five bits, the others do.
- Documents of two levels and paths of three segments include paths that end early, that are too
  long, and that change from objects to arrays and back. In them, `Width = 3`: 8 does not fit the
  index, and 40 does not fit a signed integer of twice the bits.
- `MaxTime = 2`, so that each of three entries may have a time of its own. Two calls share a
  process, and a third one belongs to another. `Writes = 3`, where the code makes five: one part before
  the time and one behind it. Four were checked too; the theorems hold for any number.
- Reads, blocks and chunks of different sizes, in both orders, and a body that is no multiple of
  any: a read may span blocks, end in one, or want more than there is. `MaxSyncs = 1` lets a read
  be answered with less than it asked for once.

No run uses symmetry. Where a system comes to rest it has an explicit step that changes nothing,
with the states spelled out, and deadlock stays checked, so a call that could neither proceed nor
end would be reported. Only `response` says `CHECK_DEADLOCK FALSE`: it has one request, and after
its end, or that of the process, nothing is left to do.

### Fairness

- `late_ends`: `FairSpec` says that the thread of a call that has begun is run
  again and again (`WF` on `Proceed`): the caller's thread belongs to the host, which is blocked
  in this function, and `Sleep(10)` returns. Nothing is assumed about servers, about the task
  library or about the host making a call. This suffices because the polling loop is bounded;
  that the bound is what makes the call end is what the mutant of `Counted` shows.
- `response`: the scheduler of the task library runs what is scheduled, and a thread that waits for
  nobody goes on (`WF` on `ThreadStep`, and on `Getn`, written as a change of `turn`, which is the
  same thing and quicker to evaluate). Nothing is assumed of the network: `EndReachesPlugin` begins
  where the network has ended with the request.

## Findings

1. *A timeout returns true* (`late_timeout`). The polling loop declares its own `x`
   (`PluginBase.cpp` 168); the `x` tested in line 173 is still 0. After 1000 sleeps without an
   answer `FailCount` decides, and it is 0. The comment in line 176 and the feature list
   (repository README, line 15) say that a timeout blocks.
2. *One call is blocked for the answer to another* (`late_blame`). A continuation that outlives
   its call increments `FailCount` through a pointer to a frame that a later call is using. In the
   trace a call returns at its timeout, a second one gets its frame, the continuation of the first
   counts a failure there, and the second is blocked before any of its servers has answered.
3. *A refused connection does not block* (`refused`). The exception of the failed request is
   observed by nobody, and the task library ends the process. The feature list says the address
   is blocked.
4. *Failed loading leaves settings in force* (`failed_load`). `HasLoaded` is set in line 155 and
   is not reset when an exception ends the loading.
5. *Another address is asked for* (`other_address`). For a URL without a protocol the default
   of `NA_Plugin_IPFiltering.h` line 50 stays, and `PluginBase.cpp` line 103 cuts the length of
   that default off a text that does not have it: seven characters of the path are lost.
   In the trace, of `a/$IPAddress` there is left `ress`, for which the library asks as `/ress`, whatever
   the address is. By the same count `host/json/$IPAddress` asks for `/IPAddress`.

Met while modelling, without a run of their own:

- With several servers, `Reason->Text` is appended to from several threads without a lock
  (`AppendIsAlone`); `ProcessSurvives` cannot hold then either.
- `new` throws where `PluginBase.cpp` 98 and 112 test for a null pointer; an exception leaves the
  function (`ThrowOutOfMemory`) or ends in a task (`Fail`).
- A continuation may touch a frame after its call has returned; finding 2 is a consequence.
- A missing member is not "Value not found": the walk returns the empty text, while the filter
  loop takes only the text of a null for a missing value. `AbsentIsDenied` therefore speaks of
  filters that allow certain values; one that only lists blocked values is passed.
- A segment of digits is taken for an index even where the value is an object, so a member
  with such a name cannot be addressed (`Misread`), although line 13 of the repository's README
  promises any value at any depth.
- A list of a filter that is no array ends the reading of that filter and leaves it in force
  without the limit it was to state (`WrongList`): no values are checked, and the address passes.
- Where `UTF8ToUTF16` has no memory (`NA_Plugin_IPFiltering.cpp` 515-517), a value of `allow_none` that
  is lost no longer blocks anything, and a filter whose path is lost looks up nothing; the settings count as
  loaded, although line 15 of the repository's README says of running out of memory that it blocks.
  `CleanIsComplete`, `NothingInvented` and `AllowedAsStated` say that nothing but the lost texts is
  different (`Converted`, `Lost`).
- The rest of the settings file is used whether or not it has been read (line 482 and 500).
  `SettledIsWhole` says what is returned then; `OnlySaved` that nothing is loaded from it that no version
  states.
- A path that begins with two slashes loses what the library takes for a host, a query that is empty is
  left out. `AsksAsConfigured` is about all other URLs with a protocol.
- A settings file whose list of servers is empty counts as loaded, and every call is allowed.
  Whether the text is JSON at all is not tested; one that is none has no members and blocks.
- `OnlySaved` is about saves that write a version at once, and rests on what the versions are
  made of (`WholeOrForeign`): a save between the reads can only put the first two bytes of one version before
  a part of another, and that part must be no JSON of its own. A save that is written in pieces, or
  two versions that begin differently and are JSON when joined, would be loaded as they are read.
- An entry of the log is lost when another thread or process has the file open (`OpenFails`);
  `LogBook` allows it. No doc promises that every entry is written.
- `ReplaceAll` is called by nobody in the plugin; `requests` checks it all the same.
- The comment at `pplxtasks.h` 2695-2700 says that of concurrent calls that set an event only the
  first succeeds. Setting it to an exception takes the lock twice, once for the exception and
  once for the tasks, so that a call of `set` that comes in between may be told that it has succeeded
  too. The network's thread makes both calls in sequence, and `Response` models that.
- `producerconsumerstream.h`: the comment in `_commit` says that no more is written to a
  block that was committed. `write` may use the room that is left in it; `NothingLost`
  shows that nothing is lost by it.

## Theorems

All proofs are checked by TLAPS, and hold for every value of the constants that satisfies the
named assumptions:

- `TextAssumption`, `CheckAssumption`, `LoadAssumption`, `LogAssumption`, `FileAssumption`,
  `CallsAssumption`: the constants have their types, there is at least one poll, an `int` has at
  least one bit, an entry at least two parts, `NoFrame` is no frame, and for a URL without characters no
  client can be built.
- `UrlAssumption`: URLs and addresses are sequences of symbols without a fragment, and no query begins
  before the path.
- `JsonAssumption`, `ValuesAssumption`: members and elements of values are values, a path has at
  least one segment, and the empty text is not that of a null.
- `VersionsAssumption`: files are sequences of bytes, and one that is there when the plugin is loaded and
  whose first two bytes are a mark of UTF-16 is one in UTF-16, of the characters the model has.
- `ResponseAssumption`, `BufferAssumption`: the body is a sequence of characters, and blocks, chunks and
  reads have at least one of them.
- `MeaningsAssumption`: the trees that texts stand for, that of a text without members, and that of no
  text, are those that the loading is modelled for.

*Filters.* `TallyDenies`: for every filter and every text, the loop body counts a failure exactly
when the reference definition does not permit the text. The later proofs use nothing else about it.

*The IP check in every environment* (`IPCheck_proof`). `TypeCorrect`, and `CountedFailureIsFinal`.
The property is an action property and refers to what a task did some steps ago, so it does not
follow from the types. The inductive invariant is `Recording`: types; no two live calls have the
same frame (`Alone`); and `Recorded`, that a live call of which some task has met a denial has
a positive `FailCount`, or that task still has to count the failure.
It is kept because any store to `FailCount`, by a task of this call, another one, or one that has
ended, writes a value above zero.

*The IP check when answers are in time* (`IPCheckPrompt_proof`), under `Gentle`: `Prompt`, and no
address makes a server's URI unbuildable, because an exception in the middle of sending leaves
continuations without a call. Faults may be any. The invariant grows in layers:

1. `Awaited` adds to `Recording` that the counter of a live call, and every register a decrement
   is about to be written from, is at least the number of its unfinished tasks: a lost decrement
   leaves it too high. Hence `WaitIsLongEnough` and `NothingDangles`.
2. `Judged` adds that a positive counter has its cause in a denial by a task of the same call,
   and that a verdict agrees with the answers. Hence `AllowedMeansApproved`, `BlockedMeansDenied`.
3. `PromiseImplemented`: under the mapping in `IPCheck`, in which a server has an opinion once its task
   is done, the initial states map to initial states of `FailClosed` and each step to one of its
   steps or to a stutter.

*Settings loading* (`SettingsLoad_proof`). `IInv` says where the cursor is: in a loop over a
server, that server is usable and the list is not empty; and so on inwards. With it:
`TypeCorrect`, with the bounds of all loops; `ClientsBuilt`; `NothingIsInvented`, whose invariant
also relates the last server and its last filter to the entries the cursor is at; and
`CleanFilesAreComplete`, whose invariant says that what is in force is a prefix of what the file
states, up to the values the innermost loop has passed. `LoadInv` is all of it together. Both allow for
lost texts: a text in force is one the file states or the empty one, and a list may be short of values
only if it has the empty one. If `NoMemory` is FALSE, `Loss` is empty and both say exactly
what is written.

*From the file to the verdict* (`Plugin_proof`). The life
of the plugin has three phases, each with the invariant of its part: `FileInv` for the
reading; `Loads`, that the loading is in its initial state before the text is parsed and satisfies
`LoadInv` from then on; and the invariants of the IP check, through an instance of
`IPCheckPrompt_proof` in which `Settings` is the mapping `InForce`. The steps that remain to be
shown are those where one phase hands over to the next (`Parse`, `Start`), and that no phase
disturbs the variables of another.

- `SettledFilesAreWhole`: a file that nobody saves, of a size that fits a buffer, is read to its last
  character, if nothing fails; if memory fails, it is that or no text, and if the disk fails, a beginning
  of the file with memory as it was behind it. `Unsaved` relates the size, the mark and the text to the
  file, which is still the one that was there at first.
- `OnlySavedSettingsLoad`, if `WholeOrForeign`: whatever is saved between the steps of the reading, what
  is loaded is what one version says that was on the disk meanwhile. The hypothesis is about the
  versions alone; TLC evaluates it for the instance (`InstanceAssumption`). What the proof adds is all
  that the reading can do with them: a size that is stale, a read that stops at any byte, a file that
  has become longer, shorter or empty, a file the reading makes itself, memory as it was behind the end
  of the file, and a buffer that is overrun. `SavedInv` says whose bytes the first two are, that what is
  on the disk while the rest is read has been seen, and that a document that is returned is said by a
  version; `PartUTF8` and `PartUTF16`, that a text without memory as it was is a part of one version
  behind the first two bytes of another.
- `LoadingIsTyped`, `NothingIsAdded`, `OneClientMissing`, `CleanTextIsInForce`: what was proved of the
  loading of any tree holds of what a reading may leave.
- `UnreadSettingsBlock`, in every environment: while the text is not that of a document with a
  list of servers, there is no server and nothing is loaded, so a call goes no further than its
  first test.
- `AllowedAsTheFileStates`, if answers are in time and every request can be made: the answers that a
  call that returns true has seen are permitted by each filter that the file lists, except one in which
  a text was lost for lack of memory.

*The path lookup* (`JsonPath_proof`), for documents of any depth and paths of any length.
The invariant (`Walked`) says of a well-addressed path that the value the walk has come to is the
only one that the segments up to now denote. What they denote is a function defined by recursion
on the number of segments. That it satisfies its equation (`DenotedIs`) and that what denotes
nothing goes on to denote nothing (`EmptyStays`) take induction, which is had from the theorem that
the numbers are well-founded: a set that holds zero and each successor has no least
counterexample (`EveryNumber`). Hence `TypeCorrect`, `PresentValuesAreFound`, and
`AbsentValuesAreDenied`. The last is about paths whose segments address objects and arrays as the code
expects, and that lead through objects and arrays to a missing member or element. Of a path that meets a
number or a text before its end it says nothing, because the code returns what it has met
(lines 406-407), nor of an object read as an array.

*The URL of a server* (`ServerUrl_proof`), for URLs and addresses of any length. `ReplacesFirstFound`:
`ReplaceOne`, which searches from the left, does what the library's operator does, which looks for the
shortest prefix that has a match (`FirstIsReplaced`). `CutRightly`: if a URL states its protocol,
protocol and domain are together the text before its path, so cutting by their lengths leaves the path.
`PathIsRooted`: that path begins with a slash, and so does the path with the address in it
(`FilledIsRooted`), which therefore has no scheme (`RootedHasNoScheme`); `PlainStays`: the library
leaves it as it is, unless two slashes begin it or an empty query ends it. The invariant `UrlInv`
carries what loading has cut to where a call uses it. Hence `TypeCorrect`, `CallsAskAsConfigured`,
`OnlyIllegalTextsThrow`. First and last positions exist because the numbers are well-founded.
`SplittingIsRight`: whatever the URL, its pieces joined again are the URL, and none has a separator in
it. `StringSplit` and `Joined` are recursive functions; that they satisfy their equations
(`StringSplitIs`, `JoinedIs`), and then that the pieces from a position on, joined, are the text from
there on (`LastPiece`, `FirstPiece`, `StringSplitSplits`), is shown by induction, from the end of the
text for the pieces, with the same argument about well-founded numbers as for the paths.
`AllAreReplaced`: `ReplaceAll` does what `ReplaceOne` does if it is called until nothing is found, on
the assumption `AddressesAreForeign`, that an address is not empty and has no symbol of what is looked
for, as no IP address has a slash or the marker; without it, a replacement that contains or completes
what is replaced is replaced again. TLC finds the assumption satisfied by the instance
(`InstanceAssumption` in `MCServerUrl`). `ReplaceAll` is the pieces joined with the replacement
(`ReplaceAllJoins`); each call of `ReplaceOne` makes the next piece final (`ReplacesBehind`), because
nothing is found that begins before what follows it (`Passed`, `PassedMore`); by induction from the end
of the text, the calls put the replacement between the pieces (`ChainJoins`).

*The debug log* (`DebugLog_proof`), for any number of processes, threads and calls. The invariant says
that at most one call has the file open, that only it has parts of its entry still to write, that what
it has written lies at the end of the file, and that the buffer of its process has its time from the
formatting to the writing. Hence `TypeCorrect`, `EntriesAreNotMixed`, `TimesAreOwn`, and
`TimesAreInOrder` for a clock that is not set back: `Tick` only goes forward, while `GetLocalTime`
follows daylight saving and whoever sets the clock. `DebugLogIsALogBook`: mapped to the entries that are
whole, each step is one of `LogBook` or a stutter; no write changes an entry that was there, and only
the last write of an entry adds one, behind all others.

*The response of the HTTP client* (`Response_proof`), for every body, every size of its chunks,
of the blocks and of the reads, and every order of the threads. First the operators of the two parts:
what a read takes off the blocks, what a write appends, and what serving the waiting reads leaves
(folds over sequences, by the induction above), and what completing or cancelling a task does to
the tasks that are chained to it. Types and `NothingLost` are not inductive: that no character is
lost when a read is served late needs that no block is read beyond what it holds, that the read
waits for the event of this turn, and that the event has not been set before. The inductive invariant `IInv`
adds to `TypeOK` and `NothingLost`

- `EndsKept`: exactly the tasks that have ended and have continuations are about to run them;
- `RequestPart`, `LoopPart`: for each step of the caller's thread and of the first lambda, which states
  the tasks of the request and of the loop may be in; a continuation is registered, scheduled or
  done, and only one of these;
- `TurnPart`, `WaitPart`: in a turn of the loop a read waits in the buffer until its event is set, and
  no longer;
- `BufferPart`: no block is read beyond what it holds and no more is flushed than is there (`Good`),
  writing ends when the network closes the buffer, and a body that was not written to its end leaves
  an exception;
- `EndPart`: a read returns nothing only at the end of the body, and the loop notices an
  exception then; so a loop that completes has the whole body in its target.

Hence `ResponseTypeCorrect`, `NothingIsLost`, and `RequestIsExchange`: each step is one of
`Exchange`, which `IPCheck` is built on, or a stutter. The mapping needs `IInv` before and after the
step, to know that the body a filter sees is whole and that a task ends once.

Only model-checked:

- `EveryCallEnds` and `EndReachesPlugin`, because they are liveness properties.
- The five violated properties, which need no proof.

## Not modelled

- Exports: constants and message boxes; the functions ending in `Cmd` call the IP check and show its verdict.
- The conversions that the path lookup makes of an answer (`GetValueString` and its caller), which without
  memory return the empty text as those of the loading do: `IPCheck` takes any text of a set for an answer.
- Text of logs and reasons: no property depends on it. Of character encodings, only what
  `ReadAllText` makes of marks and byte orders.
- rapidjson, beyond what the plugin relies on.
- Of the SDK's tasks: cancellation tokens, the state `PendingCancel`, and continuations that
  take a task instead of a value. The plugin uses none of them. The library that is linked with newer
  compilers has its tasks from `<ppltasks.h>` of the toolset, which has the same design and is
  not in the repository.
- Of the SDK's buffer: the alternatives for reading in place (`acquire`, `release`), seeking and reading
  of single characters, which `read_to_end` does not use.
- What the SDK compiles: the WinHTTP client with its queue of requests and `open_if_required`, and
  `http_msg.cpp` with the event that the body is complete. Only their headers are in the repository.
- All other headers of the SDK: JSON, files, web sockets, the server side, OAuth, checked
  integers, compression, cancellation. They are most of the lines under `src/packages`, the plugin
  reaches none of them, and a model of them would say nothing about this program; measured over all
  vendored lines, the modelled share is therefore small. Of `uri` the plugin uses the constructor,
  whose code is not in the repository; what it rejects is `rejects` in `IPCheck` and
  `Illegal` in `ServerUrl`, and what it makes of a path is `Resource` there.

## Plan

Done, in this order: `FilterEval`, `IPCheck` and `FailClosed`; `SettingsLoad`; `JsonPath`;
`TextHelpers` and `ServerUrl`; `DebugLog` and `LogBook`; `SettingsFile` and `Plugin`; `Response`
with its two parts and `Exchange`; each with its instance and runs, and the proofs listed above.
What is left:

1. For `IPCheck`, the theorems for calls of which only some are prompt: a prompt call whose
   frame no late continuation shares keeps the promise.
2. For `SettingsFile`, a save that is written in pieces, and what can be said of its joins.
