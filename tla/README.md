# Verification of cpp-upnp

TLA+ models of the cpp-upnp library, model-checked with TLC and, for the parts
where it matters most, proved with TLAPS. File names below are relative to the
repository; `ssdp.cpp:97` is line 97 of `src/ssdp.cpp`.

The library discovers UPnP Internet Gateway Devices (IGDs) on the local network
and manages their port mappings. It is written with Boost.Asio's stackful
coroutines (`net::yield_context`). Everything below assumes an executor that
runs **one handler at a time** (an `io_context` run by one thread, as in
`example/add-port-mapping.cpp`): a coroutine is interrupted only where it calls
an asynchronous operation with `yield`. A handler up to its next suspension is
one action. Handlers that are ready at the same time run in any order.

## 1. Inventory

| Component | State | Operations | Interacts with |
|---|---|---|---|
| `ConditionVariable` (`condition_variable.h`) | intrusive list of entries on the waiters' stacks, each with a completion handler | `wait(cancel, yield)`, `wait(yield)`, `notify`, destructor | the executor (posts handlers), `cancel_t` (a slot per waiter) |
| `cancel_t` (`detail/cancel.h`) | intrusive list of connections, call count, parent connection | `connect`, call, moves, disconnection by destruction | slots: condition variable, TCP streams |
| `ssdp::query` (`ssdp.cpp`, `ssdp.h`) | UDP socket, timer, queue of results, USNs seen, `_stopped`, `_rx_ec`, condition variable; shared by handle, receiver, timer and callers | `start`, `get_response`, `stop`, destructor, moves; receiver coroutine; timer handler | network, executor, callers |
| `response::parse` (`ssdp.cpp:156`) | none | datagram to response or parse error | `url_t`, string helpers |
| `igd::discover` (`igd.cpp:296`) | UDNs seen, igds found, its query | a loop of `get_response` and `query_root_device` | `ssdp::query`, HTTP over TCP, device descriptions |
| igd requests and life cycle (`igd.cpp:236`, `igd.h:122-123, 223`) | `_cancel` and a gateway's URL in each igd, a TCP stream in each request | `soap_request`, `stop`, destructor, moves | TCP, `cancel_t` |
| igd operations (`igd.cpp:34-234`) | none of their own | add, delete, list, generic entry, external address | `soap_request`, `xml` |
| `xml` (`xml.cpp`, `xml.h`) | none | `get_child` with wildcards, `get`, `get_num`, `get_address` | Boost.PropertyTree |
| device descriptions (`parse_device.cpp`) | none | tree to device | `xml`, `url_t` |
| `url_t` (`url.h`, `url.cpp`) | a buffer and views into it | parse, print, copy, move, `replace_path` | string helpers |
| numbers, addresses, endpoints (`str/*.h`) | none | consume a token of a view | all parsers |

What is hard here, and what makes each part correct:

* **Condition variable.** A notification and a cancellation both take the
  handler of a waiting coroutine. Each suspended coroutine must have exactly
  one way to go on, and get it.
* **Query.** The timer, `stop()` and a failing socket race to end the search
  while a completed receive, woken callers and a cancelled timer are queued in
  the executor. No wakeup may be lost, no response lost, repeated or
  reordered, the reason of the end must be the true one and stay, and
  everything that keeps the shared state alive must finish.
* **discover.** The search goes on while it talks to a device. Nobody who
  answered may be skipped, gateways must be found once whatever the order of
  the answers, and it must return.
* **Requests.** igds are stopped, moved, overwritten and destroyed while
  requests run. `stop()` must reach exactly the running requests to the igd's
  gateway; no slot may outlive its stream.
* **Operations.** Incomplete and malformed answers: each is an error or left
  out, never a wrong port or a hidden entry.
* **Texts and URLs.** A datagram may be cut anywhere and written in any order,
  case and spacing: what is read of it must be what was sent. A URL is parsed,
  queued, copied, given another path and moved when a vector grows: its views
  must follow its buffer, and every request must go to the endpoint that was
  announced.
* **Descriptions.** One bad element must not hide the rest.
* **`cancel_t`.** Moves put other objects in the place of nodes of intrusive
  lists and bind slots that capture `this`: a call must reach the same clients
  before and after, each once, and through nothing that is gone.

`PROJECT.json` lists the hazards line by line, with the properties that cover them.

## 2. Modules

| Module | What it models |
|---|---|
| `ConditionVariable` | operations of the condition variable, for other modules to conjoin; `ExactlyOneResumption` |
| `CancellableWait` | a condition variable's whole life, with a `cancel_t` shared by some of the waiters |
| `SsdpQuery` | one search; instantiates `ConditionVariable` with the callers as waiters |
| `ResponseStream` | abstract: what a query promises its readers |
| `SsdpQueryRefinement` | the mapping from `SsdpQuery` to `ResponseStream` |
| `Discover` | `igd::discover`, as the only reader of a `ResponseStream` |
| `IgdRequests` | requests on igds and the life cycle of igds |
| `XmlTree` | XML trees and the lookup helpers |
| `SoapOperations` | what each operation sends and makes of the answer |
| `Text` | the helpers of `str/`: search, trim, numbers, addresses, endpoints |
| `Url` | `url_t`: a buffer at an address and views into it |
| `SsdpResponse` | `response::parse` |
| `IgdUrls` | the way of a URL from a datagram to the requests; composes `Url` and `SsdpResponse` |
| `DeviceTree` | device descriptions: from XML trees to devices |
| `DescribedGateways` | `Discover` on devices that are read from documents; composes it with `DeviceTree` |
| `CancelTree` | `cancel_t`s that are nested, moved and called |
| `MC*` | instances for TLC |
| `SequenceLemmas` | induction, `Min` and `Max`, flattening and splicing of sequences, for the proofs |
| `*Proofs` | theorems and proofs about the module of that name, and about what it is composed of |

### ConditionVariable, CancellableWait

`onNotify` is `_on_notify`; `posted` the completions that `net::post` has been
given; `suspended` the coroutines inside `wait`. Between the post and the
resumption a waiter is in neither the list nor running: that window is where
the code is delicate. A posted handler is `bound` unless its `std::function`
had been moved from. `Cancel` is a cancellation that finds all connected
waiters linked, `LateCancel` one that does not. The list is a set, as the
executor's order hides its order. `fault` records how the program died.
`WaitAgain` is a caller that loops around `wait`, as `get_response` does.

### SsdpQuery

| Variable | Code |
|---|---|
| `phase`, `wire` | progress of `start()`; the datagrams it has sent, as the search targets named in each |
| `handle` | `query::_state` is not null |
| `stopped`, `rxEc`, `responses`, `seenUsns` | `_stopped`, `_rx_ec`, `_responses`, `_already_seen_usns` |
| `socketOpen`, `receiver`, `rx` | `_socket`; where the receiver coroutine is; the result of its completed receive |
| `timer` | the wait on `_timer`: armed, its handler queued, done |
| `suspended`, `onNotify`, `posted` | callers in `_cv.wait` |
| `outcome`, `returned`, `died` | what callers got; a history of what was popped; `std::terminate` |

`Bind`, `SearchSent`, `StartFails` are `start()`; `DatagramArrives`,
`ReceiveFails`, `TimerExpires` the environment; `TimerHandler`, `ReceiverEnds`,
`ReceiverDropsDuplicate`, `ReceiverQueues`, `CallerResumes` what the executor
runs; `GetResponse`, `Stop` (also the destructor) and `Overwrite` (the defaulted
move assignment) the user's calls. Datagrams are model values; whether they
parse and which USN they carry are constants, to which `MCSsdpQuery` gives the
values that `SsdpResponse` computes from four texts: two answers of one service,
one that was cut and is accepted without a USN, and one that is no success. The kernel may have a completed
receive queued when the socket is closed, and keeps its result
(`CloseSocket`). A cancelled timer runs the same handler as an expired one, as
the code ignores the handler's error code. `ResponseStream` says what that comes to:
once it was stopped nothing is put into the stream, and its end is told as
`operation_aborted` or as a timeout, but never as an error of the closed socket. The set-option calls at
`ssdp.cpp:54-55` throw instead of returning an error; for the state both are
`StartFails`. A caller stops calling when it has been given an `error_code`
(`ssdp.h:73`). The `_stopped` test at `ssdp.cpp:141` is modelled although the
public API cannot reach it: `stop()` nulls the handle in the same handler.

### Discover

Composed with the abstract stream, not with `SsdpQuery` itself: the refinement
(checked by `query`, its safety proved) is what allows that. Every action of
`Discover` that touches the stream conjoins one of the stream's, so discover reads
it only as the stream allows by construction. The query
advances only while discover is suspended (`Suspended`). `query_root_device` is
three operations, each of which may fail; `RootOf` gives what
`device_parse_root` returns for the description at a location, if it returns
anything. `IgdsOf`, `OfConnection`
and `OfService` are the three nested loops of `igd.cpp:353-370`, and `Visit` the loop around
them. Types are pairs of a name and a version. `Visit` marks a UDN as seen before looking at the device's
type, as `igd.cpp:349-351` does. `asked` is a history of the descriptions in their order.
Returning destroys the query, which stops it.

### IgdRequests

`connections[i]` is the list in the `_cancel` of igd `i`: the requests whose
slot is linked there. `op` tells the handler's state of the request's current
TCP operation: pending in the network, or completed or failed with the
coroutine's resumption queued. `closed` are the streams that a slot has
closed: that fails what is pending, does not take back what has completed, and
fails what is started later (`StartsNext`). `gateway[i]` is what the igd object
stands for; moves take it along with the connections, and **move assignment
swaps the lists**, because that is what Boost 1.74's intrusive list does. Users
do not begin requests on an igd that was moved from. Every igd of `discover` is
for a different connection service. The host of the igd's URL parses, because
discover has connected to it.

### XmlTree, SoapOperations

Text is abstract: a constant says which texts begin with a number, and which,
and which are addresses. `Trees` has every tree an answer may hold, with its subtrees and
with what its text parses to; the proofs ask nothing more of it. A request is a sequence of tags and values. An
operation's handling of the answer is one step, as it does not suspend.
`EntryIn` is shared by both operations that read entries; they differ in the
names of the fields and in how they compare the protocol.

### DeviceTree, DescribedGateways

`DeviceParse` recurs over the tree as `device_parse` does; children of a list that do not
parse are left out (`FlattenSeq` of optional values). It is a function on `Trees`, the elements
that may be read as a device; `Height` says that documents are finite. `friendlyName` and
`controlURL` are only required: what the path in the latter becomes is `IgdUrls`'
subject. `DescribedGateways` has the documents at the locations (`TreeOf`), ties `RootOf` to them, and says
by itself what a document offers (`Offered`). The documents of `MCDiscover` have comments,
incomplete services and incomplete devices among their elements.

### Text, Url, SsdpResponse, IgdUrls

A text is a sequence of symbols: delimiters and digits one by one, words as a
whole, `"\n"` for either line end and `" "` for any space. `ConsumeNumber` adds the
digits from the last to the first modulo the width of a word (`WordBits`), with the
largest port as its limit (`PortBits`). A packet is given by its parts: a first line,
headers with the spaces around their values, and the rest; `Datagram` is its text, and
`sent` and `location` what its author put into it. `IsAnswer` says that these agree, without
mentioning the parser: a field is the value of every header with its key, and the UUID is
what follows the only `uuid:` up to `::`. A view is a
pointer and a length; every operation that can give a buffer another address
takes the new one as a parameter, chosen among two in `IgdUrls`, so that a short
string that stays inside its object and a long one that keeps its allocation
are both covered. `Receive` parses any prefix of the datagram and does what
`push`, `front` and `pop` do to the URL; `CollectGateway` is the innermost loop
of `discover`, with the growth of the vector; `SendRequest` is the part of
`soap_request` that uses the URL. What replace_path does with a null view is a
guard (`CanReplacePath`) and the exception a variable (`thrown`).

### CancelTree

`list[k]` is the `cancel_t` in whose `_connections` node `k` is linked, `slot[k]` what its
function calls. A `cancel_t`'s connection to its parent has the `cancel_t`'s own
name. `SwapNodes` and `SwapLists` are Boost's `swap_nodes` and move assignment of a
list, `MoveContents` what both moves of a `cancel_t` do with them. `CalledBy` is the least
set of `cancel_t`s that a call gets to, down the tree, and `Reached` the nodes in their lists; each list is moved out before its slots are called,
so each node is reached once. Slots of clients change nothing here:
`IgdRequests` and `CancellableWait` have slots that do. An ancestor is not
assigned to its own descendant, which would put each below the other. `emptied`
is a history: an assignment to a linked node whose source was not linked
leaves a node with an empty slot in a list, and a later call of that list
reaches `assert(0)`.

## 3. Runs

| Run | Question | Result |
|---|---|---|
| `cv_cancel` | three waiters, two with a `cancel_t`, release build: exactly one resumption; nothing kills the program before the `cancel_t` is called; whoever is unlinked comes back; destruction releases all | pass |
| `cv_assert` | does the slot's assertion (line 83) hold? | **violated** |
| `query` | two callers, four datagrams of which three arrive, release build: safety, every caller returns, the search ends, the query implements `ResponseStream` with its fairness | pass |
| `query_parse_error` | are parse errors reported? (debug build) | **violated** |
| `query_search_format` | one search to a datagram? | **violated** |
| `discover` | two gateways, one answering twice, a printer, a device without a description, a malformed datagram: nobody skipped, everything found once, always returns | pass |
| `igd_requests` | three igd objects for two gateways, two requests | pass |
| `soap_operations` | all operations on answers with every field missing or replaced, lists of up to three entries, other prefixes | pass |
| `soap_missing_entry` | is an answer without the entry an `invalid_response`? | **violated** |
| `soap_delete` | is the delete request an XML document? | **violated** |
| `igd_urls` | 24 locations in two kinds of datagrams cut anywhere, descriptions with up to two control URLs | pass |
| `cancel_tree` | three `cancel_t`s, two clients, debug build: slots call their owners, moves keep what a call reaches | pass |

`RequestsGoToTheDevice` speaks of what a reader takes a URL for, so it is limited to
URLs that `url_t::parse` takes apart as RFC 3986 does (`IsPlain`);
`GatewayUrlsDifferInThePath` speaks of every URL. `GatewaysAreFoundOnce` says, of every igd in
the vector, that the igds with its UDN are exactly the list of one WAN device in one
description that was read, side by side and in its order. `EveryGatewayIsFound` says the converse of every service in the
document of an asked gateway. The UDNs in `already_seen` may hide one only if this gateway or one that
was asked before used the UDN for another device (`IsUnambiguous`); what a root that is no gateway
lists, and what is read later, hides nothing. Its two mutants break the parser and `already_seen`.

Every property of a passing run has at least one mutant in `PROJECT.json`: a plausible bug in a
mapped definition that makes TLC report that property. The mutated forms stand
beside the definitions they replace, marked "mutated".

**Bounds.** `MaxDatagrams` limits what one search receives; three allow a
duplicate before and after the first answer was taken, or a malformed datagram
between two answers, with two callers and an end of the search at every point.
`MaxQueue` is the length of the queue while discover is busy; three puts every
kind of response behind another. Three igds for two gateways allow move
construction, assignment over an igd with requests, and destruction in any
order. `UINT32_MAX` is 99999 in the runs of `SoapOperations`, with a lease
at the limit and one above it, since TLC's integers end below the real limit; in the proofs it
is any natural number. An address is a text; one of those in `igd_urls` has colons as an IPv6 address has. In `igd_urls` a port has 4 bits and `uint64_t` has 16, so that numerals at
and beyond every limit are short: there, a numeral of fourteen digits can wrap to a small value; in the code it
takes 62 digits (`IsShort` states the relation). Two addresses for a buffer are enough for a view to be
left behind; two control URLs make the vector grow under an igd that is in it.
Three `cancel_t`s make a grandparent, and a fourth node would only repeat what
a move does to a sibling; they and the clients are interchangeable (symmetry),
and no liveness is checked there. The proofs have none of these bounds, except
that `MaxDatagrams` is any natural number; of the widths they ask only that a word has room for a
numeral with as many digits as a port has bits (`TextAssumption`), as 64 and 16 have.

**Fairness.** The executor runs ready handlers (weak fairness on the handlers),
sends complete, the clock runs. Nothing is assumed of users, gateways or
datagrams. In `Discover`, that TCP operations end is their deadline of five
seconds, and that the query ends is what `query` shows. `IgdRequests`
assumes only that resumable coroutines are resumed; `RequestsReturn` carries
the deadline as its premise, `StoppedRequestsReturn` needs none.

## 4. Findings

1. `cv_assert`: a `cancel_t` called after `notify()` and before the waiter
   resumes finds the entry unlinked; the assertion at `condition_variable.h:83`
   aborts, and with `NDEBUG` an empty function is posted and throws when it is
   run. Latent: the library passes no `cancel_t` of its own.
2. `query_parse_error`: `ssdp.cpp:153` calls `value()` on queued parse errors, which
   terminates (debug) or throws (release), where `ssdp.h:31-32` and `74-75`
   and `igd.cpp:313-314` expect an error to be reported.
3. `query_search_format`: the request stream at `ssdp.cpp:62` is never cleared, so the
   second datagram repeats the first request.
4. `soap_missing_entry`: `igd.cpp:118` dereferences the result of `get_child`
   without looking at it.
5. `soap_delete`: `igd.cpp:225` writes the opening tag as an empty element.

Observations that contradict no document:

* A search that was stopped may be reported as timed out: the handler of the cancelled timer
  does not look at its error code (`ssdp.cpp:99`), and may run before the receiver sees `_stopped`.
* A description that cannot be read ends the discovery with an error, and the igds found before are
  lost (`igd.cpp:328`).
* Of two devices of gateways with the same UDN only the first is looked at, whatever their types
  (`igd.cpp:349`). UDNs are supposed to be unique.
* `get_list_of_port_mappings` reads only answers with the prefixes `s`, `u` and `p`
  (`igd.cpp:174-195`); in the other operations the envelope may have any.
* `query_root_device` asks for `url.path()`: a query in the LOCATION is dropped
  (`igd.cpp:407`).
* A LOCATION without a port is refused by `consume_endpoint` and, as any failure of
  `query_root_device`, ends the whole discovery (`igd.cpp:328`). That refusal is
  also all that keeps a URL without a path away from `replace_path`, which would
  throw (`PathsCanBeReplaced`).
* A `:` or `@` in a path or query is taken for the end of the host or the user
  (`url.cpp:22, 26`). With a port before it only an `@` matters.
* A datagram without any line end is accepted as a response without fields
  (`ssdp.cpp:166`); its LOCATION is empty, so asking for its description fails.
* `consume_number` accepts some numerals of 62 or more digits with a wrong value: an 8
  and 61 zeros are 0.
* Assigning over a linked `cancel_t` or `Connection` from one that is not linked leaves
  an empty slot in the list, and the next call reaches `assert(0)` (`cancel.h:92`); the
  library never does it.

## 5. Proofs

The theorems hold for every value of the constants, under the modules' named
assumptions. Those say what the constants are and no more: `QueryAssumption`,
`CancellableAssumption`, `DiscoverAssumption`, `DiscoveredAssumption`, `AddsAssumption`,
`CancelTreeAssumption`, `TextAssumption`; that a description is made of vectors of devices
and services (`DescriptionsAssumption`), that packets are answers (`IsAnswer`), control URLs are texts and a
buffer is not at address 0 (`IgdUrlsAssumption`), and that the children and the
parsed text of a tree are trees (`SoapOperationsAssumption`), that documents are finite
(`TreesAssumption`), and that discover's devices are read from them (`DocumentsAssumption`). Each theorem rests on an
inductive invariant, proved action by action.

* **`CancellableWaitProofs`**: first the operations of `ConditionVariable`: each preserves types
  and `ExactlyOneResumption` on its own, so that both modules that use it can cite
  the lemmas. It has to be one invariant, since that a posted handler is not empty
  follows from the entry having been linked. Then `Typing`, `OneResumption`, and
  `PlainWaitsAreSafe`: nothing dies as long as no `cancel_t` has been called, which is how the library
  uses the class.
* **`SsdpQueryProofs`**: `IInv` adds what the safety properties need but do not
  say: before the search runs nothing is shared (`BeforeTheSearch`); how far the
  receiver and the timer are tells what `_rx_ec`, `_stopped` and the socket are
  (`DuringTheSearch`), in particular that a pending receive implies an open
  socket and an unset `_rx_ec`, and that a receive aborted by a close finds
  `_rx_ec` or `_stopped` set already. From it follow `NoLostWakeup`,
  `OneResumption`, `EndsAreFinal`, `AbortsAreStops`, `OpenReceives`, `StableEnd`.
  `StreamGrows` and `NoDuplicates` are about sequences: moving the front of one
  to the end of another leaves their concatenation alone, and all USNs
  of the stream are in `_already_seen_usns`. `QueryIsAStream` is the refinement: the initial
  states map to initial states and every step to a step of the stream or to a stutter.
  It implies `AbortsAreStops` and `StableEnd`, which are proved but no longer run.
* **`IgdRequestsProofs`**: `IInv` says that a running, unclosed request is
  linked in exactly one igd, which is alive, and stands for the request's
  gateway unless no igd does. The last clause is what makes it inductive:
  after a swap the moved-from igd holds requests to a gateway nobody stands
  for. `NoDanglingSlots`, `Stoppable`, `StoppedDoNotWait` and `StopIsExact` follow.
* **`DiscoverProofs`** has two invariants. `IInv` is an account of the names the query has seen
  (`Accounted`): as long as discover has not given up, each is that of a response that was
  asked, is being asked, or is queued; and the timeout is only told when nothing
  is queued and the stream is over (`Drained`), so that nothing is put into it
  afterwards. From it `EverybodyIsAsked`. `CInv` is about the vector: the igds with a UDN that was seen are
  the list of one device with that UDN, from one position on and nowhere else (`IsCollected`), and every
  device of the n-th gateway that was asked has been seen, and is collected as a device of one of the first
  n (`AllSeen`). One `Visit` adds to that, because what it appends has a UDN that no igd had
  (`VisitCollects`), and takes nothing away (`KeepsCollected`). From it `DiscoverTypes`,
  `GatewaysAreListedOnce`, and `GatewaysAreNotLost`: a WAN device whose UDN no gateway asked up to
  then uses for something else has all its igds in the vector.
  `GatewaysAreFound` takes this back to the documents. `DeviceParses` shows, by induction on the height, that
  the function `DeviceParse` exists and satisfies its equation; `DeviceIsParsed` that a complete element of a list becomes
  a device or a service of the list's owner, whatever is next to it.
* **`IgdUrlsProofs`** is first about `Url`'s operators, for any text and any address. `ParsedUrls`: the
  views of a parsed URL are inside the buffer and one after the other (`IsUrl`),
  also when `@` or `:` is found behind the host; `MovesKeepTexts`: a copy or a
  move keeps that and the texts; `PathIsReplaced`: so does `replace_path`, but for
  the path. `IsUrl` is said in offsets, which is why moves are easy; the parser's
  offsets are shown to be between eight cuts of the text (`CutsAreInOrder`), and
  `Spliced` is what `std::string::replace` does.
  Then, what the readers of text return, for texts of any length. `NumbersAreRead`: `ConsumeNumber` gives a
  short numeral its value or, if that is above the limit, nothing: as long as there is room in a word the sums are exact, and
  behind that the first digit that is not 0 adds a multiple of a high power of 2, which in a short numeral does not
  become 0 and so is above the limit.
  `PlainUrlsAreTakenApart`: `parse` finds the parts a plain URL was printed from. `AnswersAre`: of any part of
  an answer the response parser takes each field as it was sent or not at all, and of the whole one takes every field. It rests on
  `DatagramLines`: the lines of a cut datagram are its first line and headers, each whole, and then what is no header any more, as
  a piece without its line end is no line.
  Last, a URL's way through the library, with the
  invariant `UrlsInv` (`UrlsAreGateways`): the response is `AsSent`, its URL is
  what the parser makes of the LOCATION it has (`IsFrom`) and safe (`IsSafe`: well-formed, and without
  an endpoint if it has no path), each igd's URL is a gateway's (`IsGateway`: its own
  control path, every other text and the endpoint those of the response, and a buffer that is the response's with that path),
  each request was made from one of these (`AsksFor`), and there is
  an endpoint once a description has been asked for. The last clause ties a request to a LOCATION that has arrived: from
  it, the response's URL is the one that was sent, though only a part of the datagram may have come. From it
  `UrlTypes`: no view is left behind in a buffer that is gone; `PathsAreReplaced`: `replace_path` never
  throws; `GatewaysDifferInThePath`, which is also that all requests of a response go to one endpoint;
  `AnswersAreRead`; and `RequestsAreSentToTheDevice`: to the address and port in the LOCATION, for the path in it or in
  the control URL.
  The heart of `PathsAreReplaced` is `NoPathNoEndpoint`: a URL gets no path
  only when there is no colon behind its user, so that `host_and_port` has none and `consume_endpoint` refuses it. That is why the
  invariant ties the two together, where the code does not.
* **`SoapOperationsProofs`**: the state is one call, so `SInv` is only that the outcome is the operation's of
  the body; the work is in the operators. `Steps` takes the fold of `get_child` apart level by level, and
  `SameEntry` compares the two readers of entries. `OperationTypes`: an operation
  returns one of its own errors or a value of its type, with ports in 16 bits;
  `EveryEntryIsListed`: the listed entries are what the children give one by one, so that an entry that does
  not parse hides no other; `PrefixesAreIgnored`; `ListedEntriesAreReadable`: what is listed is what
  `get_generic_port_mapping_entry` makes of the same fields. All for trees of any size.
* **`CancelTreeProofs`**: `IInv` adds that, until something linked has been assigned to,
  no list has an empty slot in it. `MoveContentsKeepsInv` is the heart: the swap of
  lists and of nodes leaves who is linked and who has a slot as the invariant
  wants it, for both moves. From it `Typing`, `SlotsFollowMoves`, `AssertionHolds`. The
  proof found that a new connection must start with a call count of zero, which
  the model had left out for a place whose former connection was called.
  The action property is `MovesKeepWhatIsStopped`, for trees of any depth. It rests on a theory of forests
  that knows nothing of the program: `Below` is the least set that is closed under children, and
  `MovedIsForest` says what is below each node after a move (`Swap`, `Rest`). `TreeInv`
  adds to `IInv` that the `cancel_t`s which hold a connection are a forest (`IsForest`) and that no two clients
  share a slot. Without the first a moved node could get below itself; it is
  inductive because `MoveAssign` excludes an ancestor as the source, and because nothing is
  below an object that is not alive. `MovesAreMoves` leads from one theory to the other.
* **`SequenceLemmas`**: the installed provers cannot instantiate a theorem that takes an operator, so induction is
  proved for sets: `MinIsIn` from the well-foundedness of inclusion of finite sets, and `Induction` from
  it. With that, `FlattenSteps` shows that the function `FlattenSeq` chooses exists, and what its
  values are. `FoldLeft` takes an operator, so each of the two folds that the proofs need is taken
  apart where it stands (`Rounds` of `DiscoverProofs`, `Steps` of `SoapOperationsProofs`).

Only model-checked, and why:

* `CallersReturn`, `SearchEnds`, `NotifiedWaiterReturns`, `DestructionReleasesWaiters`, `DiscoverReturns`,
  `RequestsReturn`, `StoppedRequestsReturn` and the fairness in `ImplementsStream`: liveness under fairness
  needs ENABLED, which TLAPS does not have here.
* What the parsers return for texts that are neither answers nor plain URLs, and for numerals that are not
  short: the proofs only say that the result is safe.

## 6. Not modelled

* `consume_number` for signed types (`consume_number.h:47-86`): a template that nothing
  instantiates.
* Slots that destroy or move the `cancel_t` that calls them: no slot of the library
  does.
* The example and the tests, which are clients, and the aliases of Boost types.
* Executors with several threads: the classes have no locks or strands, and
  `ssdp.cpp` spawns its receiver on the bare executor.
* `local_address_to` blocks the executor while it connects; a handler takes no
  time in the models.
* Memory, exceptions from allocation, forced unwinding of coroutines when the
  `io_context` is destroyed. XML parsing and HTTP are Boost's.

## 7. Plan

The modules were written in this order: condition variable; query; stream and
refinement; discover; requests and life cycle; operations; texts, URLs and
responses; descriptions; the tree of `cancel_t`s. What could be
added is executors with several threads, once the library has strands to model.
