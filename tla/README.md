# UniSequence: specifications, model checking and proofs

UniSequence is a plugin (a Windows DLL, C++20) for the radar client EuroScope. Controllers at several
airports use it to keep a common departure queue per airport: the queue lives on a server, the plugin
shows each aircraft's number and status in its radar tag, sends the controller's changes to the server
as PATCH requests, and receives every change over one websocket per airport.

This directory specifies the plugin in TLA+, checks the specifications with TLC on small instances and
proves theorems about them with TLAPS for every instance. Paths are those of the repository's
`UniSequence/` directory; `cpp:124` is line 124 of `UniSequence.cpp`.

## 1. The system

### Threads

| thread | runs | started / ended |
|---|---|---|
| main | every EuroScope callback: tags, popups, commands, reports, the destructor | EuroScope |
| patch | `InitPatchThread` cpp:117-160: takes requests off the queue, sends them, stores the answers | constructor / destructor |
| sync | `InitWsThread` cpp:28-71: every five seconds brings the sockets in line with the airport list | constructor / destructor |
| asio | `client::run` of `websocket_endpoint`: connections and their handlers | the endpoint's constructor / destructor, both in the sync thread |
| update | `InitUpdateChckThread` cpp:73-115: asks GitHub for a newer version, three times at most | constructor / destructor |

### Components, their state and operations

* **Patch request queue.** `patch_request_queue` under `patch_request_queue_lock_`, the condition
  variable `patch_status_condvar`, the stop token of the thread. Operations: push and notify
  (`PatchAircraftStatus`, `ReorderAircraftEditHandler`), wait, front and pop, send, stop, join. *Correct
  when* every request is sent once, in order, nothing is popped from an empty queue, and the
  destructor returns. *Hard*: the wait holds a mutex of its own, not the queue's.
* **Logon code.** `uniseq.txt` and `logon_code_`; `GetLogonCode` and `SetLogonCode` hold `code_lock_`,
  the patch thread reads without it. *Correct when* a request carries a code, and none older than the
  one its controller had.
* **Airport list and socket list.** `airport_list_` grows with each drawn tag and is replaced by `.SQA`;
  the sync thread derives `socket_list_` from it. *Correct when* a pass ends with a socket for exactly
  the listed airports, and open connections belong to listed airports.
* **Websocket endpoint and connections.** `m_connection_list`, `m_next_id`, each connection's
  `m_status`. Operations: `connect`, `close`, the four handlers, the destructor. *Hard*: handshakes go
  on while their airport is dropped or the plugin is unloaded.
* **Queue cache.** `queue_caches_` under `queue_cache_lock_`; written by the patch thread (answers) and
  the asio thread (messages), read and extended by tags and menus. *Correct when* it shows the airport's
  own queue and, in the end, the server's latest. *Hard*: two unordered sources.
* **Status choices and EuroScope's reports.** `suppress_update`, and EuroScope's own ground state and
  clearance flag. A choice writes these; EuroScope reports each change back, and the plugin patches what
  it hears. *Correct when* a choice sends exactly itself, what the plugin asks for follows what EuroScope
  shows from then on, and changes made elsewhere are heard.
* **Radar screens.** `screen_stack` and each `m_Opened`; a closed screen is freed when
  `CallItemFunction` next meets it. *Correct when* only closed screens are freed and called never.
* **Tag functions.** Each opens a popup (statuses, a list to "put before", an edit box) or handles the
  choice made in one. *Correct when* no aircraft is put before itself. *Hard*: the queue is read twice in
  one handler, and everything may change between a popup and its choice, the selected aircraft included.
* **Tag item.** Sequence number, status text and colour, as a function of a queue and a callsign.
  *Correct when* it agrees with what the tag functions find in the same queue, with a loop of their own,
  and fits its buffer.
* **Update check.** Three attempts, ten seconds before each. *Correct when* it ends, and soon after a stop.
* **Loading and unloading.** The constructor starts the threads, the destructor stops and joins them.
  *Correct when* nothing outlives the members, and unloading waits for nothing without a bound. *Hard*:
  three threads, each anywhere in its work, and an exception that leaves any of them ends the program.
* **Commands**: `.SQA` and `.SQC` change state, `.SQP` and `.UNIS` print. **Logging. Registration.**

### Interactions

Main hands requests to patch through the queue; main, patch and asio share the cache; main and sync
share the airport list; sync drives asio through the endpoint, and asio answers only through `m_status`
and the cache. The destructor asks all threads to stop and joins them in the order sync, update, patch.
No thread holds two of the modelled locks except sync (airport list, then socket list), and only sync
takes the second.

## 2. Modules

| module | stands for | checked by | proved in |
|---|---|---|---|
| `PatchChannel` | what a controller is promised about requests (abstract) | `ImplementsChannel` of `PatchQueue` | `PatchQueueProofs` |
| `PatchQueue` | main and patch thread, queue, condition variable, logon code, stop | `PatchQueue*.cfg` | `PatchQueueProofs` |
| `WsSync` | main, sync and asio thread, airport list, sockets, connections, shutdown | `WsSync*.cfg` | `WsSyncProofs` |
| `QueueCache` | both cache writers, the readers' insertion, answers and messages in flight | `QueueCache*.cfg` | `QueueCacheProofs` |
| `ControllerActions` | status choice, reports, `suppress_update`, screen stack | `ControllerActions*.cfg` | `ControllerActionsProofs` |
| `QueueView` | what tag and tag functions read off a queue (operators only) | `TagFunctions.cfg` | `QueueViewProofs` |
| `TagFunctions` | the popups, their choices, the selected aircraft | `TagFunctions.cfg` | `TagFunctionsProofs` |
| `UpdateCheck` | the update thread | `UniSequence.cfg` | in `UniSequenceProofs` |
| `Lifecycle` | what EuroScope is promised about unloading (abstract) | `UnloadsAsPromised` of `UniSequence` | `UniSequenceProofs` |
| `UniSequence` | composition: `PatchQueue`, `WsSync` and `UpdateCheck` around constructor and destructor | `UniSequence.cfg` | `UniSequenceTypeProofs`, `UniSequenceProofs` |

Variables and actions have the source's names where TLA+ allows. A definition introduced as a *slip*
(`PushedOnTop`, `NeverReset`, ...) is no part of the specification: it is a plausible bug in the
definition after it, and the property named in `PROJECT.json` fails when it takes that definition's
place. This shows of each property that it depends on the code.

**PatchQueue.** One step is a stretch of code no other thread can see half done. The main thread opens
the code file, assigns `logon_code_`, pushes, and notifies: four steps, since the patch thread can run
between any two. The patch thread tests the stop token (`LoopTop`), evaluates the predicate under the
queue's lock (`EvalPred`), decides under the condition variable's own mutex whether to block (`Block`),
pops (`PopFront`), reads the code and sends (`SendPatch`), and has the answer (`PatchReturns`). The gap
between predicate and blocking is a state of its own. The unlocked read of `logon_code_` during an
assignment is a data race: the model lets it see the old code, none, a part, or the new one.

**WsSync.** A pass is taken airport by airport, with the shared lock held. The library's view of a
connection (`con`) and what the handlers recorded (`m_status`) are two variables, since `close` acts by
the first and the destructor by the second. `on_fail` and `on_close` run in the same step as the end of
the connection: no code looks in between.

**QueueCache.** A queue is abstracted to its airport and the number of changes the server made to it.
The server is external: it answers a PATCH with the queue it made, and sends every change to every
connection of the airport, in order. The body of an answer may be a queue, lack `data` (the cache then
holds null) or not parse; a message may be a queue or not parse, and is then handled as such in the asio
thread (connection_metadata.cpp:39). A body that does not parse throws, the exception leaves its thread,
and the program ends (`terminated`).

**ControllerActions.** All on the main thread. A choice is cut where it calls into EuroScope, and each
call includes the report that EuroScope delivers inside it. EuroScope may refuse changes to an aircraft
this controller does not track. `suppress_update` starts with either value: nothing initialises it.
EuroScope's word for start-up is a constant, because the code tests for `STUP` and
EuroScopePlugIn.h:1885 says `ST-UP`; both are checked. That reports come inside the call, and not
later, is an assumption taken from how the code uses the flag.

**QueueView.** The two ways the code looks for an aircraft in a queue: `GetManagedAircraft` stops at the
first node, the loop of `OnGetTagItem` goes through all of them. A queue is a short sequence behind a
number of aircraft nobody asks about, so that the bound of 99 and the buffer's length are reached.

**TagFunctions.** Each function is two steps, since `OnFunctionCall` reads the queue (cpp:434) and the
list is built from a second read (cpp:393). Another thread may store any queue between any two steps,
and the selection may change whenever no handler runs. What was asked for is kept with the popup it came
from. The guard of cpp:395-396, an aircraft that was found and whose status is not 999
(`AIRCRAFT_STATUS_NULL`), is `HasStatus`; that no queue lists an aircraft with the status 999 is an
assumption on the constants (`NullStatusAssumption`), and what tags show for statuses the plugin does
not know is left out.

**UpdateCheck.** The attempts, the wait that a stop ends, the GET, and what each kind of answer leads
to, the exception included.

**UniSequence.** The three threads' modules are instantiated with a stop flag each, and their actions
are used as they are. Added are the order of the destructor, that the main thread runs one handler at a
time and none after the destructor, and `terminated`: an exception of one thread stops everything. The
history `begun` counts the PATCHes, the attempts of the update check and the connections begun since the
destructor's first line (cpp:240), whichever thread has been told by then; `Due` is what each thread may
still begin, as a function of the state. `QueueCache` takes no part: no thread waits for the cache, and
all that matters here of a body that does not parse is the exception.

**Lifecycle.** EuroScope's side. The plugin is loaded; unloading is requested and the threads are told one
after the other (`telling`, cpp:240-242); all were told (`ending`); it is unloaded, or terminated. From
the request on there is a budget for each kind of network operation: the requests handed over and not yet
sent, three GETs, one connection for each airport. Each operation that begins takes one off, and nothing
raises it. When all threads were told, at most one PATCH and one GET of the budget are left. Something of
the plugin is alive, or nothing, and unloading returns only in the latter case.

## 3. Runs

| run | states | shows |
|---|---|---|
| `patch_queue` | 31 633 | requests conserved, in order, at most one after the stop; no pop of an empty queue; codes never older than the controller's; the abstract channel is implemented; a stop always ends the thread; a push to a blocked thread releases all earlier ones |
| `ws_sync` | 73 484 | ids resolve, to the newest connection of their own airport; a pass converges; listed airports get sockets; dropped open connections end; shutdown ends when no handshake is under way |
| `queue_cache` | 365 875 | the cache never shows another airport's or an unmade queue; a drained feed that wrote last is current; every message sent over a lasting connection shows up |
| `controller_actions` | 326 432 | shown screens are kept; a choice for a tracked aircraft reads back as itself; nothing else is patched meanwhile; reports are heard after the first choice; the status asked for last is the one EuroScope shows |
| `tag_functions` | 190 995 | no aircraft is put before itself by a choice from its own list; tag and tag functions agree on every queue, one that lists an aircraft twice included (there on the number only); numbers follow the queue up to the bound; the text fits its buffer |
| `unisequence` | 814 538 | nothing is left when the destructor returns; the abstract unloading is implemented: a budget of operations from the first stop request on; once the destructor joins, every step shortens what is left, and somebody can take one; only an open connection can hold the unloading |
| `patch_lost_wakeup`, `ws_disconnected`, `ws_orphan`, `ws_shutdown`, `cache_overtaken`, `uninitialised_suppress` | | one disagreement each, section 4 |

`InStep` compares what EuroScope shows with the status that the plugin asked the server for last. It is
stated with its assumptions in the formula: all aircraft tracked, a screen open at each choice, known
ground states. Each assumption names a way the two can drift; without any one of them the property
fails. Of what the server has it says nothing: a PATCH that fails is logged and dropped (cpp:149-157),
and one may be stranded in the queue (section 4, 1). That a code is saved and that `suppress_update`
starts as false need not be assumed: until then nothing was asked for, and there is nothing to be in
step with.

### Bounds, and why they suffice

* `PatchQueue`: three pushes, two saved codes, a request of either kind. One request can be in flight,
  one queued and one stranded by a lost wakeup at once; a third code adds no new order of "older" and
  "newer". The two violation runs need two pushes.
* `WsSync`: two airports and one `.SQA` after any number of redraws: an airport can be listed, dropped
  and listed again while the other one keeps or changes its connection. The violations need one airport.
* `QueueCache`: two airports, two connections that are reused, two changes per queue: an answer and a
  message can cross, and both connections can serve one airport or different ones. The violation run has
  one airport, one connection and three changes.
* `ControllerActions`: one aircraft, all eight statuses and all ground states, three screens (a closed
  one between two open ones). Choices for different aircraft are separate handlers on one thread; the
  proofs cover any number of aircraft.
* `TagFunctions`: two aircraft, two statuses, queues of up to three nodes behind 0, 97 or 998 others: the
  shown number crosses 99 within one queue, and an unbounded one would have four digits. Two aircraft
  make every pair: one that moves, one to be put before.
* `UniSequence`: one request, one saved code, one airport, no `.SQA`. The components are checked with
  larger bounds on their own; here the question is where each thread stands when the destructor reaches
  it, and one piece of work in each is enough to be before, in, or after it. With one request the budget
  of PATCHes is one from the start, so that the run does not tell the bound before `AllTold` (all that is
  queued) from the one after (one at most); for GETs it does (three, then one). Queues of more requests
  are in `patch_queue` (three, `AtMostOneAfterStop`), and `UnloadingAsPromised` is proved for any number.
  Without `.SQA` an airport
  is never dropped: dropping is `ws_sync`'s question, and the proofs about `UniSequence` cover any number
  of commands, those that drop airports included.

`CHECK_DEADLOCK FALSE` is set where the program really stops: a plugin that was unloaded, a program that
an exception ended, or a bound that was reached. `ControllerActions` never stops and is checked for
deadlock.

### Fairness

Weak fairness holds of the steps the machine owes: a handler on the main thread finishes, the patch,
sync and asio threads are scheduled, the five-second wait ends, httplib's timeouts end each request
(cpp:140), websocketpp's handshake timeouts end each handshake, received messages are handled, and the
update thread's waits and requests end. In `UniSequence` each thread has its own weak fairness, and so
has the main thread once a handler or the destructor has begun. Nothing is assumed of people and peers:
that a controller acts, that the plugin is unloaded, that a server closes a connection, that a spurious
wakeup comes. `ControllerActions` has no liveness property and no fairness.

## 4. Where the code differs from what it says

1. **Lost wakeup** (cpp:124). The wait's mutex is not the queue's: a push and its notify between a false
   predicate and the blocking are missed, and the request waits for the controller's next one.
   `StopLeadsToDestroyed` holds all the same, because the wait looks at the stop token under the mutex
   that a notify takes.
2. **Dead sockets stay** (cpp:60). The comment promises that a disconnected socket is removed; the loop
   never looks at a connection's state, and a listed airport is not connected again.
3. **Orphan connections** (websocket_endpoint.cpp:76). Closing during the handshake has no effect; the
   connection opens later, in no list, and keeps writing the cache.
4. **Shutdown waits for a server** (websocket_endpoint.cpp:20). The destructor closes what is recorded
   as open and joins; a connection that opens afterwards keeps the asio thread alive.
5. **Overtaken answer** (cpp:147). An answer read after a later message was handled puts the older queue
   back.
6. **Uninitialised flag** (UniSequence.h:179). Until the first choice, all reports may be dropped.

Each of these is a run with a counterexample. One more is seen in the model without a run of its own,
since nothing in the repository promises otherwise: the patch thread reads `logon_code_` without the
lock (cpp:142), so that a request may carry an empty or partial code. `NeverOlderCode` makes the
exception explicit.

## 5. Theorems

All theorems hold for every value of the constants under the named assumptions of their module: natural
bounds in `PatchQueue`, `WsSync`, `QueueCache` and `TagFunctions`; a finite set of airports in
`UniSequence` (there is a count of them); everywhere, that the values for "none" and the fixed words are
different from the real ones.

**PatchQueueProofs.** `IInv` joins types, `Conservation` (pushed = sent, the popped request, the queue),
`NoPopOnEmpty`, the stop and the codes. The stop part says where the thread can be once a request was
sent late, as `AtMostOneAfterStop` alone says nothing of the next step; the codes part relates each
queued request's code to `logon_code_` and the file, since only their being monotone makes a code read
later a newer one. From it follow `TypeCorrectness`, `RequestsConserved`, `PopsSafely`,
`StopsAfterOne`, `CodesNeverOlder`, and `Refinement`: with `pending <- Held \o patch_request_queue` a
push is `Accept`, a send is `Deliver`, a stop request is `Close`, and all else stutters.

**WsSyncProofs.** `IInv` adds `ConnectedFirst` to `TypeOK`, `SocketsResolve` and `ListedIsNewest`: in
the second loop of a pass every listed airport has a socket already, which the lock preserves and which
gives `PassConverges` when that loop ends. `ListedIsNewest` rests on ids only ever growing.

**ControllerActionsProofs.** `IInv` says what a choice has achieved at each of its stages (`Written`,
`Toggled`, `SuppressedInside`). Its delicate case is the stack that runs empty in `CallItemFunction`:
`ShownAreKept` makes that mean that no screen is open, the one exception in `ChoiceIsShown`.
`HeardAfterChoice` is temporal, but needs no fairness: each choice leaves `suppress_update` off, and
nothing else sets it. `InStep` is proved as the code establishes it, step by step: under
its assumptions every change of EuroScope's state is asked for in the step that makes it
(`UpdatesStayInStep` for reports, `HandlerStaysInStep` and `PatchStaysInStep` for a choice), so that the
two agree whenever no handler runs. The assumptions are about whole behaviours; the proof carries them
as boxes.

**QueueCacheProofs.** `OwnPastQueue` and `DrainedFeedIsCurrent` are not inductive: a message handled
must be known to be its airport's, and the last one of a channel to be the newest. `InOrder` says so:
the messages of a connection are the last changes of its queue, one by one, so behind the last of them
is nothing the server made and did not send. `Answered` says the same of an answer, weaker (some change
of its airport), as an answer may be overtaken.

**QueueViewProofs.** What the loop of `OnGetTagItem` computes, for queues of any length. `Loop` is a
recursive function; that such a function exists and has its equations is shown here first (`TurnsExist`,
`LoopIsLastTurn`), as the library's induction theorems cannot be instantiated by the provers installed:
they take an operator as a parameter. Each induction is one by smallest counterexample instead
(`Smallest`, from the well-foundedness of the numbers). `AfterTurns` is the loop invariant in the sense
of a program proof: what the found node, the number and the counter are after each turn; `LoopResult`
is what it says at the end. `BoundedNumber` is the bound of 99.

**TagFunctionsProofs.** Two facts carry `NeverBeforeItself` across two reads of the queue: the node
found in the first is the handler's own aircraft (`OwnNode`), so the list built from the second,
whatever it holds, leaves that aircraft out (`LeavesOut`); and a choice is an element of the list
(`FromPopup`). `TagsMatchHandlers`, `NumbersFollow` and `TagsFit` follow from `LoopResult` for every
queue the cache can hold: for a callsign that is listed once, the loop that goes through all nodes and
the search that stops at the first find the same one.

**UniSequenceTypeProofs.** `KeepsToComponents`: what any step of the plugin does to the variables of
`PatchQueue`, `WsSync` or `UpdateCheck` is a step of that module, or none. What is shared, the main
thread, the destructor and the process, only takes behaviours away, and the safety theorems of
`PatchQueueProofs` and `WsSyncProofs` say the same of the plugin as of the component alone. TLAPS cannot
cite a theorem through an `INSTANCE`, so where the composition needs one (types, `SocketsResolve`, a
queue that is not empty when it is popped) its step is proved again, for the component's next-state
relation, and `TypeCorrectness` is put together from the three.

**UniSequenceProofs.** `IInv` has one part per thread and one for the destructor. `DtorInv` says whom the
destructor has asked to stop, who has ended, and that no handler is under way once it runs: nothing is
handed over any more. `PatchInv` and `SyncInv` say that a thread ends only when stopped, and the sync
thread after its connections; `UpdateInv` that an attempt is counted before its wait. From it follow
`MembersOutlive`, and `UnloadingAsPromised`: `StopSync` is `RequestUnload`, `StopPatch` is `AllTold`, a
send, GET or connect from then on is `BeginOperation`, a step of a thread that begins none is
`GiveUpOperations`, or `LastEnds` if nothing is left alive after it, `JoinPatch` is `Unloaded`, an
exception is `Terminate`, and what handlers and threads do before the destructor is `Run`. The work is in
the budget. `PatchDue`, `UpdateDue` and `SyncDue` show for each step of a thread that `Due` does not grow,
and that it shrinks where an operation begins. A pop moves a request from the queue to the thread, both of
which count; an attempt is counted in `retryTime` before its GET; a connected airport has a socket, and no
command lists another. A thread that was told goes past its last look at the stop token with one
operation at most, however much is queued (`Lowered`, `DestructorIsHost`). Finding 4 of section 4 does
not contradict the promise: that unloading returns is no part of `Lifecycle`, which says what holds until
then and when it does.

Two more theorems say, without fairness, why the unloading ends. `UnloadIsFinite`: from the first join
on, every step of every thread, of the library and of the servers lowers `Left`, unless it is the
exception that ends the program; `Left` is a number that counts what each thread has ahead of it, five
for each airport still to be connected (one more than the four steps a new connection has before it),
and one for each airport to be dropped. So at most `Left` steps are taken, and no retry, no pass and no
connection starts the work of another anew. `NeverStopsShort`: as long as the destructor joins and no
connection is open, the guard of some thread, of the library or of the join it is at holds. Its
invariant `Unstuck` is where the wakeup matters: a stopped patch thread is never blocked, as `Block`
looks at the token and `RequestStop` wakes the waiter. The two are the safety core of
`OnlyConnectionsHoldUnload`, for any requests, airports and commands; what remains to TLC is that the
fairness of the threads turns a guard that holds into a step that is taken.

Only model-checked are the liveness properties, which rest on fairness and so on ENABLED, out of the
prover's reach: `StopLeadsToDestroyed`, `NextPushReleases`, `AirportServed`, `DroppedTerminates`,
`QuietShutdownTerminates`, `PushesShowUp` and `OnlyConnectionsHoldUnload`. Every invariant and every
other property that a run checks, and both refinements, are proved; of the refined specifications the
proofs cover the initial states and the steps, which is all that `PatchChannel` and `Lifecycle` state.

## 6. Not modelled

* `EuroScopePlugIn.h`: the SDK's declarations, 4944 of the 6111 implementation lines, with no code of the
  plugin. EuroScope is modelled from how the plugin uses it. The map can therefore cover no more than
  about a fifth of the implementation's lines, whatever is modelled.
* `LogMessage`, registration of tag items and the DLL entry: output and single calls into EuroScope.
  The lock of the log is always the innermost. Threads show messages through EuroScope (cpp:10) even
  while the main thread waits in a join; whether EuroScope allows that is not to be seen in the
  repository.
* `websocketpp`, `httplib`, EuroScope and the server, except as the source uses them; these definitions
  are marked external in `PROJECT.json`.
* Two controllers who share an aircraft (cpp:538). What one client's change does in another depends on
  how and when EuroScope propagates it, and nothing in the repository says that.
* What the server does with a callsign it does not list (cpp:424), and which aircraft is meant when the
  selection changed under an open popup (cpp:432): both happen in `TagFunctions`, but no document says
  what would be right.
* A websocket URI that does not parse: `connect` would use a null connection (websocket_endpoint.cpp:38).
  The test of a negative id at cpp:46 is dead code, as `connect` returns no such id.
* `m_status` as a string that two threads use unlocked: the model reads one of its values.
* Texts, colours and the parsing of commands: `.SQA` brings any set of airports, `.SQC` a new code.

## 7. Plan

Done, in this order: `PatchChannel`, `PatchQueue`, its proofs; `WsSync`, its proofs; `QueueCache`;
`ControllerActions`, its proofs; `QueueView` and `TagFunctions`; `UpdateCheck`, `Lifecycle` and
`UniSequence`; the proofs of `QueueCache`, `TagFunctions` and `UniSequence`; the action properties of
`ControllerActions`; the loops of `QueueView`; the components within `UniSequence`, and why its
unloading ends. The order follows the damage a fault does: a lost request or a plugin that cannot be
unloaded first, a wrong status after that.

Open:

1. `QueueCache` in the composition, with its writers as the patch and asio threads of `UniSequence`: does
   what is still in flight at the stop reach the cache before the members go? The bounds must shrink
   further for that.
2. The measure of `UnloadIsFinite` for the other liveness properties: a number that each step of the patch
   thread lowers until a released request is sent (`NextPushReleases`), or that each handled message
   lowers until the cache is current (`PushesShowUp`).
3. Two controllers around one aircraft, once EuroScope's propagation is documented.
