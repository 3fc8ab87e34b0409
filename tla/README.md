# at-pc: specifications, model checking and proofs

at-pc lets a person or an assistant work on remote Windows terminals. Every terminal runs an
*agent* (`crates/agent`), which keeps one WebSocket to the *server* (`crates/server`); the server
offers the terminals' tools over MCP and an HTTP dashboard. This directory holds TLA+ modules
of the parts of the program where order, concurrency and failure decide whether it is correct,
the TLC configurations that check them, and proofs that TLAPS checks. Paths below are relative
to `src/`.

## 1. The system

| part | source | state it keeps | operations | correct when |
|---|---|---|---|---|
| Terminal registry | `server/src/ws/registry.rs` | `sessions`: terminal → current session (id, status, outbound sender, last heartbeat); a session counter | register, heartbeat, set status (guarded by session id or not), send to a terminal, remove, sweep | a session is Online only while somebody can notice its end; the current session is not touched on behalf of an older one |
| Agent connections | `server/src/ws/handler.rs` | per connection: a task, its session id, a forwarder task, an outbound channel | handshake, read loop, cleanup | cleanup runs whole, whatever ended the connection |
| Router | `server/src/router.rs` | `pending_calls`: call → terminal and oneshot sender | `invoke_tool`, `cancel_tool_call`, result, abort on disconnect | a call is answered once, by its own tool or by an error; its entry never leaks; no call runs twice |
| Audit log | `server/src/audit.rs` | admission state under a lock, a bounded queue, a writer thread, a file with archives | record, flush, tail, export, shutdown; rotation with retries | what flush acknowledged is on disk; records in order; shutdown loses nothing |
| Terminal metadata | `server/src/meta_store.rs` | records and a version under a lock; a bounded queue; a writer thread with debounce and retry; a file replaced atomically | update, flush, shutdown, load | the file never gets older; accepted updates reach it |
| Agent connection | `agent/src/ws_client.rs`, `agent/src/app/mod.rs` | `is_running`, the server's URL, `loop_lock`, a Notify, the session's channel | the reconnect loop; disconnect, reconnect, change of address by the user | one loop at most; the user's last wish prevails |
| Tool executor | `agent/src/executor.rs`, `agent/src/tools/process_registry.rs` | running calls, running processes, in three maps with a lock each | execute, cancel, kill all | what is stopped stays stopped, nothing escapes the maps |
| Key store | `server/src/keystore.rs` | records in memory, a JSON file | issue, verify, rotate, revoke, delete, last-used | memory and file agree; an admin key remains |
| Enrollment | `server/src/enrollment_store.rs`, `server/src/ws/handler.rs` | open challenges, pending records, a JSON file; a session per peer | issue and consume a challenge, create or refresh a record, list, persist, load | a device has one key and one record; only proved identities are listed, and no more than the limit |
| HTTP authentication | `server/src/mcp/mod.rs` (the layer), `server/src/rate_limit.rs`, `server/src/session.rs`, `server/src/desktop_ticket.rs` | failures and bans by address, requests by key, console sessions, tickets; a lock each | check, record, admit; login, logout; issue and consume a ticket; issue and revoke a key | limits hold at their boundaries, whatever comes at once; a right ends with what it came from |
| Dispatch | `server/src/router.rs`, `server/src/mcp/`, `server/src/ws/registry.rs` | the terminal selected for all and by session, custom names; the lines and answers of stdio | JSON-RPC over HTTP and stdio, REST; resolve, select, rename, delete, cancel, call | a call runs on the terminal it means, by who may; every line of stdio is answered |
| Desktop viewing | `server/src/mcp/dashboard.rs`, `agent/src/stream.rs` | viewers of a terminal with two tasks each, one broadcast, generations of stream tasks | view, leave; start, stop, frame | one stream is current, older ones end; a viewer's session and an unwatched stream end |
| Server start, migration and end | `server/src/main.rs`, `server/src/shutdown.rs`, `server/src/config.rs` | configuration, credentials, listeners, tasks | migrate, start behind gates, bind with retries, drain, shut the stores down | nothing listens unguarded; a migration may be repeated, and each old credential gets its key; what was accepted is written; the process ends |
| Desktop tools of the agent | `agent/src/tools/uia.rs`, `som.rs`, `computer_use.rs`, `batch.rs`, `window.rs`, `agent/src/input.rs` | a cache of elements, a cache of marks, the pointer, keys that are down | read a tree, mark a screen, click, type, keys, batches, reported differences | a click lands where its caller meant; nothing stays down without a cause; what is reported is true |
| Marked screen | `agent/src/tools/som.rs`, `screen.rs` | none | crop, scale, find boxes, choose and draw marks | a mark can be clicked, and everything on the picture has one |
| Other agent tools, UI, capture, web console, parsing of configuration, loading of TLS | `agent/src/tools/dispatch/`, `agent/src/app/ui.rs`, `server/frontend/`, … | none that outlives a call, or presentation | – | – |

The parts interact by calls (dashboard and MCP handlers on the router; the router on the registry), by
channels (registry → forwarder → socket; callers → writer threads), by shared locks (the maps), by
messages (`protocol/src/messages.rs`) and by callbacks (`handle_terminal_disconnected`, `notify_waiters`).

What is hard here, and hard to test:

* *Locks are short.* `invoke_tool` checks a terminal, releases the lock, inserts a pending entry, clones
  a sender under another lock and pushes without one. Everything may change between any two of these.
* *Connections overlap.* A terminal may open a second connection while the task of the first is still
  to notice its end and to clean up after it.
* *Several tasks race for one answer:* a result, a disconnect, the sweep, a cancellation, the timer.
* *Writer threads fail half-way*, and their callers hold a lock or a queue slot while they wait.
* *Snapshots are taken under a lock and sent after it.*
* *Files are replaced or rotated by several renames*, between which a process may die.
* *The user's clicks are tasks* that nothing orders.
* *A check and what it allows are two steps*, under two locks: the limiter's check and its record, a name and the terminal it
  stood for, an element that was read and the click on it.
* *Rights are copied*: a session keeps the principal, a ticket the role, of a key that may be revoked.
* *Places are converted* again and again between desktop, monitor, crop and picture, and rounded each time.

`PROJECT.json` lists each of these hazards at its line, with the properties that would catch it.

## 2. Modules

| module | models | composed with |
|---|---|---|
| `ToolCalls` | abstract: what the gateway promises about tool calls | implemented by `Gateway` |
| `Gateway` | registry, connection tasks, forwarders, router, and the agent's end of the connection, interleaved | `MCGateway`; `MCProgress` for liveness |
| `HttpAuth` | the layer in front of every route: limiter, quota, sessions, tickets, keys as requests see them | `Doors`, `MCEnrollment`, with the worlds of `HttpWorlds` |
| `Dispatch` | how a request finds its terminal, through each door, and what its role allows; the stdio server | `Server`, `MCServer`, `DispatchWorlds` |
| `ServerLifecycle` | configuration, migration, gates, binding, drain and shutdown over several starts | `Server`, `MCServer`, `LifecycleWorlds` |
| `AuditLog` | callers, admission lock, queue, writer thread, file and its durability | rotation only moves synced files: see next |
| `AuditRotation` | active log and archives through rotations that fail, are retried or cut short | `Server`, `MCServer` |
| `MetaStore` | clients, queue, writer thread, debounce and retry, file, crash and reload; the order of the server's shutdown | |
| `KeyStore` | the records in memory, keys.json, requests that present a key, and the server's start with its bootstrap key | `Doors`, `MCEnrollment` |
| `Enrollment` | sessions of the enrollment endpoint, challenges, pending records, the file and its temporary name, crash and load | `Doors`; `MCEnrollment` gives the identities and the symmetry of sessions |
| `Desktop` | viewers' sessions, broadcast and cache in the server, the agent's controller and its stream tasks, and the connection between them | `MCProgress`; the registry and the wire are those of `Gateway`, reduced to "up or not" |
| `AgentClient` | the reconnect loop and the tasks of the user's clicks | `Agent`, `MCAgent` |
| `AgentExecutor` | calls on the agent, their tools, the processes they start, cancellations and kill switches, over four maps | the messages that start and cancel calls are those of `Gateway` |
| `Lists` | what a list and a set have in common, in the order of the list: a filter of the code | used by `DesktopTools` and `MarkedScreen` |
| `DesktopTools` | two callers' calls on the desktop: caches, injected events, batches, differences | `Agent`, `MCAgent`, `ToolWorlds` |
| `MarkedScreen` | a marked screen: the picture, the boxes found on it, the marks and where they are drawn, a computation in five steps | `Agent`, `MCAgent`, `ScreenShots` |
| `Server` | `AuditRotation`, `ServerLifecycle` and `Dispatch` side by side, for whatever worlds | `MCServer` gives the worlds |
| `Doors` | `Enrollment`, `HttpAuth` and `KeyStore` side by side | `MCEnrollment` gives the worlds |
| `Agent` | `AgentClient`, `DesktopTools` and `MarkedScreen` side by side | `MCAgent` gives the worlds |
| `GatewayProofs` | proofs about `Gateway`, and through `MCProgress` about `Desktop` | |
| `ServerProofs` | proofs about the three parts of `Server` | |
| `EnrollmentProofs` | proofs about both doors of `Doors` | |
| `KeyStoreProofs` | proofs about the keys of `Doors` | |
| `AgentProofs` | proofs about the three parts of `Agent` | |
| `AuditLogProofs`, `MetaStoreProofs`, `AgentExecutorProofs` | proofs about the module they are named after | |

Every constant, variable and action is commented where it is declared, and `PROJECT.json` "map" names the
lines each definition stands for. Definitions that end in `_Something`, before the definition whose
name they extend, are the plausible bugs (a dropped guard, a missing reset) each property is known to catch.

`Gateway`, `MetaStore`, `AgentClient`, `AgentExecutor`, `KeyStore`, `Enrollment` and `Desktop` have a constant `Scenarios`, a set of sets of outside events
(calls, cancellations, reconnections, crashes, …). A behaviour draws one of them at the start and keeps it in
`env`; a guard `"cancel" \in env` only limits what the *outside* does. One run can thus check several small worlds,
and the theorems hold for every choice of `Scenarios`. `HttpAuth`, `Dispatch`, `ServerLifecycle`, `DesktopTools` and `MarkedScreen` draw a *world*
in the same way, which names the requests, calls or things of a behaviour besides what may happen; the worlds have modules of their own.

`Server`, `Agent`, `Doors` and `MCProgress` each put two or three parts of one process into one run. The parts of a run share no
variable and, in the code, no state: a behaviour is one of *one* part, drawn at its beginning (`part`), while the others stand still in one of their
worlds. So every step, property and liveness argument is that of the part alone, and the states of a run are the sum of its parts'. The worlds are constants there (`Errands`, `Lives`, `Callers`, `Chances`, `Worlds`, `Shots`, `Glows`), with assumptions that say of which form they
are; `MCServer`, `MCAgent` and `MCEnrollment` define those of the runs and nothing else, so the theorems about `Server`, `Agent` and `Doors` are for any worlds.

### Gateway

State: `sessions` and `sessionSeq` are the registry; `phase`, `peer`, `sid`, `rxOpen` the task of each
connection and its channel; `up` and `down` the messages in flight (`down` runs through the registry's
channel, the forwarder and the wire, none of which reorders); `pending` and `slot` the router's map and its oneshots;
`caller` and `canceller` the program counters of `invoke_tool` and `cancel_tool_call`; `stage` and `via` those of
`send_to_terminal`, which both use and which has three steps (look up the sender under the lock, push
without it, and on a closed channel mark the terminal Offline). A call has a caller and a canceller, each with its own send.

An action is what happens between two points at which the code awaits or releases a lock. So
`AllocateSession` and `StoreSession` are two actions (the session id is taken before the lock), the cleanup of a
connection is three (`CleanupStatus`, `CleanupCalls`, `CleanupForwarder`), a Disconnect message two. A message to an agent
that has left, or to a task that will not read it, is dropped at once, since nobody can ever tell.

`PendingOwned`, `WaiterReachable`, `OfflineHasCause`, `CallReturns` and `DeadSessionNoticed` are stated at
the end of the module; `ImplementsToolCalls` is the refinement of `ToolCalls`: no tool starts twice or unasked, and a
result is the result of the call's own tool.

### AuditLog and AuditRotation

A command is its place in the sequence of admitted commands; the queue, the batch and what is done are prefixes of
that sequence (`done ≤ taken ≤ Len(commands)`). `file` is the sequence of records written, of which `flushed` left
the `BufWriter` and `synced` are safe from a crash. The callers' lock is `lock`: a caller keeps it while it waits for
room, and a shutdown until the writer is joined. `AuditRotation` numbers files by the rotation that created them, so that
"older" is `<`; each rename is an action, and `Fail` and `Restart` may come between any two.

### MetaStore

A snapshot is the version it was taken at. `persisted` is what the writer knows it wrote, `disk` what a reader
of the file would find, `synced` what survives a crash; they differ after a rename whose directory sync fails.
"straggler" in `env` means that some task keeps using the store during the shutdown, as the tasks of WebSocket sessions
do (`server/src/main.rs:593-660` stops the tasks that accept connections, not those sessions); without it the producers have stopped.

### AgentClient

Task 0 is started with the agent; the n-th click spawns task n. `Woken` is `notify_waiters`: it moves the tasks that wait *now*.
`lock` is the try-lock of `run()`.

### AgentExecutor

`active` is the executor's map of running calls; `procs`, `byCall` and `mapping` are the process registry's. A tool starts
one process, named after its call. `outer` is the task that serves a call, `tool` the task it spawns, `canceller[r][k]` the
cancellation of call `k` by the connection's reader or by the call's own timer, `killer[u]` a pull of the kill switch, `drained` what it took.
A critical section is one action, so a cancellation has six and the kill switch four. Only `unregister_process` waits for a lock with
another in its hands: what it holds is in `locked`, and that nobody waits for it in the other direction is a liveness property. An aborted task ends at its next await: the
guard that unregisters a process runs there (`DropChild` kills a child nobody killed yet), but not what has no await left before it.

### KeyStore

A key is an id together with its secret, so a key that was generated is never generated again. Issue, revoke, delete and rotate hold
the write lock from the guard to the end of the save: each is one action, whose save may fail after memory has changed.
`Verify` clones a record under the read lock and marks the key as used (`recent`); the save of the last use is a later action, `Touch`, which writes
whatever memory holds by then. `promise` is history: what the banner, or the last operation on a key, said of it, `Unsure` when that operation
reported an error. The start is `Start`, `EnsureBootstrap`, `WriteBootstrap`, `Load`; bootstrap_key.txt is created empty and then written (`"partial"`
in between), as the Unix build does. Refusals by the configuration gates (authentication required on a public listener, …) leave the files as they are, like a
`Crash`. The operator deletes bootstrap_key.txt only while the server is up, as the banner asks, and keys.json only while it is down.

### Enrollment

A session is one connection to the enrollment endpoint, and what it makes (challenge, record, file) is named after it; a repeated enrollment is
another session with the same claim. An operation of the store reads the clock before it waits for its lock, so `at[s]` is set by the
action before the one that uses it. `issue_challenge` takes two locks one after the other: `Check` and `IssueChallenge`. `Upsert` copies the
records into `snapshot[s]`; the blocking task that writes them is `Open`, `Write`, `Rename`. All tasks of a process use one temporary name, so
files are inodes: a second `Open` truncates the inode the first is writing to, and what two writers leave (`Shared`) may not parse,
in which case `load_records` starts empty. A store made by `in_memory`, the one the server binary uses, has the same
operations without a file (no `"file"` in `env`). `signed` and `granted` are history.

### Desktop

A viewer's session spawns `push` (frames to the browser) and `input` (events from it), waits for either, and drops the handle of the other; tokio
does not stop a task whose handle is dropped. `receiver[v]` is the subscription of the push task, so `Receivers` is what `receiver_count` counts.
`sender` is the number of the terminal's broadcast. In the agent, a start and a stop first raise
`generation` and then set `streaming`; `reader` and `user` are the two tasks that may be between these steps, `mine` is the generation a start has raised. A
stream's round is `Look` (flag, generation, capture), `Decide` (generation again, after the blocking capture) and `Send`; `last` is the picture that counts as sent.
A picture is a version of the screen. The channel of pictures belongs to the writing task, which may end before its session (`WriterFails`).

### HttpAuth

The limiter, the quota tracker, the sessions and the tickets have a lock each, held for one operation. A request is a program counter `req[r].pc`: `Receive` checks its address and looks its
credential up, `fallback` asks the configuration, `pass` records the success and counts the request, `failcheck` and `failrecord` check the address again and record a failure, `serve` is a handler that changes what the layer
looks at, `loginpass` and `loginfail` the two ends of a login. `entry[i]` holds the failures the code holds, pruned where it prunes; `log` the failures that *should* count, which is what `LimiterExact` compares; `admitted`, `passed`,
`ended` and `granted` are history of the same kind. `Kept` is the list without the times that have left their window, a recursive function. A tick is a second, and does not cut the synchronous code of a request; a handler may last any time.

### Dispatch

A request has a door (JSON-RPC, stdio, REST), a role, a session id and a list of items, a batch being a list of several. `pc` says where the item at work is: a terminal that is
named is looked for by id, then by name; else the selection of the session is read, then that of everybody, then the list for the only one online, each under another lock; then it is at work, and its record made. `q.target` is the terminal the audit record names, `q.on` the one the call runs on. A behaviour's `calm` marks the
resolutions during which nothing changed: a lookup is not atomic, and nothing is promised of one that is overtaken. Stdio is a reader, a bounded channel of answers, `out`, and a writer that ends at its first
error. The two reads of a listing are one step; an item without a tool call is answered at once.

### ServerLifecycle

A world names the command lines of up to three starts over one directory; a start may find what the one before left. `pc` goes from `survey` (which names have keys) through `migrate`, `bootstrap` and `gates` to `running`,
or stops there with a refusal; then `draining`, `joining`, `meta`, `audit`, `done`.
An old credential is its place in the configuration's list, with the name its key will have: credentials of one role have one name. A key says of which credential it was made (`of`, 0 for the root key), its name, and whether its secret was ever shown.
The migration looks at names only. An issue whose save fails leaves its key in memory (`unsaved`), the next save writes it too, and its secret is never shown; what is still unsaved at the end is gone with the process. `missed` is history: the credentials
a run failed at, or was cut short before. `http` and `ws` are the two listeners, which retry a busy port on their own; `work` the requests and connections that
go on when their listener has stopped, each with one record to leave in `queue`, which a store writes to `disk`. Whoever holds the AuditLogger last drops it, which shuts the writer down (`Exit`).

### DesktopTools

The screen is a front window and what each of a few places shows; an element, a mark and a click are at a place, so what the caches *mean* can be stated. A call is a list of events to inject (`events`), each a step of its own, after its
target was looked up under the cache's lock; reading the tree, reading the front window, and storing marks are steps too. `elements` evicts its oldest by id, `marks` is replaced as a whole. `sure` is history: the caller knew its target when it
called, `told` what it was told then. `pressed` and `stuck` say which keys are down because key_down asked for it or because a call failed. The platform decides where a click without a move lands.

### MarkedScreen

Five steps, `ProcessImage` (crop and scale), `Look` (the smaller picture in which boxes are looked for), `Detect` (blocks and their groups), `GenerateMarks` (elements, boxes, grid, and what is kept of them) and `Annotate` (what is drawn), over pixels in
three systems: the desktop, whose monitors may begin left of or above zero, the monitor and the picture. All roundings are those of the code (`round`, `as u32`, integer division).

A thing on the screen is a rectangle filled with a color, with an element in the tree or not. What detection sees of it is its outline: the pixels whose right or lower neighbor is of another color, that is the last ones within the thing at its right and bottom and
the ones just before it at its left and top (`Edges`), but none where the side lies beyond the picture. A block of 16 pixels is active if five of its pixels or more are such (`Active`); active blocks that are neighbors in one of four directions are one group (`Flood`, `Grouped`, in the scan's order), and
a group whose size passes is a box (`Found`, `Box`). The threshold is why an outline may fall to pieces: a thing that reaches a few pixels into the blocks of its corners leaves them inactive, and its sides are groups of their own.
A picture that was scaled down is blurred, by a pixel to either side of an edge; in which blocks that shows is a choice (`Glows`). Assumed of the picture: a thing's color is far from that around it, even after half of it is mixed in, what is on a thing is a thing itself, and no two outlines cross or touch.
A side that is less than half a pixel from the border of the picture that is looked at counts as on it. A box belongs to the thing whose outline it has blocks of (`Owner`), which is only used to say what is promised of it.

`MarksReach` and `MarkedOnce` speak of boxes of things that have 30 and 50 pixels on that picture, for smaller ones the blocks do not say where they are, and whose outline is one group by itself (`Unbroken`). Of a broken outline nothing is promised, and nothing holds: see section 5.
`Joined` is the loop that leaves out what has too large a part in common with something before it: among the boxes, and of the boxes among the elements. `Shown` is the filter of a crop. These loops, the groups', and that of `Lists`, are recursive functions.

## 3. Runs

| run | instance | result | about |
|---|---|---|---|
| `gateway_calls` | one terminal, two connections, one call; world 1: one connection per terminal and every event but reconnection; world 2: two connections superseding each other, with calls, heartbeats and lapses | 1.0 M states | pending map, refinement of `ToolCalls`, causes of Offline |
| `gateway_progress` | `Gateway`: the same constants, two smaller worlds. `Desktop`: one viewer, two starts, two connections, two versions of the screen; six worlds (a viewer that leaves and REST starts or stops; REST alone; reconnection; the agent's user; a changing screen) | 158 k states | every call returns, a dead session is noticed; one current stream on the live connection, old ones end, a first picture, sessions end |
| `audit_durable` | two callers, queue of one, four commands | 576 k states | durability of flush and shutdown, no caller waits for ever |
| `server_parts` | `AuditRotation`: four files, two attempts, six rotations. `Dispatch`: two terminals, two sessions, three requests at work, room for one answer; seven families of worlds. `ServerLifecycle`: up to three starts, two attempts to bind; three families of worlds | 124 k states | order of archives, newest kept; a call runs where it is meant and by who may, stdio answers and returns; migrations repeat, no open listener unguarded, accepted records are written, the process ends |
| `meta_writes` | two clients, queue of two, three updates; three worlds (with crash and stragglers; orderly shutdown; no end) | 150 k states | durability, shutdown, progress |
| `enrollment_pending` | `Enrollment`: three sessions, three identities that agree and one that conflicts with two of them, a list of two, one crash; two worlds (in memory, with one tick of the clock; with a file whose writes overlap and fail). `HttpAuth`: two requests at a time, ten worlds. `KeyStore`: three keys, one request, one tick of the clock; two worlds (crashes, failing saves; crashes, --no-bootstrap, deleted bootstrap file and keys.json) | 940 k states | one key per device, the limit, records held as promised; limits are exact, a right ends; what was acknowledged of a key holds, an admin key remains, the root key's server starts again |
| `executor_calls` | two calls, one pull of the kill switch; four worlds (two calls and cancellations; two calls and the kill switch; one call whose child forks; one call and everything else) | 196 k states | nothing escapes, nothing is left, no deadlock of locks, calls end |
| `agent_parts` | `AgentClient`: one address that parses and one that does not, three clicks. `DesktopTools`: two callers, two places, a cache of three; eight families of worlds. `MarkedScreen`: five monitors, some 200 shots, each without any blur and with all of it | 152 k states | one loop, which comes to rest; clicks, keys and differences; marks |
| `migration_each` | as `server_parts` | violated | a failed migration, repeated, reports as done a credential whose key was never shown |
| `client_stop_race`, `desktop_unwatched`, `screen_aspect` | small | violated | see section 5 |

Why the bounds are enough. The races of `Gateway` are between the tasks of *one* call, one terminal's registry entry and
at most two connections, one superseding the other; calls share nothing but the map, whose entries are independent, and
terminals nothing at all, so a second call or terminal adds interleavings but no interaction
(the proofs of section 4 are for any number). With one call and a queue bound implicit in the protocol, queues stay short.
In `AuditLog` a queue of one is the hardest: every second caller blocks. Four commands allow
record, barrier, record, shutdown in every order and from both callers. Six rotations of four files let a retry
delete a file that is still owed. In `AgentClient` an address matters only by whether it parses. A cancellation of one call meets its own timer
and a kill switch in `AgentExecutor`; a second call shows that they leave its neighbours alone. Three clicks are needed for two tasks and a wish that follows them.
Three keys allow a root key, a successor and
a bystander (which share the names of the sessions of `Enrollment`, under one symmetry), and one tick lets an expiry pass between a verification and the save of its use.
In `Enrollment` three sessions fill the list and ask for one place more, or leave one to conflict or to refresh while two snapshots overtake each other; one tick is a lifetime of records and
challenges. The clock and the file together are beyond a run of minutes: that records read from a file expire like others is left to the proofs. In `Desktop` the hazards lie between an old stream and its successor, so two starts; a second viewer of the same terminal
starts nothing that REST does not, and MaxStarts bounds both; two viewers and their four tasks, with liveness, are beyond a run of minutes. Two versions are enough for a first picture and a later one, and
pictures of two streams fill the channel of two.
In `HttpAuth` a limit of two failures in a minute, a ban at four, a quota of two and windows of one and two ticks let every window fill, overflow and slide, and a ban begin and end, within six ticks; two
requests at a time are enough to pass a check together, to fail together and for one to succeed after the ban the other has set. In `Dispatch` three requests let one rename or delete what another resolves while a third selects; two terminals give a
name that is another's id; room for one answer makes every second one wait. In `ServerLifecycle` three starts let a migration be cut, repeated, and followed by a service. In `DesktopTools` two places are two elements, so an eviction from a cache of three
needs two trees; the second caller reads, marks or types between any two steps of the first. `MarkedScreen` computes: its shots are chosen at the edges (boxes at, over and beyond the edges of crops and monitors, 3 pixels wide, unscaled, scaled down by a fraction and by much); some things lie within an element, whole or cut off by a crop; the box of one is more than twice its area; the outline of one is whole in one crop and in another falls into four strips. Whether a blurred edge shows is decided for all blocks alike: the theorems are for any choice.
In `MetaStore`, two clients let snapshots overtake each other, and three versions leave one pending, one in the queue and one on disk.

`CHECK_DEADLOCK FALSE` is set everywhere because these systems may really stop: all calls asked for, all commands
used, the writer ended. That nobody waits for ever is a liveness property of its own (`NothingHangs`, `OperationReturns`, `NothingWaits`, …).

Where a condition, once it holds, holds until what is promised happens, "it leads to the promised" is stated as `[]<>` of its not holding: the two are then the same, and TLC
decides the second with a much smaller product.

### Fairness

* `Gateway`: weak fairness of each server task's next step (tokio runs what is ready, timers fire) and of the sweep's tick; a
  heartbeat lapses in the end when nobody reads heartbeats of the terminal. Nothing is assumed of agents,
  the network, callers and cancellers before they begin.
* `AuditLog`: weak fairness of each blocked caller once it may go on, and of the thread. Nothing of crashes or disk.
* `MetaStore`: weak fairness of clients and the thread; strong fairness of `WritePending`, that is: a write
  that is tried again and again works in the end. Without this no retry can promise anything.
* `AgentClient`: weak fairness of every task's job and loop (a dial ends, timers fire). Neither the user nor the network has to act.
* `KeyStore`, `Enrollment`, `HttpAuth`, `AuditRotation`, `DesktopTools` and `MarkedScreen`: none; nothing is claimed to happen.
* `Dispatch`: weak fairness of the next step of *some* request at work, and of the stdio server's reader and writer. It is enough that some request moves: none waits for another but through the writer's channel.
* `ServerLifecycle`: weak fairness of the process's own next step (timers of drain and retry fire). Neither requests nor agents need end, nor a port be released: the drain's ten seconds and the retries are bounded by the code.
* `AgentExecutor`: weak fairness of the tasks that serve calls, of tools once they have something to do (a command that has its own
  timer is killed by it), of cancellations and kill switches. A child need never end by itself, nor a blocking tool.
* `Desktop`: weak fairness of both tasks of a viewer's session, of its handler, of the reader, writer and stream tasks of the agent, and of a stop by its user once begun. Nobody
  need connect or leave, the network need not break or come back, and a capture that fails is tried again in the next round, where it does not fail for ever.

## 4. Proofs

All theorems are for every value of the constants, under the named assumptions of the modules (sentinels
lie outside the sets they extend, capacities are positive, `Scenarios ⊆ SUBSET Events`, …).

* **Gateway**: `TypeOK`, `PendingOwned`, `WaiterReachable`. `PendingOwned` is not inductive alone: that a cancellation
  finds no answer in the oneshot depends on where the caller is. The inductive invariant `IInv` adds `CallInv` (what each
  program counter of caller and canceller implies for entry and oneshot, and that a send is in progress only at the right place) and
  `ConnInv` (a connection in use has a terminal). `Gateway`'s many actions fall into those that do not touch a call
  (`CallFrame`), those that abort (`CallAbort`) or answer (`CallResult`), and those of the call itself, a lemma each.
* **AuditLog**: `TypeOK`, `FlushDurable`, `FileInOrder`, `ShutdownLosesNothing`. `AInv` adds: as long as the writer has not failed, all
  it has processed is in the file (`DiskInv`); a command the writer has yet to answer belongs to a client waiting for exactly that
  command (`TicketInv`); and who holds the admission lock, from which follows that nothing is queued behind a shutdown (`LockInv`).
* **AuditRotation**: `TypeOK`, `ArchivesInOrder`, `KeepsNewest`. `RInv` adds `Vacant`: the place the next rename moves into is
  empty, which is why no rename overwrites, in a retried rotation too.
* **MetaStore**: `TypeOK`, `FlushDurable`, `ShutdownKeeps`, `NeverOlder`. `MInv` adds: what was renamed and not synced is still pending while the
  writer runs, so a retry never falls behind the file (`FileInv`); a flush or shutdown in the queue is the only one of its client, who waits for that
  snapshot (`QueueInv`); an Ok not yet collected is true (`AnswerInv`); and without stragglers nothing changes once a shutdown has begun (`ShutdownInv`).
  Five writer steps share `Writing` and `WroteKeeps`, five client steps `MovesOn`.
* **AgentClient**: `TypeOK`, `OneLoop` (by `LoopLocked`: whoever is in the loop holds the lock) and `ChannelLive` (by
  `Unspawned`: tasks of clicks not yet made are free, so a click never takes a running session's place).
* **AgentExecutor**: `TypeOK`, `NoneEscapes`, `NothingLeft`. `EInv` adds `CallInv` (a tool without a process is in no map; the
  task of a call cancels once, after it has inserted the handle) and `MapInv`: as long as nobody pulls the kill switch, which of the three maps a process is in follows from
  where its tool and its cancellations are. With the kill switch this is false, see section 5.
* **KeyStore** (in `KeyStoreProofs`, about `Doors`): `TypeOK`, `AcknowledgedHolds`, `BannerHolds`, `AdminRemains`. `KInv` adds: where the start has got to and which files
  are there (`StartInv`); a key that was not generated is in neither store, nor promised (`UsedInv`), which is why a new key harms no
  other; and an admin key in the file (`AdminInv`) or still in the bootstrap file (`RootInv`) once the banner was shown. One lemma, `ChangedKeeps`, reduces
  issue, revoke, delete and rotate to what they do to memory, whatever becomes of the save.

* **Enrollment**: all five invariants. What holds of the list must hold of every copy of it: `CopiesInv` says of the list, of each snapshot and of what each
  inode parses to that it is one-to-one, within the limit, and of identities that have signed (`Good`, `Known`), so that no order of writes and no restart
  can bring back anything else. `StageInv` ties the identity, the verification and the open file to how far a session is. `GrantInv`
  carries `HeldWhileGranted`: before the first crash a record expires when one of the granted sessions says (`Ledger`). These proofs cover the clock and the file together, which the run does not.

* **Gateway, continued**: `OfflineHasCause` and the refinement `ImplementsToolCalls`. For the first, `RegInv` adds to `IInv`: the session in the registry is
  that of the connection whose task keeps its id (`SessionInv`), no two connections have one id and none has one that is still to be given (`SidInv`), and a sender that a task
  has cloned is one of a channel that was opened, found closed if the task is about to say so (`ViaInv`). For the second, `OnceInv` says that an invocation is on one channel, once, and only before its tool has started;
  `AnswerInv` that a result, on its way or in the oneshot, is that of the tool that ended. With them every step of `Gateway` is one of `ToolCalls` or a stutter; `ToolCalls` has no fairness, so this is the whole refinement.
* **Desktop** (in `GatewayProofs`, about `MCProgress`): `OneStream`, for any finite set of viewers and any bounds. `StreamInv`: two streams that live have different generations, and what a start or an end of a session has
  still to do is not done by a stream that is current; `Counts` that there are no more
  broadcasts than viewers that came, and no more streams, begun or still promised, than starts asked for. Finiteness is needed because the code counts viewers.
* **Dispatch** (in `ServerProofs`, about `Server`): `RunsWhereMeant` and `ActsByRight`. For each request by itself: what its place in the handler requires of its fields (`Fine`), that it is at work only with
  the right its door had to check, and that the terminal it is at work on is the one it meant if nothing changed during its resolution (`Aim`). One lemma says that steps of others keep both, since `calm` is lowered by whatever changes what a resolution reads.
* **ServerLifecycle** (in `ServerProofs`): `ServesGuarded`, `AcceptedKept` and `MigrationRepeats`. `StopInv`: which store is shut at which place, and that nothing is in a queue whose writer is gone. `MoveInv`: no credential has two keys, saved and unsaved ones together, in any order of failed, interrupted and repeated migrations; a credential whose name is taken between two migrations has a key that was shown, unless it is one of `missed`; and the old credentials are removed, and "clean" is told, only if every
  name is taken. `MidInv`: during a migration a credential still to come has a key only if its name was there at the beginning.
* **AuditRotation** is in `ServerProofs` too, as above.
* **HttpAuth** (in `EnrollmentProofs`, about `Doors`): `WithinLimits` and `RightsEnd`. `ServedInv` says who a request at each place acts for; `RightInv` that a right that has ended was not given since, and what is left of it in
  sessions; `TicketInv` that a ticket in the store has not been tried; `BanInv` that whoever is served from a banned address was past its check; `CountInv` that the list the code prunes and the list of all that should count
  agree on what is in the window; `BurstInv` that a failure about to be recorded was below the limit at its check: the window holds at most the limit, less one, plus one for each request there can be. The lemmas about `Kept` go by
  the smallest length at which they fail (`NatLessThanWellFounded`), in place of an induction.
* **DesktopTools** (in `AgentProofs`, about `Agent`): `ClicksWhatWasMeant`, `HeldHasCause` and `DiffTells`, for any callers, places, calls, worlds and size of the cache. None is inductive alone. `ToolInv` adds, call by call: its fields by
  its place (`StageOf`), that the tree it keeps is all the screen showed when it was read (`KeepOf`), and that a difference comes from the last look only (`DiffOf`). `HandsInv`: the events still to be injected release what they press
  (`Paired`, except key_down), a click goes down and up where the last move before it goes to (`Aimed`), no move is among those whose failure is passed over (`Firm`), and while nobody else has moved the pointer it is at the last place injected (`calm`).
  `NameInv`: there is *one* map from ids to places, extended by each tree and never changed, with which the cache, every caller's tree and every call agree, whatever was evicted in between. `MarkInv`: a caller whose marks nobody has replaced has the
  cached ones. The lists of events of each tool are proved `Paired`, `Firm` and `Aimed` one by one (`ChordIs`, `ClickIs`, `DragIs`, `ScriptIs`, …), and what is left of such a list when its first events have gone is, too (`SuffixIs`).
  Assumed of the constants: there is a place, `None` is none of the values it stands beside, and calls have the form the tools' arguments have (`Plain`).
* **MarkedScreen** (in `AgentProofs`): `MarksReach`, `MarksCover` (with `WindowShown`) and, more than TLC looks at, `EveryPixel`: *every* pixel of the region lies on exactly one cell of a grid, where `GridCovers` tries nine. For any monitor, things, crop, window,
  scale, strategy, number of divisions and blur (`Glows`). `ScreenInv` says step by step what is known: the picture is a part of the monitor, unscaled, or smaller with a height that is the rounded one, or upended (`PicInv`); a window's crop shows what the monitor does of it (`WindowInv`); the spots are those of the
  things on this picture (`SpotInv`); each group has blocks of some outline, and the box of a whole outline that is found, of a thing of 30 pixels or more, is where the thing is, to a block (`DetectInv`, `Boxed`); the marks are a grid that is `Even`, or each is `Sound` and no thing that is large enough, unbroken and within the region has two (`Single`); what would be seen is drawn (`Drawn`).
  Where a box is follows from which blocks are active: one that a side crosses over six pixels or more has five edge pixels whatever else is in it and however it is blurred (`EdgesMany`, `LongIs`, `LitHas`), so the box reaches to each side that is seen, to five pixels; and an active
  block has at least one pixel of the outline or its blur, so the box does not reach further than a block beyond (`EdgesNear`, `LitBoxed`, `Covers`). A box that would reach from border to border is not found, being more than 85 % of the width or 60 % of the height.
  The rounding is taken one axis at a time and multiplied out: a quotient is replaced by the two inequalities that
  define it, so that what is left is linear in a few products that lemmas bound (`Axis`, `CenterHits`: the center of such blocks, scaled back, is within the span; `SpanCovers`: a mark of an element that is within the region, and its box, overlap by more than the quarter at which the code joins them). `Among`, `Joined`, `Flood` and `Grouped` are recursive
  functions, of which an invariant of the loop is proved by the least step at which it fails. A pixel's row and column in a grid are quotients, bounded by the divisions (`PartIs`, `CellIs`). Assumed (`ShotsAssumption`): a monitor has a size, sizes are not negative, a crop does not begin beside the picture.
* **Dispatch, continued**: `StdioDrains`, the safety half of `StdioAnswers`, for any lines and items, any room in the channel and any number of requests at work. `PipeInv`: a line that was read is at work, in the channel, written, or lost with the writer, and never two of these (`OnceInv`, `OwedInv`), and a line
  at work is owed an answer just if one of its items to come wants one or one that is done did (`AtLine`), which each answered item keeps. A writer that is done has left nothing in the channel nor a request that could send (`EndInv`). The steps of the registry, the selections and of other doors keep a line's request as it is (`Tied`).

Only model-checked, and why:

* All liveness (`NothingHangs`, `OperationReturns`, `NothingWaits`, `StdioReturns` in `StdioAnswers`, `StopsWhenAsked`, `StopsForGood`, `StreamsSettle`, `FirstPicture`): TLAPS has no rules for fairness or ENABLED here. Every invariant that a run checks is proved.

What is proved and not run any more: the `TypeOK` of `Gateway`, `AuditLog`, `AuditRotation`, `MetaStore`, `AgentClient`, `AgentExecutor`, `KeyStore` and `Enrollment`, `WaiterReachable`, `FileInOrder`, `ChannelLive`, `NeverOlder` and `OnlyProved`. TLC agreed with each on the instances of section 3
before it was proved; a proof needs no instance beside it.

## 5. Where code and documentation disagree

* `StaysDisconnected` (`client_stop_race`): the task of an address change sets `is_running` after a later disconnect cleared it.
* `UnwatchedStops` (`desktop_unwatched`): a viewer's session that ends because the viewer left counts its own push task, which still
  runs, among the remaining viewers, so it sends no stop; the push task ends at the next frame and nobody counts again.
* `KeepsAspect` (`screen_aspect`): the new width of a picture that is higher than wide is computed from its width instead of its height, so a monitor of 1080 × 1920 becomes a square, and the scale that
  is reported with it is above 1. `MarksReach` and `MarksCover` speak of pictures that are not upended in this way.
* `EachMigrated` (`migration_each`): a migration takes a credential for migrated if an active key has the name of its role. Of two old tokens of one role, the issue of one may fail and that of the other succeed; a repetition then passes over both and reports no failure. The key whose save failed stays in memory, so
  the next save writes it (`keystore.rs:449`), and its name is in the file although its secret was never shown. `MigrationRepeats` states what does hold.

Seen while modelling and not made into runs: the cleanup of a superseded connection fails the calls of the session that replaced it, although the
status update beside it is guarded by the session id (`ws/handler.rs:368`); a rotation retried as a whole deletes one more
archive at each attempt, so fewer than `retain_files` are left (`audit.rs:801`); a first start that dies between creating bootstrap_key.txt and
writing it leaves a file without a key, which `create_new` makes every later start refuse, although the documentation says it is
replaced (`bootstrap.rs:145`); a picture that finds the channel full counts as sent, and keepalives carry none, so the last change of a
screen may never be shown (`stream.rs:214`); a viewer who connects between another's count of the viewers and its stop is left without a stream, and so is one whose agent
reconnects, since nobody starts the stream again (`dashboard.rs:1074`); a stream that finds its old channel closed lowers the flag of a newer stream (`stream.rs:516`); snapshots of
pending enrollments overtake or tear each other, so a restart may have lost an acknowledged record, and a failed write is reported as
`identity_conflict` while the record stays in memory (`enrollment_store.rs:257`, `ws/handler.rs:562`); a refresh with an older clock shortens a record's life (`enrollment_store.rs:200`); a call that was checked before, and inserted after, the abort of its terminal's calls
waits for its whole timeout if the forwarder is still there to take its message (`router.rs:321`); a changed address does not end the session
that is up (`ws_client.rs:254`); a kill switch that is pulled between the steps of a registration leaves the dead process
in the maps of calls (`process_registry.rs:131`); a reconnect while the old loop is leaving finds the lock taken and gives up, so that
`is_running` is set with no loop (`ws_client.rs:264`); a disconnect followed by a reconnect before the next message leaves the old session up,
with its channel no longer in the shared cell (`ws_client.rs:219`); a rotation that ended between two renames leaves no `.1`,
and an export, which stops at the first missing generation (`audit.rs:979`), omits the archives behind it;
`shutdown_persistence` returns at a failed shutdown of the metadata store before it shuts the audit log down (`shutdown.rs:131`);
an update that returned Ok while the store shuts down is dropped with the queue (`meta_store.rs:662`; sessions of terminals that are still up make such updates,
since `main.rs:593-660` does not wait for them); a cancellation aborts the tool's task before it looks up its process, and if the task is dropped
first only the child is killed, and what the child forked lives on (`executor.rs:166`); the issue of an admin key that fails to be saved leaves a record in memory that nobody
can use and that counts as the last admin key's company (`keystore.rs:449`), as an expired admin key does (`keystore.rs:472`); the banner shows the root key before it is registered (`main.rs:347`), so
that a failing save of the first keys.json shows a key that works only from the next start; `crockford_base32_id` reads the upper bits of a word whose 40 bits of id lie lower, so
that the last three of the eight characters of an id are always the same (`keystore.rs:189`, `bootstrap.rs:49`).

Of authentication: a revoked key's sessions go on until their time is over, and a session stays what it was when the server got its first key (`session.rs:68`; `AuthorityEnds` states that bound); a login does not ask whether the key has the console's
scope; the health handler knows the tokens of the configuration only; the wait that a refusal by the quota names is rounded down.

Of dispatch: `find_terminal` compares names without their case in one pass, where its comments say "exact then case-insensitive" (`router.rs:143,152`); a
selection is never cleared when its terminal is deleted; REST passes the names of the server's own tools on to the agent; a cancellation over REST that fails, a mouse move and a change of custom metadata are not audited; the audit record of a call names the
argument as it was given, or the first resolution, which sees the session of the header only. Two statements one would expect do not hold, and are kept in `Dispatch` with the world that shows it: `ListComplete` (a terminal known
from before is not listed while another registers and a deletion comes between its two writes) and `CallRecorded` (a call whose HTTP handler is dropped has run and leaves no record, `dashboard.rs:432`).

Of the server's life: `shutdown.rs:125` says the stores are shut down "after producers have stopped", but sessions of agents are not joined (`ProducersStopped` of `ServerLifecycle` does not hold); a signal ends a stdio server only after its next
line or the end of its input (`StdioStops`); one that comes while a port is being tried kills the process; a failure to bind the agents' socket leaves a server without it (`main.rs:588`); the old process keeps its socket for the ten seconds of its drain, while a
new one tries for three; under the tray a start that failed exits with 0; a migration reports "complete" and exits with 0 after failures.

Of the desktop tools: `review_action_loop` replaces the difference of elements by that of the windows when the front window has changed (`window.rs:65`); "before" is everything the cache has gathered, old duplicates in no order
(`uia.rs:142`), and an element that has moved and changed is not reported; an id that no element has is taken for a mark's number (`uia.rs:1117`), and numbers start at 1 on every screen; marks are stored before their picture is encoded, which may fail;
`set_element_text` goes on when selecting all has failed, and puts an evicted element back; a chord or drag that fails in between leaves keys or buttons down; on macOS a click "at the current place" is one at the last place injected, and a release before
any move is at (0, 0) (`input.rs:406`); on Windows an injection never reports failure; a tool on a blocking thread goes on after its cancellation (`executor.rs:108`); a batch stops at the first error and does not say what it has done;
focusing a window without a title focuses the first, and is not verified; keys of two calls mix. Of the marked screen: an outline whose corners reach only a few pixels into their blocks falls into four strips, each of which is a box of its own: its center misses the thing, and with an element the thing has five marks (`som.rs:594`; a thing of 50 by 50 at (776, 328) of a monitor cropped to 900 by 700 from (200, 200), unscaled, is one; `Cut` of `ScreenShots` has it, and `Unbroken` excludes it); two outlines whose active blocks are neighbors are one box; a box of the last, partial block may have its centre beside the picture, and elements on other monitors are numbered and not drawn; an element that a crop cuts off may get two marks, one of the whole element and one of the part in the picture, which have too little in common to be joined (`MarkedOnce` therefore speaks of things within the region); the grid that "contours" falls
back to does not ask for its divisions.

## 6. Not modelled

Nothing of what is left keeps state that several tasks share, or state over which a property could fail that a unit test would not find:

* *Agent tools that call into the operating system and return*: processes, files, services, networks, the TUI. `Gateway` and `AgentExecutor` have them as a tool that ends, well or not, or is killed.
* *Pure input, once at the start*: parsing of configuration and command lines, loading of TLS; `ServerLifecycle` has its outcome. The end of a log file that `tail.rs` reads is one read.
* *Encodings*: messages, pictures, blocks of changed pixels in `desktop-core` (a picture is a version of the screen), hashes, credentials' format and secrets.
* *Presentation*: the agent's window, the trays' menus, the web console, descriptions of tools as JSON, metrics and logging.
* *Build support, benchmarks, end-to-end tests.*

In the modelled parts: a second Register on an open connection, binary desktop frames and the refusal of a peer in `handler.rs`; input events of a viewer and the lag of a slow one; redaction, truncation and
filtering of audit records; the reader's races with a rotation; the contents of terminal metadata and of answers; coordinates given as normalized or relative to a display, the depth and the query of a tree, the drawing of badges. Two viewers of one terminal with
liveness, the clock together with the file in `Enrollment`, and a second terminal in `Gateway` are beyond a run of minutes (section 3 says why the bounds are enough).

How a `Windows` build and a `macOS` build differ is modelled only where the tools' results differ (`platform` in `DesktopTools`).
