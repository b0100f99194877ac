# A specification of Atelyx

Atelyx is a note and canvas application. A personal repository is a folder of
plain files; a collaboration space lives on a server, which is its source of
truth, and desktop clients join it over HTTP and one WebSocket channel. Plugins
are separate processes that talk to the desktop application in JSON-RPC over
stdin and stdout.

This directory holds TLA+ modules of the parts in which actors interleave,
model-checking configurations for TLC, and proofs checked by TLAPS. Every
definition is translated from the source; `PROJECT.json` names the lines
(`map`), the runs, the hazards and the theorems.

Run a configuration with `tlc -config X.cfg M`, check the proofs of a module
with `tlapm M.tla`.

## The system

| Component | State | Operations | Interacts with |
|---|---|---|---|
| Server room (`atelyx-server/src/ws.rs`) | rooms by space: connections with their outbound channel (256 frames) and kick signal, plugin sequence number, cache of plugin frames (128 frames, 4 MiB) | join, leave, forward presence / patches / note syncs / ephemeral frames, number and cache plugin broadcasts, replay, kick | every connection's send task through its channel; HTTP handlers that announce patches, renames, metadata |
| Pump (`atelyx-core/src/collab.rs`) | command buffer, back-off, cursor of plugin frames, stash, void numbers, gap deadline | connect, hello, deliver, replay request, gap timer, bye | the server's room; the shell, by a command and an event queue |
| Accounts and sessions (`auth.rs`, `state.rs`) | users, device sessions | register, login, logout, revoke device | every request authenticates against the sessions |
| Spaces (`spaces.rs`) | spaces with members and roles, invites | create, rename, transfer, remove member, create / revoke / accept invite | kicks connections of removed members |
| Administration (`admin.rs`) | — | reset password, end a user's sessions, overview, logs | ends sessions, kicks |
| Admission (`space_ws.rs`, `access.rs`) | — | hello: authenticate, check membership, enter, check again | sessions, spaces, room |
| Path locks (`state.rs`) | table of reference-counted mutexes by key | lock, release, removal of unused entries | all writers of content; history's side files |
| Roster persistence (`state.rs`) | four JSON files | mutate (snapshot, change, write, roll back), open | disk |
| Content (`content.rs`, `patches.rs`, `history.rs`, `fsops.rs`) | the space's files and `.atelyx/` side files | write, patch, rename, copy, delete, folders, history | path and structure locks, room notices |
| Metadata, dated notes, index, logs (`meta.rs`, …) | small files, caches | patch, query | — |
| Note collaboration (`note_collab.rs`) | Yjs document and baseline per note | open, adopt, rebuild, reply, relocate | pumps of all members |
| Ephemeral channel (`ephemeral.rs`) | own state, remote states with clocks | set, flush, apply, expire | pump |
| Canvas and table collaboration (`canvas_collab.rs`, `table_ops.rs`, sessions in `space_actions.rs`, `canvas_actions.rs`, `table_actions.rs`) | data, saved baseline, dirty mark, undo and redo per open sheet | edit, undo, save, merge what others landed | the server's patch endpoint and broadcast, autosave timer, assistant runs |
| Merge, history diff (`merge3.rs`, `history_diff.rs`) | — (pure) | three-way merge, diffs | shell, server patches |
| Write queue (`write_queue.rs`) | one queue, one thread | write, bulk, barrier | vault |
| Vault (`vault.rs`, `vault_refs.rs`, `history.rs`, `rebuild_links.rs`) | local files | read, write, move, trash, links | write queue |
| Plugin instance (`plugin_runtime/instance.rs`, `plugin_process.rs`) | pid, run token, generation, status, crash times, resources | start, stop, fail, exit, back-off restart, handshake watchdog, requests | reader, watchdog and restart threads; the runtime |
| Plugin runtime (`plugin_runtime/mod.rs`, `install.rs`, …) | instances, states, presets | scan, enable, retry, install, uninstall, switch vault | instances, shell |
| Plugin services, AI tools (`service_dir.rs`, `ai_tools.rs`) | providers by service, active one, pending calls | register, set active, call, result, drop | instances |
| Host calls (`fs.rs`, `http.rs`, `frame_region.rs`, …) | audits, shared frame memory | file, HTTP, table, markdown, frames | instances |
| Protocol and SDK | — | messages, handlers | plugin processes |
| AI sessions (`ai/`) | chat trees, streams | ask, stream, tool loop | model provider, tools |
| Documents (`markdown/`, `frontmatter.rs`, `search.rs`, …) | — (pure) | parse, search | — |
| Desktop shell (`atelyx-app`), widgets (`atelyx-ui`) | views | one thread of messages | everything above |

### What is hard, and what makes each part correct

* **Room and pump.** Connections die on the two sides at different times; a
  member rejoins before its old connection is gone; channels overrun; caches
  evict; rooms vanish with their last connection and are rebuilt. Correct means:
  a shell sees the room's broadcasts in order and once; the cursor passes a
  number only when its frame was seen, is nobody's business, or was given up;
  no gap waits forever.
* **Accounts, spaces, admission.** Every roster change is atomic, but a handler
  has steps around it, and joining takes four. Correct means: one owner; one
  session per device; no connection stays when its session or membership is
  gone, whatever fell between which steps.
* **Path locks.** Releasing and tidying are two steps, calls may be dropped
  while they wait. Correct means: one writer per path, no entry removed while its
  mutex is in service, nobody waits forever, the table does not grow.
* **Roster persistence.** Four files written one after the other, writes that
  fail, a crash in between. Correct means: a refused change is nowhere, and a
  crash loses nothing that was answered for and leaves at most the one change
  under way, and that in part.
* **Content.** Path locks, a structure lock, and operations that take neither;
  existence checked before the wait for a lock; side files that are moved after
  their files. Correct means: no write revives a document that was moved or
  deleted; a patch is merged into what it is written over; a recorded version is
  in one side file; no order of locks stops the server.
* **Note collaboration.** Members load at different times, lose connections, and
  save while others type. Correct means: members end with one text, and nothing
  unsaved is merged away.
* **Canvas and table.** Saves overlap, answers and others' patches overtake each
  other, undo falls between a save and its answer, the assistant writes into a card
  that others move. Correct means: a member with nothing to save shows the file, a save sends
  what its member changed and nothing else, unsaved changes get saved.
* **Ephemeral states.** Late, repeated and lost frames, members that are twice in
  the room. Correct means: a late frame never revives a state; readers come to
  show what is true.
* **Plugin instances.** Watchdog, reader and restart threads act on one instance,
  only some of them under its transition lock. Correct means: a stopped plugin
  stays stopped, a running status has a process.
* **Plugin services.** Announcements are told outside the directory's lock; calls
  outlive the sessions on either side. Correct means: what a plugin was told is
  where its calls go; a call ends with the session it waits for; its answer goes
  to the session it was asked in.

## The modules

```
PluginFeed        abstract: a member sees an ascending part of the room's order
  ^ implements
PluginRelay  --- PluginPump (the pump's bookkeeping as operators)
  MCPluginRelay, PluginRelay*.cfg        PluginRelayProofs

KeyedMutex        abstract: one lock per key
  ^ implements
PathLocks              StoreProofs             \
ContentStore           StoreProofs              |
RosterStore            StoreProofs              |  MCShared, Shared.cfg
EphemeralChannel       CollabProofs             |  SharedProofs
NoteBaseline           CollabProofs             |
ServiceDirectory       ServiceProofs            |
ServiceCalls           ServiceProofs           /

SharedSheet       MCSharedSheet, Sheets.cfg, SheetClean.cfg    SharedSheetProofs

SpaceRoster       MCSpaceRoster, SpaceRoster*.cfg    SpaceRosterProofs

PluginInstance    PluginInstance*.cfg    PluginInstanceProofs
```

### PluginPump, PluginRelay, PluginFeed

`PluginPump` has the part of `PumpState` that deals with plugin broadcasts as a
record, and one operator per handler: `HelloAcked`, `Broadcasted`, `Acked`,
`BinarySeen`, and for the grace deadline `Disarmed`, `ReplayAsked`, `GaveUp`
(its three branches in `run_session`). The loop of `flush_plugin_contiguous` is
`Reach`, the furthest number to which everything is known, and `Flushed`, what is
handed over on the way. Deadlines are Booleans: an armed timer may fire at any
time.

`PluginRelay` composes one pump per client with the server's room. A connection
is a peer id with a queue in each direction. `ring` is the outbound channel of the
server: full, it drops its oldest frame (`Enqueue`). Both ends of a connection
leave independently (`Drop`, `Leave`), so old connections linger, get frames and
overlap with new ones. `Leave` of the last peer replaces the room (`Rebuilt`); a
restart of the server is all peers leaving, except that peer ids start again.
Every traffic without a number is `Other`: it only pushes frames out of the ring.
The variables `sent`, `log`, `course`, `published` and `others` are history, and
`epoch` in a frame, which is not on the wire, tells incarnations of a room apart.

`PluginFeed` is the promise. The refinement maps the room's sequence number to
the number of frames sent and each log to the numbers seen.

### KeyedMutex, PathLocks

`lock()` has three steps: take (or make) the entry under the table's lock
(`Lookup`), enter the line of the mutex (`Enqueue`; Tokio's mutex is fair), get
it (`Acquire`). A waiting future may be dropped (`Cancel`). Dropping the guard is
`Unlock` and then `Tidy`, which removes the entry when the table has the only
reference (`Shared` is the reference count). `abandoned` is history: keys whose
last call was dropped while it waited. Such an entry stays in the table until
the key is locked again; `EntriesUsed` says that this is the only way.

### SpaceRoster

The roster (accounts, sessions, owners, members, invites) changes in one atomic
step per `ServerState::mutate`. A request that was authenticated is an element
of `tasks`, and stays one between its steps: `VerifyLogin` and `InstallSession`
of a login, the removal and `FindAndKick` of `remove_member`, and `Kick` wherever
a handler signals connections after its change. A connection passes `Hello`,
`CheckMember`, `Enter` (from here the kick signal reaches it), `Recheck`, and is
then open until it obeys a kick or hangs up. Which code ends a session without a
kick is recorded in `silent`, a history variable. `Restart` loses tasks and
connections and keeps the roster.

### PluginInstance

The atomics of `Instance` are variables, and `step` says where each thread
stands: the holder of the lock `transition` (`Owner`: starts, stops and back-off
restarts take turns), and for every session the reader of its output, the thread
that waits for its exit (`Keeper`) and the timer of its handshake (`Dog`), which
take no lock. An action is one access to a shared atomic or one critical section of
the gate `resources`; `End`, `NextToken`, `Kill` and `Release` are
shared by `stop`, `fail` and `on_exit` as in the code. A process goes by the run
token of its session. `held` is the set of sessions with resources booked under
the gate (child processes, shortcuts, contributions, the frame region), `calls`
the waiting tool calls. `backoffs` holds the generations that sleeping restart threads
captured. Of `crash_times` the model keeps the count, and any part of it may have left the
window. `wanted`, `greeted` and `late` are history; `late` becomes true when a
failure, an exit or a stale handshake overlaps a start or a stop.

Left out are the enabled mark on disk and its roll-back when a start fails, a plugin
without a program for the platform (it fails every start alike), and what a
request does beyond booking a resource.

The gate and the tokens are meant to hold under any overlap, and `CallsSwept` does. The
other properties do not: the watching threads act on what they read before,
without the lock. They are stated up to the first overlap (`late \/ ...`), and
`plugin_restarts` shows what one overlap does. In that run's cfg nothing is cut
off; in `plugin_instance` the constraint `InTurn` ends a behaviour at its first
overlap, and loses nothing of the properties, which hold trivially from there,
except of `CallsSwept`; all four are proved for all behaviours.

### ContentStore

The requests on one space's content as concurrent handlers. A request arrives
with what its handler does before it first waits (`ArriveWrite` decides here
whether it creates; a write and a rename make the folder of their target), takes the structure
lock and its path locks in the code's order, and returns (`Return` drops its guards).
`at` says where it stands, `about` is the document it is about, `base` what a
patch read, `got` the versions a record read, `todo` the side files a rename has
yet to move. A document is known by the request that created it, so that a file
brought back can be told from one made anew. The locks are those of `KeyedMutex`;
a side file's lock is another key of the same table. When a client hangs up, its handler is
dropped where it waits, with its locks: for a lock, between two side files, or while a folder's entries
are counted (`Drop`). The removal of a folder and a copy are awaited in `spawn_blocking`
(`content.rs:451`, `:341`) and go on without a handler that is dropped there; that is not
modelled: each is one step under its locks. `DeleteFile` and the guard of
`LandPatch` are one step each, under their locks; counting a folder and removing
it are two (`CountFolder`, `RemoveFolder`), as are the check and the move of a side file.

Four history variables mark what the properties leave out: `swept`, writes whose
folder was moved or removed between their check and their writing; `doubled`,
documents that were copied or brought back in a way the code does not exclude (a swept write, a
write that finds another document at its path); `kept`, versions answered for;
`crossed`, versions of two side files of which a move replaced one with the other,
since a move takes the lock of its source only.

### RosterStore

`ServerState::mutate` with its writes one by one: `Change` (snapshot and change in
memory), `WriteFile` four times, `Answer`; or `WriteFails`, `WriteBack` or
`WriteBackFails` for the files written before, `Refuse`. `RestartServer` may come
anywhere and loads the files. A file's content is the number of the change that
last changed it; `Touches` has the sets of files that the handlers change.
`proposed`, `answered` and `drifted` are history: a file whose write-back failed holds a
refused change until it is written again.

### EphemeralChannel

A writer has `local_state`, `local_sent` and a clock, a reader an entry and a clock
watermark (`seen`) per writer; one action per operation of the channel, together
with what the shell calls with it: `Connect` sends the state again, `ReaderDown`
clears entries and keeps watermarks, `ApplyPeers` drops those whose peer left the
list. The pump keeps frames while it has no connection and drops them during the
handshake (`Dispatched`). Time is `Tick`, 15 seconds: nothing that is due in a
step is left undone in it. That the shell hears of a broken connection a moment later
is left out.

### ServiceDirectory, ServiceCalls

`ServiceDirectory` is one entry of the directory. Each change ends with an
announcement on the same thread, in two parts, `TakeSnapshot` and one `Tell`
per plugin, without the lock. `overlapped` is history: two announcements were told
at the same time, and the last to arrive need not be the last that was made.

`ServiceCalls` follows a call through the bridge: routed, booked in the gate of
the provider, the caller's token taken, waiting, written. A plugin's session may
end at any point and its sweep (`FailCalls`) comes later. `slipped` (the asker's
session ended while its own thread was at work on the call, or while the answer
was being written), `unswept` (those of them that were not booked yet, which the sweep
misses) and `strayed` are history. `NoneForsaken` excepts `unswept`, `AnswersOwn` `slipped`.

### NoteBaseline

One note, edited by several members: `open`, `local_edit`, `adopt_baseline`,
`receive_baseline_frame`, `receive_sync_frame`, `reply_baseline`, driven by the
shell's load, save and reconnection. A text is a set of lines, each typed once;
`merge3` is then `Merge3`. Of yrs, a library, the model has what the code
relies on: a seed that is the same for all who have the same baseline, insertions
numbered per client and shown when none before them is missing, deletions by
mark. A baseline's hash is its text. A save is two steps (`SaveRead`: GET and merge;
`SaveWrite`: PUT and receipt, or `SaveFail`: an error, with the merged text in the file or not, since the
answer may be what was lost), a load likewise. A member keeps one author id, where the
code takes a new one each time it opens a note (`space_actions.rs:2854`, `:3485-3490`), and tags
are compared by number and author only; the third key, the text's hash, decides between two
announcements of one author with one number, which the bounds do not reach. `parted`, `hushed`, `aligned` and
`filed` are history: a connection ended, a baseline went unanswered because of the pause of
two seconds, a save changed the document without telling others, what the file ever held.

### SharedSheet

One canvas or one table (`kind`) that several members have open. A sheet is a
function from the cards it has (nodes and edges, fields and rows) to an appearance
and, for a conversation card, a set of messages; `Diff` is
`compute_canvas_patch` / `compute_table_patch`, `Apply` what the server and the
clients do with a patch. `session` is `CanvasSession` / `TableSession`: `data`,
the baseline `saved`, `dirty`, the undo and redo stacks, whether the autosave
deadline is set (`armed`). `Edit`, `Remove`, `Undo`, `Redo`, `Ask` and `Reply` change it by
hand or for the assistant, which only the holder of a card's lock (`locks`) may ask;
`Tick` and `Flush` submit a save, `Land` is
`patch_entity` with its broadcast, `Ack` and `Fail` are the receipt. Two saves of
a member may be under way at once; a flush whose receipt finds newer data is
submitted again. A save without a difference is sent as a `GET` that
compares only ids, and is modelled so. `Receive` merges a landed frame: a canvas moves
data and baseline on (`MergeCanvas`, with the protection of messages), a table its baseline
only when it is clean (`MergeTable`); both void undo and redo. A session is left only
when it is clean (`gate`), and a receipt reaches the session that has the file
open then, also a later one. Frames that come between the `GET` and `on_loaded` are
dropped; `Cut` loses the frames on their way, and nothing reads a sheet anew. When others'
patches come in while a save is under way, its receipt finds other data than were
frozen and leaves the session dirty without a deadline; in a canvas the next message
sets one (`Arm`), in a table only the next change.

`tally` counts down what may still happen, from one of the `Budgets` of a run.
`contested`, `missed`, `known` and `written`, the field `knew` of a save, and `own`, `adrift`,
`said` and `prior` of a session, are history. `contested` has the cards whose
writers did not know of each other's writing: the server merges in the order of
arrival, clients in the order of frames, and both take a card as a whole, so the
last wins at the server while the writer's own session keeps its own; it also has
the cards of two overlapping saves, of lost ones, and of sessions left with a save under way.
Two more came to light in the attempt to prove `Agreement`; they take three changes and
three saves, more than the runs allow, and TLC found both once asked for them. A canvas
merges another member's card while its own save is under way, and the member sets it back by
hand to what the save has: the receipt finds the frozen data and takes the session for
saved, though the file has the other's card (`space_actions.rs:2024`). A table with unsaved
changes merges a row, its baseline stays behind, and the member sets the row back to what
the baseline has: nothing is sent, and the file keeps the other's row
(`space_actions.rs:3822`). `Mistaken` puts the first into `contested`, `Behind`, by way of
`adrift`, the second. The receipt and the baseline compare contents and not who wrote them,
so they cannot tell.
`missed` has the cards whose patch a member was never shown. `Agreement` speaks of
all other cards.

### MCShared

The seven parts from `PathLocks` to `NoteBaseline` have no variable in common.
`MCShared` chooses one of them at first, and a behaviour is one of that part
while the others stay at their start; every state of every part occurs, and a
formula over one part's variables holds in `MCShared` exactly when it holds in
that part. Action properties of the others see them stutter. Fairness is stated for
three parts and asks nothing of those that do not run: their fair actions are disabled where
they start.

## The runs

| Run | Bounds | Shows |
|---|---|---|
| `relay_lossy` | 2 clients, 3 connections, 2 frames of both kinds, 1 other, cache 2, ring 2, room may empty | `TypeOK`, `CacheIsTail`, `CursorSound` under loss and rebuilding |
| `relay_live` | 2 clients, 3 connections, 2 frames, cache 1, ring that never overruns, room that stays, fairness | `StashDrains`, `CatchesUp`; `PluginRelay` implements `PluginFeed` |
| `relay_rebuilt` | 4 connections, 2 frames, room may empty | a counterexample to `MissedArrives` |
| `relay_lag` | 3 connections, 3 frames, 2 others, ring 2, the first connection stays | a counterexample to `InOrder` |
| `space_roster` | 2 users, 1 device (and none), 1 space, 1 connection, 2 session ids, 1 invite code with limit 1 or none, 2 requests in flight | `OneOwner`, `DeviceOnce`, `RemovedAreKicked`, `RevokedAreKicked` |
| `roster_outlived` | the same | a counterexample to `RevokedLeave` |
| `roster_old_password` | the same | a counterexample to `OldPasswordEnds` |
| `plugin_instance` | 3 starts and stops, 4 tokens, 2 crashes break the circuit, 1 tool call, fairness, up to the first overlap | `CallsSwept`, `HeldSwept`, `OneProcess`, `StopHolds`, `SilenceEnds`, `DeathNoticed` |
| `plugin_restarts` | the same, with every overlap | a counterexample to `RestartsVoided` |
| `shared` | seven parts, one at a time, see below; fairness | the properties of the next table |
| `sheets` | 2 members, 2 cards, 2 saves, undo depth 1, and one of: a canvas with 2 changes and 1 session left; a canvas with 1 change, 1 session left, and 1 connection or answer lost; a canvas with a conversation card, 1 change and 2 messages; a table with 2 changes; a table with 1 change, 1 session left, and 1 loss; symmetry of members and of cards | `CleanIsSaved`, `OnlyOwnChanges`, `Agreement`, `UnsavedSaidKept` |
| `sheet_clean` | a canvas, 1 member, 2 changes, 2 saves | a counterexample to `CleanIsOnDisk` |

The parts of `shared`:

| Part | Bounds | Shows |
|---|---|---|
| locks | 3 calls, 2 keys, 3 mutexes | `EntriesUsed`, `Granted`; `PathLocks` implements `KeyedMutex` |
| content | 2 folders with 2 names, 1 file at first, 3 requests out of 13, 2 versions in a side file | `PatchFresh`, `OnePlace`, `HistoryOnce`, `NoRevival`, `RequestsEnd` |
| roster | 2 changes | `Durable` |
| ephemeral | 1 writer of 1 state, 1 reader, 3 frames, 2 connections, ring of 2 | `LateStaysOut`, `TruthShown` |
| service | 2 plugins, 3 sessions, 2 changes, each of three kinds of service | `KnownIsRouted` |
| calls | 2 plugins with 3 sessions each, 1 call at a time | `NoneForsaken`, `AnswersOwn` |
| note | 2 members, 1 line each, 2 loads, 2 connections, 1 save, 3 documents each, 1 frame waiting when a member types, saves or connects | `UnsavedKept`, `TogetherAgree` |

`AllTypesOK` is the types of all seven.

Deadlock is not checked where a bound lets the model stop.

**Why the bounds are enough.** Three connections for two clients allow one rejoin
while the old connection lingers, the situation every reconnect bug needs; four
allow a room to be emptied and rebuilt under a member. Two frames make a gap,
three make a gap behind a gap. A cache of one or two frames evicts, a ring of two
overruns: the real limits (128 and 256) only make both rarer. For the
roster, a kick concerns one connection, one user and one space, and two requests
in flight are enough for one to run between another's steps. Session ids are
reused when nothing refers to them any more, so two suffice. Three calls on a
key give a holder, a waiting call and one that comes or tidies between them;
the mutex bound 3 lets an entry be removed and made again while another key has one. Three requests
on content are two that meet at a lock and one that remakes, renames or records
between them, and the 13 asks are each operation on one file, a neighbour and their
folder. Two changes of the roster are one answered for and one under way. Three frames
and two connections of a writer give an old connection, read after the new one, and a
reader that misses the last frame. A call ends or is swept alone, so one at a time
suffices; three sessions let both sides be replaced under it. In a note, two members
that load different texts adopt, reply and merge once each; the frame bound keeps
typing from running ahead, not the exchange of frames. In a sheet, two changes and two
saves of two members overlap in every order (both of one member, or one each), two cards tell a
card that was touched from one that was not, and an undo stack of one is at its limit
at once; a loss is combined with one change only, and that nothing is lost over longer
exchanges is not shown. Members and cards
without messages are interchangeable, so symmetry is sound: no property of these runs is temporal. Three starts and stops
of a plugin give a start, a stop and the restart it must void, or two sessions and
a stop between them; four tokens are what these take with a crash among them. The proofs cover all
safety properties of the passing runs for all sizes; the
refinement of `PluginFeed` they cover under the condition named with them.

**Fairness.** Server and pump tasks run on Tokio: an enabled read of a queue
(`ServerRecv`, `ClientRecv`) and an armed timer (`GapTimer`) are weakly fair.
Joining, leaving and publishing are not: nobody need reconnect. In `PathLocks`,
`Enqueue`, `Acquire` and `Unlock` are weakly fair: a polled future goes on,
a handler ends (content handlers hold no lock across unbounded waits); `Lookup` and
`Cancel` are not. In `ContentStore` some handler goes on while one can; requests are finitely many, so
no handler is passed over forever, and none need be dropped. In `EphemeralChannel` what goes on by itself goes on as a whole:
queues are read, time passes, the shell's tick flushes, keeps alive and expires;
each of these disables itself until the next `Tick`, so none starves.
Connecting, changing and leaving are not fair. In `PluginInstance` every thread with a next statement runs it, and the
handshake's timer rings; the exit of a dead process is reported under strong
fairness, since the lines it left in its pipe are finitely many and come first.
Users, plugins and tool calls need do nothing.

### What the counterexamples mean

* `relay_rebuilt`: on a rejoin the pump takes a header below its cursor as the sign of
  a rebuilt room (`collab.rs:633`). A rebuilt room that has numbered as many
  frames again goes unnoticed, and the frames below the cursor, which
  the server still caches, are lost, against `docs/plugin-development.md:665`.
* `relay_lag`: a member's own frame, acknowledged before an earlier one arrived, comes
  back with a replay after the member rejoined under a new peer id; it is then both
  void and stashed. The cursor walks over it, and `flush_plugin_gap` later hands it
  over and puts the cursor back, against the comments at `collab.rs:783` and `:837`.
* `roster_outlived`: `logout` and `revoke_device` end a session and signal nobody, so
  an open connection stays in the room, against `ws.rs:757`.
* `roster_old_password`: a login that has verified the old password opens a session
  after `reset_password`, against `admin.rs:177`.
* `plugin_restarts`: a plugin crashes while the user disables it. `on_exit` has read the
  status before `stop` sets it, goes on, sets `Restarting` after it and captures
  the generation that `stop` made (`instance.rs:716`); the restart thread finds all
  as expected and starts the plugin, against `instance.rs:404` and `:89`.
* `sheet_clean`: an undo to the baseline while a save is under way. The receipt finds other
  data and leaves the baseline; the next save sees no difference, asks for
  the file's id only, and the session counts as saved while the file has the undone change,
  against `space_actions.rs:2023` and `:1901`.

### Disagreements without a run

Four more were met as behaviours of the models. Each is left out by name in the property
that it would break (or lies beyond it), so that the property says the rest. A fifth lies
outside the models.

* `NoteBaseline`: `adopt_baseline` merges over the member's own `last_flushed`
  (`note_collab.rs:381`). A member announces a baseline, types a line and saves it;
  another loads the file with the line, then receives the older announcement, whose tag
  wins, and takes the line for one that the announcer deleted, against
  `note_collab.rs:366-370`. The handshake that follows brings it back while the announcer
  is there to answer; if it has left, a later save of the adopting member deletes the line
  from the file. `UnsavedKept` speaks of lines that were never in the file.
* `NoteBaseline`: a reconnecting member asks for what others have, and nobody asks it in
  return: an update lost with the connection stays unknown to the others, against
  `note_collab.rs:184` (the periodic exchange it names is called nowhere) and
  `collab.rs:964`. `TogetherAgree` excepts ended connections (`parted`).
* `SharedSheet`: a member asks, an autosave puts the question into the file and the
  baseline while the answer is being written, and another member's patch that moves the
  card, made before it knew the question, lands. The messages equal the baseline, so they
  are not kept (`canvas_collab.rs:55`): the question is gone, against
  `canvas_collab.rs:93`. `UnsavedSaidKept` speaks of messages that were never in the file.
* `SharedSheet`: a table with unsaved changes merges another member's row and keeps its
  baseline (`space_actions.rs:3822`), so its next save sends that row too, over a value
  that is newer by then, against `vault.rs:912`. `OnlyOwnChanges` is of canvases, and such
  a row is in `contested`.
* `ContentStore`: the client of a `delete_folder` hangs up while the folder is being
  removed. The handler is dropped, and its structure lock with it, but the removal goes on in
  its own thread (`content.rs:451`). A patch gets the lock and reads a file of the folder,
  which is gone when the patch is written, against `content.rs:433-434`. A variant of the
  model in which the removal may lose its lock shows this for `PatchFresh`.

Three concern comments only. `collab.rs:467`
says that ephemeral states are not queued; without a connection they are
(`collab.rs:291`, `:325`, sent at `:551`), as `EphemeralChannel` has it. `content.rs:433-435` excludes a
revival by `delete_folder`; a write that passed its check lands when a third
request has made the folder again (`swept`). And `CatchesUp` can only say that what lies
above a cursor is void: `flush_plugin_gap` does not walk over void numbers behind the
last frame it hands over (`collab.rs:837-848`).

`CursorSound` carries a condition for `relay_rebuilt`: it speaks of pumps that have not
taken a rebuilt room for the old one (`skewed`).

### What the properties except

A property that would not hold because of one known overlap names it in a history variable
and speaks of everything else. What happens after such an overlap is then not covered: a
hazard in `PROJECT.json` that consists of it alone lists no property, and where the overlap is
part of one, its note says so.

| Except | In | Because |
|---|---|---|
| `swept`, `doubled` | `NoRevival`, `OnePlace` | a write that passed its check while its folder goes and comes back, or finds another document at its path (`content.rs:223`, `:436`) |
| `crossed` | `HistoryOnce` | a side file's move does not take the lock of its target (`history.rs:396`) |
| `hushed`, `parted`, `aligned` | `TogetherAgree` | an answer in the pause of two seconds, an update lost with a connection, a silent save (`note_collab.rs:431`, `:184`, `:403`) |
| `late` | `HeldSwept`, `OneProcess`, `StopHolds`, `SilenceEnds`, `DeathNoticed` | a watching thread acts without the lock (`instance.rs:716`, `:393`); `plugin_restarts` shows one |
| `overlapped` | `KnownIsRouted` | two announcements told at once (`service_dir.rs:797`) |
| `slipped` | `AnswersOwn` | the caller's token is read after the booking (`service_dir.rs:655`) |
| `unswept` | `NoneForsaken` | a call booked after its asker's sweep waits for its time-out |
| `contested`, `missed` | `Agreement` | cards of writers that did not know of each other, patches never received (`patches.rs:336`, `space_actions.rs:3822`, `ws.rs:466`) |
| `abandoned` | `EntriesUsed` | a waiting call dropped as the last of its key (`state.rs:145`) |
| `skewed` | `CursorSound` | a rebuilt room taken for the old one; `relay_rebuilt` shows it |

## The proofs

From the assumptions on the constants named in the modules (all weak: bounds are
naturals, sizes positive, model values distinct, and the sets of cards and members finite, as
those of a file and of a space are), TLAPS proves:

* **The cache is a tail** (`CacheTail`). Inductive invariant: `RoomTypeOK` and
  `CacheIsTail`; without the room's type the step of `HandlePublication` says
  nothing of a sequence's tail. `CachedProps` is the lemma on eviction.
* **Stashes are armed** (`StashesArmed`: `StashArmed` has no run of its own), from `PumpsTyped`. There is
  one lemma per handler of the pump: what it does to the type and to "a non-empty stash is
  armed". The cursor's walk needs `Reach` to exist, so finiteness of the stash
  and of the void numbers is part of the type.
* **Cursors** (`RelayTyped`, `CursorsTracked`, `CursorsSound`). `CursorSound` alone says nothing
  of a stash, which the cursor walks over when a gap closes. `CursorInv` has that a
  connection carries frames of one incarnation of the room (`WireInv`), and that what a
  pump has stashed or holds void is of the incarnation its cursor counts (`Tracked`); void
  numbers are those of its own frames and of binary ones. A rejoin may
  keep cursor and stash for a room that was rebuilt (`collab.rs:633-638`); from there `skewed` is
  set, and nothing is claimed of that cursor.
* **The feed** (`RelayImplementsFeed`: `PluginRelay` implements `PluginFeed`). It cannot hold
  without conditions: a rebuilt room numbers anew (`relay_rebuilt`), and a cursor walks over
  a frame that is void and stashed at once (`relay_lag`). The theorem assumes a room that
  stays (`~RoomMayEmpty`, as the run does) and `[]NoneComesBack`, that no number is void and
  stashed at once, for which a member's own frame has to come back after it rejoined; nothing is assumed of
  rings, caches, losses and reconnects. `FeedInv` adds to `CursorInv` that the frames sent
  have numbers of their own (`Numbered`), that a ring holds for its member frames of other
  connections, receipts of its own, and a hello-ack only in front, with a header not below the
  cursor (`Lined`: so no rejoin resets), and that what was handed over is at or below the
  cursor and what is stashed beyond a gap (`Follows`). One lemma per handler
  (`BroadcastedPasses`, `AckedPasses`, `GaveUpPasses`, …) says that the cursor goes over what
  is handed over and nothing that stays; `ServedIsFeed` makes a step of the feed of it.
* **One holder per key** (`LocksExclude`), **entries stay in service**
  (`EntriesStay`), **implementation of KeyedMutex** (`LocksImplementMutex`, which the
  run checks in place of the other two). The
  inductive invariant `IInv` is the types with two facts about the table: the
  holder of a mutex is first in its line, and whoever refers to a mutex for a key
  refers to the one the table holds for it (a reference in use keeps the entry from
  being swept); then two holders of a key are both the head of one line.
* **No entry is left over** (`EntriesAreUsed`) but after a call was dropped while it
  waited. Beside `IInv` it takes that a mutex is the table's for one key only.
  `LocksTyped` has the lines: a call stands in the line of its mutex exactly once
  while it waits or holds, and in no other. `RemoveElements` is the lemma on a line that
  loses a call.
* **The roster's files** (`RosterTracked`, `AnswersAreDurable`, `DriftIsConfined`).
  Inductive invariant `RosterInv`: the types, `Durable`, and `MemoryFollows`, where memory and
  snapshot stand in each phase; without it `WriteFile` and `WriteBack` write anything.
* **Calls between plugins** (`CallsTracked`, `NoCallForsaken`, `AnswersReachAskers`).
  `CallsInv` adds to the types `CallersKnown` (a call at any stage has its people and
  their sessions were there) and `AskersKept` (a call that did not slip is in the
  session that asked it, by its token while it waits, and one that slipped after its booking is
  still to be swept); the token, taken late, is the
  asker's only because of that.
* **What plugins know** (`DirectoryTracked`, `DirectoryTyped`, `WhatPluginsKnow`).
  `KnownIsRouted` speaks of the time when everybody has been told; `ToldOK` follows an
  announcement up to there. Unless two were told at once, one at most is being told, it
  says what the entry says when none is due, and a running plugin has heard it or is
  still to be told. `EntryOK` is about the entry itself: the chosen provider is a
  candidate, and candidates wait only where somebody else answers.
* **Late frames** (`LateFramesStayOut`). `EphemeralInv`: what travels is made of
  frames, and the watermark of a reader is the greatest clock it was ever sent. The
  watermark outlives the entry, which is the point of the code. `EphemeralTyped` adds
  `LinksTyped`: frames are kept only without a connection, peer ids were given
  out, and a ring is no longer than it may be.
* **Patches** (`PatchesAreFresh`): what a patch is merged into is what it was read from.
  `PatchInv` says of each stage of a request which locks it holds (`Structural`,
  `Held`, together `Guarded`). Between a patch's reading and its writing a
  write of that path is excluded by the path lock, all else by the structure lock.
* **Documents** (`DocumentsInOnePlace`, `DocumentsStayDeleted`). `DocInv` adds to `PatchInv`
  that a document at a path was made (`Housed`), that one not yet made is nowhere
  (`Unborn`), and what a request about to land aims at (`Aimed`). One lemma per operation says that what
  it does to the files is accounted for and that the paths of other writers are spared.
* **History** (`HistoryKeptOnce`, `ContentTyped`). `HistoryInv` adds to `PatchInv` that a version
  is in no file and no handler's hands before it is recorded (`Unrecorded`), and that a
  record about to append holds the lock of the side file and what that file holds, unless a
  move, which takes the lock of its source only, crossed it (`Recording`).
* **Notes** (`NotesTracked`, `NotesTyped`, `UnsavedStays`). `UnsavedKept` is about one text and
  is broken by what others send, so `NoteInv` is about all documents, updates and
  frames at once. The insertions of a client are numbered without a gap
  (`OwnNumbered`), and whatever a document or a frame has of a client whose document is
  open, that document has too (`Traced`): else an insertion would wait for one before it,
  and its line would not show. What is marked deleted was in the file (`FiledItems`), and a
  save takes nothing out of the file that never was in it: else a mark would
  take a line nobody has saved. A second conjunct, of lines in the file for members with
  nothing unsaved, is needed when a note is opened again (`LinesKept`).
* **Members agree on a note** (`TogetherTracked`, `MembersAgree`). `TogetherAgree` speaks of
  the moment when nothing is on its way; `Together` says of every other what is still owed,
  for each pair of members, given the frames that wait and their order. Two
  documents of different baselines: a frame that names one is on its way to the other's member, or one
  went unanswered (`NamedTrue`). Two of one baseline: what one has the other has, is
  being brought, or has asked for (`SharedTrue`). This breaks when a frame is read whose
  lines the other has not, so what waits for a member is spoken of as well (`PassedTrue`):
  the other gets it too, or asks for it *behind* that frame, which is why queues
  must keep their order. What a member has sent it has itself, unless it took a new document
  and asks again (`SentTrue`), and what it typed without a connection is
  kept for sending (`KeptTrue`). Each action is one of five kinds of step (`Grows`, `Renews`, linking, dropping or
  closing, `Relays`), with a lemma each. The invariant is `parted \/ aligned \/ Together`: a
  connection that ends and a silent save break it, as the divergences above describe.
* **Canvases and tables** (`SheetsTracked`, `SheetsTyped`, `CleanSessionsAreSaved`,
  `CanvasesSendTheirOwn`). `SheetInv` adds to the types that undo and redo share one bound
  and `Sound`: a session without unsaved changes is its baseline, and in a canvas `Chain`,
  that from one snapshot to the next, and from the last to the data, only marked cards
  change. `OnlyOwnChanges` is not inductive without it: an undo puts back a snapshot, and
  says nothing of how that differs from the baseline. One lemma per operation on a
  session (`ChangedSound`, `UndoSound`, `SettledSound`, `CanvasSound`, …), for any numbers of
  members, cards and saves.
* **Messages** (`SaidTracked`, `MessagesStay`). A message that a member has and the baseline has
  not is kept when patches come in. `SaidInv` has why the baseline does not have it before the
  file had: baselines, frames and the file hold only messages that were in the file
  (`Filed`), and so does what a save froze, or the save has not landed and its patch is what
  brings them (`Pending`). Cards with a conversation are never removed (`Whole`).
* **Canvases and tables agree** (`AgreementTracked`, `SheetsAgree`). `Agreement` is about a session at
  rest, and says nothing while one types, saves or has frames to read. `AgreeInv` says it of
  every moment, one card at a time (`ViewAt`), for cards neither contested nor missed. The last
  frame of others that waits (`Awaited`) has what the file has (`LastAt`), so what comes
  before it does not matter. Where none waits, data a member has not changed are the file's
  (`OwnAt`), data changed by hand since a save froze them differ in `own` only (`SentAt`), and
  what a save froze is the file's once landed, unless another's save has come
  since (`FrozenAt`, `Overtaken`): this is what makes the receipt right. `SavedAt` says
  the same of the baseline but for `adrift`. Of saves it needs which others' saves they knew
  (`SaveTrue`, `KnownTrue`), and that two under way share no card that is not contested. It is stated of
  values and of the parts a step may change (`Alike`, `Onward`), so that a step of one member
  leaves the others to one lemma (`StepAgree`).
* **The roster** (`RosterTyped`, `SpaceHasOneOwner`).
* **One session per device** (`OneSessionPerDevice`). `DeviceInv` adds that whoever has
  a session or has verified a password is registered; without it `Register` could
  give a new account's device a second session.
* **Kicks** (`RemovedMembersKicked`, `RevokedSessionsKicked`). The inductive
  invariant `KickInv` has two parts beside the types. `Own`: a session belongs to
  the user of every connection made under its id, because a new session takes an id
  that nothing refers to. `Covered`: an open connection that was not kicked is a
  member's with a live session, or its session expired in silence, or a task in
  flight is going to kick it. The strengthening is needed
  for `Enter` and `Recheck`: the properties themselves speak only of open
  connections.
* **A plugin instance** (`InstanceTyped`) and **no call left behind**
  (`NoCallLeftBehind`), under every overlap. `CallsSwept` is inductive only together with
  `Unborn`: the threads of a session stand nowhere before its spawn, and its timer
  before the announcement, so that no start puts a sweeping thread back to its
  beginning. The types are proved in four parts because Boolean and arithmetic facts go
  to different provers.
* **Until the first overlap** (`InstanceOrderly`, `NothingHeldBehind`, `OneLivingProcess`,
  `StopsHold`). None of the three properties is inductive, nor are they together:
  `Orderly` adds where threads can stand and that only the latest start's process is
  ever alive (`Born`), that a watching thread that takes the plugin down has nobody at
  the lock beside it and belongs to that start (`Turns`), how far the lock's holder is
  (`OwnerAt`), and what status and pid say meanwhile (`Shown`, `HeldBy`). The invariant is
  `late \/ Orderly`: every step that breaks a part of `Orderly` sets `late`.
* **The parts together** (`PartsRunAlone`, `AllTyped`, `PartsKeepTheirs`). A behaviour of
  `MCShared` is one of each part's specification, since a step of one part leaves the
  variables of the others. So the run `shared` checks what the theorems about the parts say,
  and these hold of the composition: the types of all seven, and every safety property
  of the run.

Only model-checked, of what the passing runs check:

* Liveness: `StashDrains`, `CatchesUp`, `Granted`, `RequestsEnd`, `TruthShown`,
  `SilenceEnds`, `DeathNoticed`, which are out of TLAPS's reach, as is ENABLED.

Nothing here uses a recursive operator; what a recursive definition computes for every
input could not be proved either.

## The plan

Done: the room and its pump, path locks, the roster with admission, plugin
instances; the content store, roster files, ephemeral states, services, notes, canvases and tables. What is
left, in this order:

1. The token next to the session id in `SpaceRoster` (a login on a device keeps the id and
   replaces the token, `auth.rs:168`), and the resync notice (`ws.rs:466`) with its
   pause in `NoteBaseline`.
2. In `SharedSheet`: a refused patch and its fall-back to the whole file, rollback, new
   cards, the election of a card's lock owner (`compute_lock_owner`).
3. `merge3` and the table operations as operators checked
   against reference definitions; `WriteQueue` with the vault's callers.

## Not modelled

Times (back-off, grace, heartbeat and half-open limits are choices), sizes in bytes, names and
colours, read-only endpoints, logging, parsing and rendering, the file system
below `atomic_write`, TLS and HTTP. Requests a handler refuses change nothing and
are one action of `SpaceRoster` (`EndCall`).

Of plugin instances: a failed `kill_process_tree`, which `teardown` only logs
(`instance.rs:432`): a process that survives it is nobody's from then on.

Of the content store: a removal or a copy that outlives its dropped handler, folders within folders, bytes a side file may hold, which entities a
patch changes, media uploads beside writes. Of notes: relocation, the resync notice and the
bar on peers whose hash lies, deletions by hand and lines that conflict in a merge, a note
loaded anew while it is open. Of canvases and tables: the order of rows and fields, titles and
renames, patches the server refuses, rollback to an old version, cards created or pasted, the
removal of a conversation card, who gets a card's lock. Of services: the methods a provider declares and the answer of
the built-in implementation. Of ephemeral states: how the shell draws them.

Components marked `not_modelled` in `PROJECT.json` say why.
