# Verification of board4you

TLA+ models, model-checking configurations and machine-checked proofs for
board4you, a shared whiteboard: browsers (TypeScript, Redux, Konva) that draw
on a board, a server (Rust, axum, tokio) that keeps one task per open board,
and a PostgreSQL database. Paths below are relative to the repository; `server`
stands for `src/server/src`, `renderer` for `src/client/src/renderer`.

The question behind most of it: a user draws; is the edit still on the board,
once, in the right place, for everybody, after queues, caches, flushes, saves,
reloads, broken connections, cleanups and stops? Around it: who may draw at all,
what the page itself makes of mouse and keyboard, what the desktop application
writes to its files, and whether accounts, boards and folders end up as their
user was told.

- [Inventory](#inventory) of the system
- [Modules](#modules) and how they correspond to the code
- [Runs](#runs): what is checked, on which instances, and what it shows
- [Disagreements](#disagreements-found) between the code and what it says
- [Proofs](#proofs)
- [What is not modelled](#what-is-not-modelled) and the [plan](#plan)

## Inventory

### Server

**Room task** (`server/libs/room.rs`). One tokio task per open board. State: a
`Room` (users and their channels, the `Board`, title, size, co-editor token). It
takes one `UserMessage` at a time from a bounded mailbox and handles it to the
end, awaiting the database tasks in the middle of a handler: `Join`, `Quit`,
`Auth`, `Push`, `UndoRedo`, `Empty`, `Pull`, `SetTitle`, `SetSize`, `HasUsers`
(asked by the cleanup; a room without users saves its board and ends),
`DeleteRoom`, the co-editor requests, `TryExpireCache`, `Expire`. Correct when an accepted edit is
kept, every user hears of it, and the task does not end while somebody may
still need it.

**Board** (`server/libs/state.rs`). The *operation queue* (pushes, undos, redos
not yet in the database, bounded by `OPERATION_QUEUE_SIZE`) and the *cache*, a
copy of the board's rows. `pull` replays the queue over the cache. Correct when
nobody can tell the queue and the cache from the database itself.

**Edit rows and flush** (`server/entities/edit.rs`). `get_sync_data` condenses
the queue into four maps (created current, created undone, set current, set
undone), `sync_with_queue` sends up to four chunks and waits for them; `create`
(a COPY), `set_status`, `delete_bulk` and `read` are the statements.

**Database queue** (`server/libs/db_queue.rs`). An edit task and a board task
collect chunks of all rooms from several channels into batches and execute
them. `tokio::select!` picks among the ready channels at random. A failing
statement drops its answers; a failing COPY answers as if it had worked.

**Registry and lifecycle** (`server/lifecycle/*`). `AppState.rooms` is a map
behind a `RwLock`. `retrive_room_channel` looks a room up or loads it,
`cleanup` asks every room whether it has users (holding the write lock) and
removes those without, `cache_cleaner` expires caches, `on_shutdown` is meant
to save the boards. Correct when the registry leads to one live room per
board and nobody waits for the lock forever.

**Websocket handler** (`server/websocket/handle_client.rs`): looks the room up,
joins, forwards messages, keeps `is_authed`, quits. **HTTP API**
(`server/api/*.rs`): creates and deletes rooms, co-editor tokens, accounts, folders.

**Authentication and users** (`server/libs/auth.rs`, `api/common.rs`,
`api/auth_route.rs`, `api/user_route.rs`, `entities/user.rs`). An access token
and a refresh token in cookies; state: the users' rows and `expired_jwts`.
`process_jwt` runs after every request and renews tokens whose access part has
run out; a change of the profile expires the token and issues a new pair.
Correct when a browser that was told to be signed in or out is so, whatever
answers are still on their way, and a login has one row.

**Boards and folders** (`server/entities/board.rs`, `folder.rs`, `mod.rs`).
Rows, the relation between them, readings by page. Correct when a folder has
what its user has put into it and the pages of a list have every row.

### Client

**History** (`renderer/features/history.ts`) and **EditManager**
(`renderer/lib/EditManager.ts`): two lists of edits, current and undone, and the
canvas that shows the current ones. A user's edits apply at once and are then
sent; edits of others arrive by broadcast and are applied by `handlePush`,
`EditManager.undo` and `redo`. **BoardManager**: the websocket, its buffer and
its reconnection. **joinRoom**, **handlePull**: a page that opens a board pulls
what it lacks. Correct when, once all messages have arrived, every page shows
what the room has.

**Mouse, commands, selection** (`renderer/board/canvas`): one user's actions on
layer, history, Transformer and clipboard. They share state without a lock, and
what waits for an image goes on later with what it finds. Correct when undo and
redo find on the canvas what the history says.

**Modes and keys** (`bootstrap.ts`, `joinRoom.ts`, `handleMessage.ts`,
`features/rooms.ts`, `lib/Persister.ts`): a page is local, author, coop or viewer,
after the private id it has for a board, its invitation and what the server
answers. Correct when the mode, the tool and the key fit what the room accepts,
and the author's key, of which the browser has the only copy, is not lost.

**Pages** (`renderer/pages`): lists, a folder, sign-in, profile; state in React,
the store and react-query's cache.

**Desktop application** (`src/client/src/main`): the main process owns the
current path, two flags (changed, saving) and the dialogs; the page owns the
canvas. Correct when nothing is overwritten or dropped without a question, and
the window can be closed.

### Interactions

```
 browser --websocket--> handle_client --mailbox--> room task --chunks--> edit task --> PostgreSQL
 browser <--broadcast-- room task          ^            ^
                                           |            |
   HTTP API, cleanup, on_shutdown -> registry (RwLock) -+
```

### What is hard here

- A handler of the room task awaits the database; rows change several
  statements after the queue was drained, in an order picked at random.
- Commands of several clients name edits that others have undone, redone or
  deleted in the meantime; the queue is condensed by one algorithm and replayed
  by another, and the two must agree.
- The registry is read, released, and written later by several kinds of tasks,
  while the rooms it names end by themselves.
- A statement fails, a handler panics, the process is stopped or killed.
- A page joins, leaves, loses its connection and comes back between any two
  messages; requests are answered when the page that made them is another.
- A token, a login or a row is checked in one statement and used in the next.
- A user goes on while images load, files are read and written, and flags are
  set by whoever ends first.

`PROJECT.json` lists each of these hazards with the line where it bites and the
properties that would catch it.

## Modules

```
 EditLog            the data and the pure functions
   ^   ^
   |   +---- Board -------- BoardView -------- MCBoardView
   |                         ^   \
   |                         |    +-- INSTANCE SharedBoard (the abstract board)
   |                         +---- BoardProofs
   +---- Collab ---- MCCollab
           +-------- CollabProofs
 Rooms ---- MCRooms          DbQueue -- MCDbQueue
   +------- RoomsProofs        +------- DbQueueProofs
 Session -- MCSession        Accounts --- MCAccounts
   +------- SessionProofs        +------- AccountsProofs
 Canvas --- MCCanvas         Desktop -- MCDesktop       Library -- MCLibrary
   +------- CanvasProofs                                   +---- LibraryProofs
```

`Canvas` has one page in detail, with the room reduced to two lists; `Collab`
has many pages and the messages between them, with the canvas reduced to how
often a shape is on it; `Session` has what mode and key a page has, and of the
edits only whether there are any; `Rooms` has the server's side of the same
connections; `Board` what a room does with what it accepts; `DbQueue` what
becomes of the chunks of all rooms on their way to the database.

In six modules an action that the code handles in a way it says nothing about
puts a reason into the history variable `odd` (in `Collab` also `stale`, `raced`,
`selected`, `orphans`), which no guard reads but the bounds. A property names the reasons it does not
claim anything under, so it says what the code gets right *and* what exactly
must have happened where it does not; each reason is commented where it is set.

An edit never changes and its payload never matters to the history, so an edit
stands for its id. Ids are uuids made by clients and never reused: `Board.known`
and `Collab.used` record those already taken.

### EditLog: the data of a history

| TLA+ | code |
|---|---|
| `Replay`, `ReplayStep`, `RemoveLast` | the loop of `Board::pull` over the queue (`state.rs:171`) |
| `get_sync_data`, `SyncStep`, `Put`, `Del` | the loop that condenses the queue into four hash maps (`edit.rs:75`) |
| `create`, `set_status`, `delete_bulk` | the statements on one board's rows |
| `read` | the *set* of answers of the SELECT: rows with equal `changed_at` have no order |
| `PullData`, `Missing` | the diff sent to a client |

The functions are written without `RECURSIVE`, so that they can be proved about.

### Board: one board, its room task and the edit task

State: `queue`, `db_cache` (the `Board`), `edits` (the board's rows),
`create_edit`, `update_edit` (chunks in the edit task's channels), `pc`, `todo`
(where the room task awaits the database and what it does next), `now`
(`SystemTime`, which need not move between two operations), `reply` (the last
answer to a pull). A handler is cut where it awaits: `Push`, `Undo`, `Redo` and
`Empty` may start a `Flush` and continue in `FlushDone`; `Pull` without a cache
continues in `EditTaskRead`. `EditTaskCreate` and `EditTaskUpdate` are enabled
together, as `select!` is; each may fail when `DbMayFail`. A failed read or
delete drops its answer and the handler's `unwrap` ends the task (`Panic`).
`Crash` leaves only the rows. `Load` starts a task on what the rows hold.

`Board` has one task per board; `Rooms` shows when that fails.

### BoardView and SharedBoard: what the board shows

`BoardView` adds the history variable `contents`: what a pull would show, the
queue replayed over the rows once the chunks still in the channels are
executed. `SharedBoard` is the abstract specification: two lists, changed by one
operation at a time, no queue, cache or database. It says what an answer to a
pull is (`Lacking`: what the client has not, in the list's order) and not how it
is found. `ImplementsSharedBoard` maps
its `current` and `undone` to `contents`; a flush, a save, a reload and the
expiry of the cache must be stuttering steps.

### Rooms: the registry and everything that races on it

State: `rooms` (`AppState.rooms`), `readers`, `writer` (its lock), and for each
task its `status`, `mailbox` (an mpsc channel of capacity one: the smallest that
lets a message wait), `users` and `unsaved` edits; for each connection, delete
request and for the cleanup, where it is and which sender it holds. A request
to delete a room takes a connection of the pool first and keeps it to its end
(`TakeClient`, `StartDelete`), while the room's handler needs a second one
(`HandleDelete`): with as many requests as connections (`PoolEmpty`) they wait
for each other until the pool's timeout panics the room (`PoolTimeout`; a load
that gets none ends its connection). The message a handler waits in stays in its
mailbox until the handler is done. A channel
whose senders are all dropped ends its task (`Abandon`). `Lookup`, `LoadRoom`,
`InsertRoom` and `SendJoin` are the steps of `retrive_room_channel` and
`handle_client` between which the lock is free. `HandleHasUsers` and
`FinishSave` are separate because the room awaits the database between them
while messages arrive. The queue, the cache and the flush are one set of
unsaved edits here; `Board` details them. `Flush` is what `sync_with_queue` comes
to: the room is answered as if all was stored, and any part of it may have been
carried by a statement that failed (`edit.rs:230`), was lost with the transaction,
or with the edit task; `failed` remembers which edits those are.

### DbQueue: all rooms and one edit task

State: `exists` and `rows` (the tables), `channel` (the four of the edit task, of
`DB_QUEUE_ITEM_SIZE` chunks each), `stage`, `batch` and `healthy` (the edit task,
what `recv_many` gave it, and whether its one connection still executes
statements), `out` and `due` (of each room, the chunks it waits to send and to
have answered). `Flush`, `Empty` and `Pull` put chunks there, `Send` waits for a
place, `Receive` is one turn of `select!`. A batch is one statement for the chunks
of several boards: `WriteFile`, `Copy`, `SetStatus`, `DeleteBulk`, `Read`, and how
each may fail. `WriterPanics` is the thread that unwraps an id `validate_edit`
has let through; with it the edit task is `dead`, its channels go with it and
every answer on its way is dropped (`End`). The order of edits is in `Board`; a
row here is its board, edit and status. `want` remembers which rows there are if
every statement has its effect, `harmed` the boards one has failed for. What a
read answers is in `Board`; here it is a chunk somebody waits for. A room that
flushes waits until no other room of its board does (`Writing`), which the code
does not ask for: two rooms of one board that write at once are in `Rooms`.

### Collab: the browsers of a board and their room

State: the `room` as a pull shows it, its `users` and `authed` connections; for
each client `history` (the store), `layer` (how often a shape is on its canvas),
`drawing`, `chosen` (the selected shape), `loading` (the dialog that covers the
page), `link` (the websocket) and the messages in order on their way (`outbox`,
`inbox`). `MouseDown` while a shape is being drawn (a second touch) and `Abandon`
(the right button or a dragged stage at `mouseUpLeave.ts:57`) leave a shape on the
canvas that is in no list: an orphan (`orphans`). `Select` empties the undone
edits of this page and tells nobody (`selected`); `DeleteSelection` may delete an
orphan, which the room then is told to erase, and `Cut` is not sent: both are
reasons of `odd`. The reducers keep
the code's index arithmetic; `EditManager.redo` dispatches `redo()` without the
id, as the code does. An exception in the middle of a handler is the field
`ok`. `stale`, `raced` and `selected` are history variables that no guard reads.

Two facts of the pages shape what may happen: the loading dialog is a modal that
covers the canvas from the start of a page until the pull's answer and while
the connection is broken, so no drawing starts then, but a line being drawn
ends (`mouseleave`), and the keyboard still undoes, redoes and deletes
(`renderer/board/canvas/native/handleNativeEvents`).

### Canvas: one user's mouse and keyboard

State: `layer` (shapes with their place and, for a line of the eraser, what it
was drawn over), the `history`, `nodes` (of the Transformer) and `selection` (of
the store), `drawing`, `loading` (images), `jobs` (copies whose group waits for
its image), and the `room` of a shared board. `Change` is `applyEdit` and
`cancelEdit`: it throws at the first shape `CanvasUtils.findOne` does not find,
which includes those in a waiting group, and then the history is not touched. A
cut is two actions, `Copy` and `Copied`; between them the user goes on.
`Create` (of a selection) empties the undone edits here and not in the room, as
`shapeChange` does. `MouseUpLeave` records the shape, or leaves it on the layer
without an edit (the right button, a dragged stage), and `MouseDown` does not ask
if one is being drawn; both are `"abandoned"`. `NewFile` and `Reopen` are
`clearCanvas` with what follows: a copy's group goes with it (`group`), shapes can
be selected again, and the copy that ends then empties their selection in the
store but not their Transformer (`"late"`).

### Session: modes, keys and tokens

State: the `room` with its co-editor token (a number that grows with each
renewal), for each page its `view`, its connection (`wire`), its `keys` and the
browser's `storage`, and `asks`, the HTTP requests: served in one step
(`ReadCoEditors`, ..) and answered in another (`CheckValid`, `Created`, ..), when
the page may be elsewhere (`here` is false). `Arrive` is the effect of `Drawer`,
`Open` is `joinRoom` up to its first `await`, `GiveUp` what a refusal or a
renewal does. `LogOut` is `logOut` with `emptyRooms`: every key goes, from the
store and from the storage, at once; the request that tells the server is lost
or not (`"unheard"`). `user` is who a page takes for signed in, `account` who is.
`Tabs` says if the pages share one browser's storage.

### Accounts: tokens, cookies and rows

State: `users` (the login in each row), `expired`, each browser's `jar` and
`shown` (state.user), and requests in their stages: sent with the cookies the
browser had then, *checked* (between `validate` and the statement), *expiring*
(`process_jwt` has found the access token gone), *rotating* (the refresh token
was not in `expired_jwts`, and is about to be put there), done. `Verify` and
`Rotate` are the two statements of `get_jwt_tokens_from_refresh`: requests with one
token may be between them at once, and all of them get new ones. A refresh token
is its user, login and the second it was made in, so two of one second are one
token (`"alike"`), and who rotates the one has the other expired. `Processed` is
`process_jwt`. `means` remembers what a browser was last told. The statements of
`UpdateUser` before the validation's answer (`user_route.rs:80`) are one step.

### Library: lists, folders, react-query

State: the `tables`; the open page (`here`) with what it shows; react-query's
`cache`, `failed` and `fetching`: one fetch of a key at a time, kept when the
page is left, joined by the next one that wants the key, but with the closure of
the page that started it (`mine`). `Save` compares `shown` with `cache`;
`UpdateFolder` and `UpdateFails` are the three statements of
`folder::update`, `UpdateRefused` what the route answers without executing them: a
title longer than 36 *bytes* is answered as if it had been saved
(`folder_route.rs:94`, `"long"`), while the page allows 36 *characters*. `put`, `taken` and `wanted` remember what the user has done.

### Desktop: two processes and their files

State of the main process: `path`, `changed`, `saving`, `choosing`, `saves` (the
calls of `saveBase64As` under way, each in a stage: the dialog, the opening of
the stream, the writing, the rest that goes on after the call has returned), the
`disk`; of the page: `canvas`, `loading` (the calls of `openFile`), `pasting`
(images that are loaded and shapes that are cut, which come and go later than the
change is told), `isLoading` (the progress window); and the two ordered channels between them.
`WriteOk`, `WriteDrains`, `WriteTimeout` and `FileLocked` are the four ends of
the promise in `saveBase64`. A modal dialog keeps the user from the window
(`User`), not the rest from going on.

## Runs

Sizes are distinct states. All bounds are CONSTANTS of the `.cfg` files.

| run | configuration | question | size |
|---|---|---|---|
| `safety` | 3 edits, queue of 2, stale and repeated commands, equal times possible, statements fail, kills | type, queue bound, cache coherence, no edit lost or doubled by flush, save, reload, the bound on what a kill displaces | 238973 |
| `refines` | 3 edits, queue of 3, one editor at a time, 6 operations | the room implements `SharedBoard` | 706965 |
| `collab` | one editor, one viewer whose connection breaks, 2 shapes and one removal, 3 undos or redos | every page ends up with the room's edits | 943389 |
| `rooms` | 1 board, 2 connections, 2 tasks, 2 edits, 2 delete requests, a pool of 2, cleanup, panics, failing statements, a stop | registry, mailboxes and losses | 850460 |
| `dbqueue` | 2 boards, 3 rooms, 2 edits, channels of 2 chunks, every statement may fail | batches, answers, rows | 441491 |
| `rooms_live` | 1 connection, 2 tasks, 2 delete requests, a pool of 2, panics, fair tasks | cleanup, deletion and disconnection end | 7115 |
| `shutdown` | 1 connection, 2 tasks, a stop | [must fail](#disagreements-found) | |
| `session` | 2 pages in one browser or two, 2 tokens, 1 request at a time | who may draw, who is told, what is kept | 3352204 |
| `accounts` | 2 browsers, 2 logins, 2 rows, 3 refresh tokens, 2 requests | signed in, signed out, shown | 1393710 |
| `library` | 3 boards, 2 folders, pages of 1, 2 visits, 2 requests, six starts | folders as saved, lists as fetched | 1309819 |
| `canvas` | a shape and a line of the eraser, 3 edits, 1 copy under way | layer, history, selection, room | 2354334 |
| `desktop` | 1 stroke, a pdf, a zip and a png, 1 save at a time, fair streams | asked first, nothing overwritten, can be closed | 1135762 |

Every property comes with a mutant: an operator of the model (its comment begins
with *Mutant*) that changes one definition as a plausible error in the code would,
for instance a cache that survives the flush or an off-by-one in the capacity
test. With it in place of the definition `PROJECT.json` names, the property fails
on the same instance, so none of them holds for want of anything to violate it.

### What the properties say

- `BoardInv`: the inductive invariant of [the proofs](#board). Its part
  `QueueBounded`: the queue never outgrows its capacity, though the operation
  that overflows it is appended after a flush that takes several steps.
- `CacheCoherent`: whenever there is a cache, it is an answer the database
  would give now. The rows change long after the flush began; the cache must
  have been dropped first and must not come back before the last chunk.
- `LossBounded`: a kill at any moment, also between two statements of a flush,
  changes the place of at most `OPERATION_QUEUE_SIZE` edits.
- `Stored`: once a board's chunks are answered the table holds what
  its flushes said, whichever boards shared their batches
  and in whichever order the channels were emptied, unless a statement that carried
  one of its chunks has failed.
- `DbQueueInv`: the inductive invariant of [the proofs](#database-queue); a room never waits for an answer nobody is left to give or to drop.
- `ImplementsSharedBoard`: see above; here also pulls are answered from the two
  lists, in order.
- `NoDuplicates`, `NothingLost`: with clients that send commands on edits they
  no longer should, an accepted edit is in exactly one place of one list until
  its list is emptied.
- `NothingMissing`, `Converged`: when no message is on its way, a page that
  joined at any moment (between an edit and its broadcast, while undone edits
  are being emptied) has every edit of the room; and exactly the room's lists,
  unless the editor's news reached it between its Join and its pull. An editor who
  has selected a shape after an undo has given up its undone edits alone, and has
  an end of the room's. Nothing is claimed after a cut or the deletion of an
  orphan, which leave the room with another canvas than the editor's.
- `CanvasShowsHistory`: canvas and history of a page, changed by separate calls
  that may throw in between, agree, but for the shape being drawn and orphans.
- `RoomsInv` (the inductive invariant of [the proofs](#rooms)) with its part `OnlyJoinsDropped`, `RegistryLive`, `CleanupKeepsUsed`, `LossExplained`: a room
  found in the registry is alive or died of a panic; what a leaving room drops
  from its mailbox is never more than a Join; the cleanup removes no room in
  use; an edit accepted for a board that still exists is lost only with a statement
  that carried it and failed (`failed`), by a panic,
  by the end of a task nobody can reach any more (`Died` names both), or by a
  stop of the server. The cleanup and the replacement of one room by another,
  which are what the code could get wrong here, lose none.
- `CleanupEnds`, `RequestsEnd`: neither the cleanup nor a delete request nor a
  connection waits for the registry's lock, a mailbox, a pooled connection or an
  answer forever, though rooms die of panics and delete requests hold all of the
  pool. Without the pool's timeout they would (`PoolTimeoutNever`).
- `Canvas.CanvasShowsHistory`, `RedoApplies`: the layer is what the current edits
  draw, and each undone edit can be redone. Both must survive copies that wait
  (`"clipboard"`), a canvas cleared under a selection, and an undo by keyboard
  while a line is drawn. A drawing that is abandoned leaves a shape the history
  does not know (`"abandoned"`): nothing is claimed after it.
- `SelectionShown`, `NoStrayEraser`: what a deletion removes is what is shown as
  selected, with the values of now, and never a shape without the lines erased
  on it. `RoomFollows`: the room of a single author has the author's history,
  but for a cut (never sent; what was cut is back after `Reopen`, `"uncut"`), a
  selection and a cleared canvas (which empty only here; `"selected"`, `"emptied"`).
- `ViewerCannotDraw`, `EditorAuthed`, `LinkCurrent`: a page that cannot edit has no
  pen; one that can, and whose messages have all arrived, has a connection the
  server accepts with a token that is good; the invitation an author copies is
  the room's. `LocalBoardSafe`: strokes of a board that is not shared are on a
  page only in local mode, usable, and are dropped by leaving, sharing or a named
  race only. `OwnerKeySafe`: the author's key stays in the page and in the browser's
  storage until the board is gone or the user signs out, which drops all keys.
- `SignedOutStays`, `SignedInStays`, `ShownIsUser`: when a browser's requests are
  answered, it is what it was last told to be, its token is good though
  several requests at once may have rotated the one it had, and it shows the login its row has. `LoginsUnique`.
- `FoldersAsSaved`: after its saves a folder has what the user has put into it,
  whatever came between reading and saving, unless the save was refused (`"long"`,
  `"failed"`) or met another named reason. `ListShown`: what is shown is the
  answer for *this* page. `PagesCover`: every board is on a page.
- `AskedFirst`, `PagesKept`: work that is in no file is not dropped unasked; a
  file is overwritten without a dialog only by a canvas that shows its pages.
  `CloseUnblocked`, `ProgressEnds`: a window that refuses to close because of a
  save, and the window that shows progress, both go on.

### Why the bounds are enough

*Board.* A queue of two holds a pair of operations on one edit and overflows on
the third, so flushes happen in the middle of an edit's life; three edits fill
the queue with different ones and leave one to overflow it. `MaxTime` bounds the
operations accepted (with `ClockSteps` containing 0, several at one time).
`refines` needs an undo, a redo and an undo of one edit while another is pushed
(6 operations). Edits are symmetric in `safety`: no definition names one, and
the choice of an order among rows of equal time does not change the place of an
edit, which is all `LossBounded` looks at.

*Rooms.* One board, because rooms of different boards share only the registry's
lock and the cleanup, which takes them one by one; two connections and two requests
are what it takes to race on one board. Two tasks are the registered room and the
one that replaces it; a task that nobody refers to is started again, so rooms may
follow each other without end. A pool of 2 is drained by the two requests, one of
which knows the private id and makes the room ask for a third connection. `rooms_live` is smaller since liveness is checked on the whole
graph: the contenders for the lock are a connection, two requests and the
cleanup.

*DbQueue.* Two rooms of one board (which `Rooms` shows to be possible) and one of
another: the least at which a batch carries chunks of two boards and two reads
of one. `MaxItems` bounds the edits of one flush: 2 for the room that writes (one
created and one changed, or two chunks of either), 1 for the other board, 0 for
the second room, which reads and empties. Of the rooms of one board one writes
at a time (`Writing`); two that do are `Rooms`' loss by a task nobody reaches.
A channel of 2 chunks is full with three rooms. Edits are symmetric.

*Collab.* A second client sees what a first one does; a third would see the same.
Two shapes give orders that can differ, the removal gives edits that depend on
others. Three commands are an undo, a redo and another undo. `MaxInFlight` stops
users, not messages. The editor's connection is not lossy in `collab`: nobody
authenticates again after it has come back and nothing it sends is accepted; the
viewer's is, and nothing is claimed of a page that has survived a lost
connection (`stale`) but its type.

*Session, Accounts, Library, Canvas, Desktop.* `MaxOdd` stops the user (not what
is under way) once `odd` has more members: with 0 a run explores everything up to
the first deviation and how it ends, with 1 (`canvas`) also what a user does
after it. Requests: the races are between two, or between one and a page that
moves on; `session` needs one and the requests for a new token, which
`MaxAsks` does not count; in it each page may sign out once. Two tokens are a token
and its renewal, three refresh tokens let two requests rotate one, and have two
made in one second. In `library` the six starts choose which
pages a behaviour visits: two pages of one list, a list and a folder, two
folders that share a board, since rows that are never read say nothing. In
`canvas` a shape and a line erased on it are the least with a dependency, three
edits the least with a redo between two others. In `desktop` one save at a time
leaves out two streams into one file (`Written` has them); one file of each kind is
what the code tells apart. The pages of `session` and browsers of `accounts`
are symmetric.

### Fairness

`Rooms.Fairness` asks weak fairness of what a tokio task does when nothing but its
scheduling is needed: the loop of a room task, an answer that has arrived or was
dropped, the timer of the pool. Steps that wait for the
registry's lock or for a place in a mailbox (`InsertRoom`, `SendJoin`, `SendQuit`,
`StartDelete`, `SendDelete`, `RemoveRoom`, `AskRoom`) have strong fairness: tokio's `RwLock` and
`mpsc` are fair queues, so whoever waits is served though others take the lock
in between. Nothing is asked of users, of the start of a cleanup, of failures,
panics, kills and stops.

`Desktop.FairSpec`: a stream ends, fails or its timer of five seconds fires; the
work on a pdf ends or throws. Nothing is asked of dialogs, of the user, of
images, or of what a stream does after its call has returned.

## Disagreements found

`shutdown` is a run that TLC must find violated, with the sentence it contradicts
quoted in `PROJECT.json`: `on_shutdown` never sends `Expire`, since the future of
the send is dropped, and the queues are not saved.

Others are part of the models as the code has them; the properties name them in
what they do not claim, and the mutants of the same properties show that they
would be seen elsewhere:

- `Board`: for the queue push, undo, undo, redo, pulls show the edit current until
  the flush, and undone after it (`edit.rs:90`). Two edits of one microsecond
  come back in any order (`read` is a set; `refines` lets the clock move).
  `exec_command` accepts commands on edits that are gone, contrary to its comment
  (`state.rs:353`).
- `DbQueue`: an edit whose id has 36 characters and is no uuid ends the edit task
  for every board (`edit.rs:257`); a board deleted between a flush and its COPY
  fails the COPY for all boards in it, and all are told that it worked
  (`edit.rs:217`); a failed transaction is not rolled back, and the connection it
  leaves is used for everything that follows (`edit.rs:377`); in the code the second of two
  reads of one board in a batch is answered with an empty board (`edit.rs:335`).
- `Rooms`: two connections that find no room both load the board, and the second
  registration replaces the first (`retrive_room.rs:36`); one that has read a
  board's row before its deletion registers a room for it afterwards. Delete
  requests that hold all pooled connections make the room they wait for panic,
  with what it has not saved (`room_route.rs:182`, `room.rs:454`). A flush whose
  statement fails has drained the queue and is answered as if it had stored it.
- `Collab`: `EditManager.redo(id)` draws the edit `id` and moves the *last* undone
  edit, which differ with two editors (`EditManager.ts:84`); after a
  reconnection nobody authenticates again (`joinRoom.ts:32`), so what the
  websocket has buffered is dropped; an editor who undoes and then selects keeps
  other undone edits than the room (`shapeChange.ts:18`); a page that gets an edit by broadcast
  between its Join and its pull has it twice.
- `Canvas`: undo or redo while a copy waits for its image throws or draws an edit twice
  (`"clipboard"`); a cut is not sent to the room (`"cut"`); a selection empties
  the undone edits here only (`"selected"`); `clearCanvas` leaves the store's
  selection (`"cleared"`); a line of the eraser that was cut comes back from the
  room when the board is opened again, though the shape under it was deleted since
  (`"uncut"`); the right button, a dragged stage or a second touch leave the shape
  being drawn on the canvas without an edit (`"abandoned"`, `mouseUpLeave.ts:57`); a
  copy that outlives its canvas empties a selection made since (`"late"`).
- `Session`: a renewal does not end connections authenticated with the old token
  (`handle_client.rs:77`); answers that come late change another place's mode,
  tool, key or link (`"late"`): an author's page takes the token of the co-editor it
  was before, and the author copies a link that is no longer good; a tab writes its keys over another's (`"tabs"`);
  signing out drops the only copy of an author's key (`lib/auth.ts:35`).
- `Accounts`: two requests that rotate one token both get new ones, and tokens made
  for one user in one second are one string, so a browser may end with one that is
  expired already (`"alike"`); a request that turns the browser and crosses a
  renewal may be undone by it (`"crossed"`); a refused change of the profile has
  expired the token (`"rejected"`); a deleted user's access token is good until
  it runs out, and a refresh token of another browser for longer (`"elsewhere"`); two
  sign-ups may both find a login free (`"twice"`).
- `Library`: a save with a title of more than 36 bytes is dropped and answered 200
  (`"long"`, `folder_route.rs:94`); a second save is compared with what was read before the first
  (`"again"`); a page left before its answer came shows nothing, or the next page
  shows it (`"joined"`, `"late"`); new folders all have the id -1 and are
  removed together (`"alike"`); removing a board from one folder removes it from
  every one (`"shared"`, `folder.rs:226`).
- `Desktop`: a stroke that ends outside the canvas is not reported as a change
  (`"left"`); a canceled dialog resets the flag (`"forgot"`); a drained stream is
  taken for a finished one, so the window may close while a pdf is still being
  written (`WriteDrains`), contrary to `main.ts:95`.

## Proofs

All are checked by TLAPS for every value of the constants.

### Board

`BoardProofs`, from no assumption but `BoardAssumption` (the queue has room for one
operation, the views are views, the marker of an absent cache is not a state).

- `BoardInvariant`: `Spec => []BoardInv`.
- `TypeCorrect`, `QueueStaysBounded`, `CacheStaysCoherent`: its parts that matter
  to a reader, for every set of edits, capacity, clock and number of
  operations, with failing statements and kills.

**The invariant.** `CacheCoherent` alone is not inductive: a statement changes
the rows, and nothing in it says that no cache exists then. `BoardInv` adds
`CacheDroppedFirst` (while the task awaits the database there is no cache) and
`ChannelsQuiet` (chunks are in the channels only while the task is in
`sync_with_queue`): together they say that a statement never meets a cache.
`QueueBounded` needs `Stages`: the operation that overflowed the queue is appended
in `FlushDone`, and fits because the queue is empty for as long as the flush
lasts. `TypeOK` is a part because rows and answers must be well formed for the
functions of `EditLog` to be.

**The argument.** The first part types the pure functions of `EditLog`: `ReplayType`,
`SyncDataType`, `CreateType`, `SetStatusType`, `ReadType`, `PullDataType`. The loops
are recursive functions on `0..Len(queue)`; `LoopStates` gets their typing from
an induction (`InductionUpTo`) that is derived from the well-foundedness of < on
the naturals, since an induction theorem with an operator parameter cannot be
used with these provers. Then there is one lemma per action or group of
actions (`FlushInv`, `EnqueueInv`, `FlushDoneInv`, `PullInv`, `EditTaskInv`,
`ResetInv` for kills and reloads), combined in `NextInv`.

### What the board shows

The second part of `BoardProofs`, from the same assumption.

- `ViewInvariant`: `ViewSpec => []ViewInv`.
- `NoDuplicatesHolds`, `NothingStaysLost`, `LossStaysBounded`: the properties
  `NoDuplicates`, `NothingLost` and `LossBounded`, for any number of clients that
  send any commands, with failing statements and kills.

**The invariant.** An edit that were in a row and in a chunk to be created, or
in two rows, would be shown twice. `ViewInv` says that each edit has one place:
one row, one created edit of one chunk, one push in the queue, or the message in
hand; and that a chunk changes an edit at most once. `Shown` says that `contents`
is what these add up to, `SmallFlush` that the chunks on their way carry at most
`OPERATION_QUEUE_SIZE` edits, which is all a kill takes.

**The argument.** What the recursive functions *compute* is needed here, not only
their types: it is proved of `Replay` and `get_sync_data` which edits
they list, by induction over the queue (`LoopStates`). A flush then shows the
edits it was given, and a chunk that is executed moves them from the channel to
the rows.

### The refinement

In `BoardProofs` too: `RoomIsSharedBoard` is
`ASSUME Healthy PROVE EffectiveSpec => ImplementsSharedBoard`. `Healthy` is what the
run `refines` has: no statement fails, no kill, and `SystemTime` moves between two
operations; each is needed, as [the disagreements](#disagreements-found) show. The
edits, the capacity of the queue and the clients' views are any.

**The argument** follows the rows as they will be once the queue is flushed.
Every operation that has an effect writes one row younger than all others
(`RowStep`); `get_sync_data`, operation by operation, comes to the same (`FlatStep`),
and so do the chunks it sends in whichever order the edit task takes them
(`SettledFlat`, `SettledCreate`, `SettledUpdate`). Rows of different ages have one
read (`OnlyRead`), so what is replayed over the cache, what is read after a flush
and the two lists are equal (`InStep`). Each step of the room is then a step of
`SharedBoard` or a stutter (`EditorStep`): a flush, a save, a reload and an expired
cache are stutters, a deletion shows when its statement is executed, a pull when
it is answered.

### Accounts

`AccountsProofs`, from `AccountsAssumption` (`NoLogin` is no login, there is a
login, the bounds are natural numbers).

- `AccountsInvariant`: `Spec => []AccountsInv`.
- `TypeCorrect`, `LoginsStayUnique`: its parts that matter to a reader, for any
  number of browsers, logins, rows, tokens and requests under way.

**The invariant.** `LoginsUnique` is not inductive: a request that was *checked*
writes its row later, and the login must still be free then. `AccountsInv` adds
what the check leaves behind: as long as no two requests for one login have been
between check and write at once (`"twice"`), each login wanted by a checked
request is in no row but the one that request is about, and no other checked request wants
it. A request that is checked while another waits for the same login sets
`"twice"` in the same step, which is where the code has its race.

**The argument.** The type of requests is what costs: an answer is a request with
several fields replaced, so there is one lemma per shape of replacement, and
every action cites those it uses. Of the properties' side, only `CreateUser`,
`InsertUser`, `UpdateUser`, `WriteUser` and `DeleteUser` change rows or checked
requests; the others keep both.

- `SessionsInvariant`: `Spec => [](AccountsInv /\ SessionsInv)`.
- `SignedOutHolds`, `SignedInHolds`, `ShownHolds`: `SignedOutStays`, `SignedInStays`
  and `ShownIsUser`, which speak of a browser whose requests are all answered.

**The second invariant** says what holds before that. `TokensInv`: a refresh token
comes with its access token and belongs to one browser, in its jar, in requests
it has sent or in answers to them, unless tokens of one second were alike (`Own`);
what is to be rotated is a token the request brought. That tokens are new is not
assumed: a token that somebody has (`Known`) when it is made is what `"alike"` says. `SessionInv`: as long as nothing crossed or was lost, at most one
request of a browser turns it into somebody or nobody, and meanwhile no other
brings tokens (`OneTurn`). A browser that was told to sign out is `Nobody`: it has no
cookies or its logout is under way, and none of its requests can bring it any
(`Harmless`). One that was told to sign in is `Somebody`: its token is good, or
a request of its own brings another or is about to (`Pending`); any number of them
may be rotating that token or older ones of the same user (`Uses`), what each
brings is good and nobody has used it yet (`Carries`), and all but the answers of
a deletion bring tokens of the row the browser shows (`Kin`). `Plain` is when this
is claimed: nothing crossed, was lost, rejected or alike.

**The argument.** What the server may do to a request is one of seven kinds
(`Quietly`, `Rotates`, `LogsIn`, `LogsOut`, `Expires`, `Writes`, `Deletes`), each action
is shown to be of its kind (`QuietSteps`, `LoudSteps`), and the invariant is
carried through the kinds; `Apart` says what leaves a browser alone, and does
for all browsers but one in every step.

### Sessions

`SessionProofs`, from `SessionAssumption` (the bounds are natural numbers).

- `SessionInvariant`: `Spec => []Inv`; `TypeCorrect` is its first part.
- `ViewerHolds`, `EditorHolds`, `LinkHolds`, `LocalBoardHolds`, `OwnerKeyHolds`: the
  properties `ViewerCannotDraw`, `EditorAuthed`, `LinkCurrent`, `LocalBoardSafe` and
  `OwnerKeySafe`, for any pages, in one browser or in several, any number of
  renewals and of requests at once.

**The invariant.** The properties speak of a page that has joined and waits for
nothing; `Inv` says what holds before that. `Asked`: a request whose page has not
gone elsewhere is about what the page shows, and what it may still answer is true
(`Fits`). `Author`: nothing on its way takes the key of an author at the board,
neither a refusal nor a check. `Editor`: who edits is authenticated, has said its
token, or will be told that it is not good. `Pen`: a page whose check may yet
succeed is a co-editor's, so that the pen it is given is right, until the news of
a renewal reaches it; if the news is first, that is the reason `"crossed"`.
`Shares`: an author's page shows the room's token or waits for it, and no older
answer that waits is of another token. `Known` and `Kept`: who is at a board with
its key is its author, and the browser has what the page has.

**The argument.** Each part depends on few variables, so for each action one
lemma says what the page that acts becomes, and for the others one of two holds:
nothing about them has changed (`CalmStep`), or the room alone has. What takes an
answer (`Served`) and what a page does with it are separate; `GivenUp` and
`ArriveStep` are shared by the many actions that give up or go elsewhere.

The attempt changed two properties. With more requests at once than the run has,
a renewal is answered after its author has left and another page has renewed
again: the link then shown is of a token that is void. And a check that a
co-editor's page has made may be answered when the page is an author's, and
gives it the co-editor's key, which is then what it authenticates with. Both are
in the code (`ShareBar.tsx`, `joinRoom.ts`), which does not ask where the page is
when an answer comes; both are `"late"` now, and `LinkCurrent` and `EditorAuthed`
name it.

### Rooms

`RoomsProofs`, from `RoomsAssumption` (`None` and the cleanup are no board, task
or request; a right key is one of the requests; the pool has a connection).

- `RoomsInvariant`: `Spec => []RoomsInv`, for any number of boards, connections,
  requests and room tasks, with panics, cleanups and a stop.
- `RegistryStaysLive`, `NothingButJoinsDropped`: its parts that matter to a reader.
- `CleanupSpares`: `Spec => CleanupKeepsUsed`; `LossesExplained`:
  `Spec => LossExplained`.

**The invariant.** `RegistryLive` says nothing of what happens while the cleanup
holds the lock, which is when rooms end. `CycleFollows` does: what a registered
room is doing is what the cycle has asked it and heard from it. That rests on
`OnlyAskedSave` (a room saves only because the cycle asked it, and `HasUsers` is
in no mailbox but of a room the cycle waits for), on `LockHeld` (the cycle knows
exactly the registered rooms) and on `ChansKnown` (a room that is loaded is known
to its connection alone until it is registered). `OnlyJoinsDropped` is about the
moment a room decides to leave: it has no users, so by `UsersJoined` a message
that waits is of nobody inside, and by `MailTrue` an `Auth`, a `Quit` or a
`DeleteRoom` in a mailbox has a sender who waits there.

**The argument.** `Frames` says which variables each part depends on; one lemma
per action proves the parts the action disturbs and takes the others from
`Frames`. The lemmas before them say once what a message sent (`Sent`), a
connection that moves (`Moved`, `WentOffline`) and a request that moves
(`Requested`) are. For `LossesExplained`, no step takes a row from a board that
stays (`SavedStays`), and a live task goes on with what it has not saved, has
saved it, has lost it to a failed statement (`FlushTables`), or dies (`UnsavedStays`).

### Database queue

`DbQueueProofs`, from `DbQueueAssumption` (a room is for one
board, a channel has a place).

- `DbQueueInvariant`: `Spec => []DbQueueInv`, for any number of boards, rooms and
  edits, channels of any capacity and every failure; `NobodyIsForgotten` is its
  part that matters to a reader.
- `FlushesAreStored`: `Spec => []Stored`.

**The invariant.** `NobodyForgotten` needs `OnePlace`: a chunk that were in a
batch and in a channel at once would be answered and executed again. `Stored`
speaks of quiet boards only, and a board becomes quiet one answer at a time.
`StoredInv` says what holds before: what the flushes have said (`want`) is what
becomes of the rows when the awaited chunks are executed (`Foreseen`), and a
deleted board has no rows (`GoneEmpty`). That order does not matter is in
`OneBoard`, which puts an edit on one board and into one awaited chunk, and in
`DeleteAlone`: a deletion is the only change of its board on its way.

**The argument.** The statements are an algebra: copies add up (`CopyTwice`),
changes of different edits too (`SetTwice`), a copy and a change of other edits
commute (`SetCopied`), and each does to a board what its chunks for the board do
(`CopyOf`, `SetOf`, `DeleteOf`). With it, `CopyStored`, `SetStatusStored` and
`DeleteStored` move a batch from what is awaited into the rows without changing
what is foreseen, for all boards in the batch at once; `FlushStored` and
`EmptyStored` add to both. A failure (`Failed`) takes its boards out of what is
foreseen.

### Canvas

`CanvasProofs`, from `CanvasAssumption` (`None` is no shape, lines of the eraser are
shapes, the bounds are natural numbers).

- `TypeCorrect`; `CanvasHolds`, `RedoHolds`, `SelectionHolds`, `NoStrayHolds`,
  `RoomHolds`: the properties `CanvasShowsHistory`, `RedoApplies`,
  `SelectionShown`, `NoStrayEraser` and `RoomFollows`, for any shapes, any number of
  edits and of copies that wait for their image.

**The invariant.** `Kept`: what is selected is on the layer with the values of now,
or forgotten by the store because of a late copy (`Selected`), a waiting group's shapes are in no other and are not drawn on
(`Groups`), what is being drawn or loaded is named by no edit yet (`Unnamed`).
`CanvasShowsHistory` and `RedoApplies` are not inductive: an undo needs that what
the last edit has left is still there, a redo that what it takes is there again.
`Recorded` says that there is a *story*: what each shape was before and after each
edit, the current ones and then the undone ones in the order they are redone
(`Timeline`), such that every edit takes its shapes from what the story says they
are, and the canvas is where the story is. `Orderly` says the same of lines of
the eraser at every moment of the story, and that a selection has a line whenever
it has a shape under it (`Closed`). `Idle`: nothing is selected while something is
drawn. `RoomKnows`: until the canvas is emptied here only, the room's lists are the page's
without what was cut
(`Omits`), and its undone ones end with the page's (`Ends`), since a selection
empties them here only.

**The argument.** An undo and a redo move the canvas along one story
(`RecordedMoves`); a new edit ends the story where the canvas is and continues it
(`StoryGrows`, `RecordedAdds`); a board that is read again has the story without
the cuts (`StoryOfRest`), where no later edit speaks of a shape that was cut.
`ReplayStates` and `StoryShows` make of a story what `Replay` computes, by
induction over the list. The room is a simulation of its own (`RoomPushed`,
`RoomCut`, `RoomUndo`, `RoomRedo`).

The attempt changed one property. A line of the eraser is cut, then the shape
under it is deleted, then the board is opened again: the cut was never sent, the
deletion was, and the line comes back over nothing. With the two that draw these are
four edits, one more than the run has; it is in the code
(`writeToClipboard.ts`, `handlePull.ts`), and `NoStrayEraser` names it now
(`"uncut"`).

### Library

`LibraryProofs`, from `LibraryAssumption` (boards and folders are different things,
no id is in a table twice at the start, there is a page and a row on it, the
bounds are natural numbers).

- `TypeCorrect`; `FoldersHold`, `ListHolds`, `PagesHold`: the properties
  `FoldersAsSaved`, `ListShown` and `PagesCover`, for any tables, pages of any size,
  any number of visits, fetches and requests, and changes made from elsewhere.

**The invariant** is in three layers, because each property excuses other
reasons. `Sound` excuses none: the rows are ids used once (`Rows`), a list and
what was fetched for it hold what it is a list of (`Items`, `Contents`), a request
is about what it may be about (`Asked`), nothing is known of a folder that was not
created yet (`Seen`, `Unborn`), and of the fetches under way it says whose they are
(`Mine`): on a list the page owns at most the fetch of its own key, and the fetch
of its key is its own unless it joined one (`"joined"`). `PagesCover` follows from
`Rows` alone. `ListShown` speaks of a quiet moment only and is not inductive;
`Listed` says what it becomes true by: a list whose key is not being fetched
shows what was fetched for it, but for rows that are gone and folders whose
removal is on its way. `FoldersAsSaved` needs `Kept`: a folder nobody saves has
what the user wanted (`InPlace`); a save under way will make it so, and is the
only one of its folder (`OnTheWay`); a folder of the table has a title (`Titles`);
an answer that the page will take is what the folder has (`Answers`); and the form
is what was read with the user's edits (`Reading`), which is what `Save` compares
it with.

**The argument.** Every action is restated by what it does to the one key, the
one request or the one row it is about (`VisitIs`, `AnsweredIs`, `RemoveFirstIs`),
and each layer has one lemma for the steps of the queries, one for those of the
lists and one for those of a folder (`SoundQueries`, `ListedLists`, `KeptFolders`).
The heart is `SaveMakes`: if the form shows what was read and edited, the
difference `Save` sends turns what the folder has into what the user wants,
whatever boards were deleted in between.

The attempt changed one property. `FoldersAsSaved` excused `"late"`, an answer that
reaches another page, which does no harm to a folder; what does is a fetch that
an earlier visit started and this page joined: its answer is in the cache but
not on the page (`Folder.tsx` sets its state in the closure of the page that
started it), and `Save` then takes what is not shown for what the user took out.
`"joined"` is the reason it names now.

### Collab

`CollabProofs`, from `CollabAssumption` (an edit draws or erases, a Remove erases
what some Add draws, editors and lossy clients are clients, the bounds are
natural numbers).

- `TypeCorrect`: `Spec => []TypeOK`, whoever edits.
- `NothingIsMissing`, `AllConverge`, `CanvasIsHistory`: the properties
  `NothingMissing`, `Converged` and `CanvasShowsHistory`, under `OneEditor` (there is
  at most one editor, as in the run), for any number of viewers, any edits, any
  number of undos and of messages in flight, and connections that break, the
  editor's included.

**The hypothesis.** What the three say is true with one editor only: two users who
edit at once each apply their own edit first, and the room takes them in a third
order; TLC violates each of the three within a minute when both clients of the
run edit. It is used in one place, where the room takes an edit message
(`ToldInStep`): what the message's sender has is then what the room has next.
An editor's later undone edits are the end of the room's whatever it gave up, since
undos append to both and redos take from the end (`EndsGo`); drawing empties both.

**The invariant** is in two layers. `WiresOK` holds whoever edits: it is `TypeOK`
and what the state of a connection says of its messages and its page (`Wired`). A
page asks once and with an empty history, so an answer deletes nothing; it is
covered by the dialog until the answer is handled; a client that left has a quit
behind all it has sent; a page that has survived a lost connection asks for
nothing and is not authenticated. `InStep` adds who has what. The editor (`Leads`):
its history is the room's after the messages on their way to the room (`Chain`),
but for undone edits it has given up by selecting (`Ends`), and nobody's news are
on their way to it. Who watches (`Attached`): while it asks
it has nothing; when the answer is on its way, the room is what the answer says
after the messages behind it (`AnswerAt`); afterwards the room is what the page
shows after the messages on their way (`FollowsAt`). None of it is inductive
without the canvas: `applyEdit` throws when the shape is not there, in the
middle of a handler, and the histories part. `Drawable` says that a list can be
drawn from its beginning, `Draws` and `Shows` that the canvas is what the list
draws and the shapes in the user's hand: the one in the making and the orphans
(`InHand`), which no list names.

All of `InStep` ends with a cut or the deletion of an orphan, after which the room is
told, or not told, of edits that the editor's list has: `OneSpeaks` is `WiresOK`, and
`InStep` as long as `odd` is empty, which it never becomes again (`OddGrows`).

**The argument.** `Goes` is one message taken by a list that allows it; the room,
the editor's page and a watching page each do the same with it (`PushShows`,
`UndoShows`, `RedoShows`), whatever is listed in front of what they follow: that
is how a page is covered that hears news before its answer (`raced`). Every
action then takes a message from one end of a chain or adds one at the other.
The answer to a pull draws a whole list on an empty page, by induction over it.
"At rest" is a chain of no message, so the lists at its ends are equal.

### Only model-checked

Liveness (`CleanupEnds`, `RequestsEnd`, `CloseUnblocked`, `ProgressEnds`), which these
provers cannot do. `Desktop`: what it promises of a file is an action property
over five steps of two processes and a stream, without an invariant that the run
checks, and is left to TLC.

## What is not modelled

| part | why, or in which planned module |
|---|---|
| the timeout of `spawn_task!`, the board task's batches | an answer that is dropped, as in `ReadFails`; statements on one row of `boards` each, as in `Library` and `Rooms` |
| `SetTitle`, `SetSize` | values that are copied; a property of them would repeat the assignment |
| cryptography, the lifetime of a refresh token, passwords, names | external, or data no property tells apart |
| edits of *others* that modify shapes | `Canvas` has the user's own, `Collab` those of others that draw or erase |
| geometry, zoom, colours, what a shape looks like | `Canvas` has a place per shape; Konva is external |
| `emptyCurrent` and silent pushes, streamed segments | no browser sends them; streaming is commented out in the source |
| the deletions of `handlePull` | modelled, and not reached: every page pulls with an empty history |
| commands on edits the client never had | `Board.Undo` and `Redo` name edits their client knows; those that others have emptied, undone or redone since are among them |
| a lost connection to the database in the middle of a profile's change | the check, the expiry and the validation of `UpdateUser` are one step |
| the language and the window of the desktop application, how a page is printed into a pdf or a zip | libraries; a file is what was written, or `Torn` |
| encoding (`src/protocol`), localisation, forms and static pages, logging, the stress test | no state the properties could be about |

## Plan

In order; each module with its run and its properties.

1. `Collab` with edits that modify shapes, and with convergence of editors that
   take turns.
