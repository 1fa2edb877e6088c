------------------------------- MODULE Rooms -------------------------------
(***************************************************************************)
(* The registry of rooms, AppState.rooms, and everything that races on it: *)
(* websocket connections that look a room up, load it and join it, the     *)
(* cleanup cycle, the delete_room handler, the end of a room task, and the *)
(* shutdown of the server.                                                 *)
(*                                                                         *)
(* The registry is a map behind a RwLock.  A room is a task that owns a    *)
(* mailbox (an mpsc channel of capacity one); whoever holds a sender of    *)
(* the channel can reach the task whether or not it is still registered.   *)
(* What a room keeps for its board is, here, the set of edits it has       *)
(* accepted and not saved yet.                                             *)
(***************************************************************************)
EXTENDS Naturals, Sequences, FiniteSets

CONSTANTS
  Board, Conn, Task, Edit,
  Deleter,        \* requests to DELETE /api/room
  RightKey,       \* those that know the board's private id
  MayPanic,       \* may a handler panic (its database answer was dropped)?
  MayStop,        \* may the server be told to stop?
  MayFail,        \* may a statement of the edit task fail?
  CONNECTION_POOL_SIZE,   \* of the database
  None, cleaner

ASSUME RoomsAssumption ==
  /\ RightKey \subseteq Deleter
  /\ MayPanic \in BOOLEAN
  /\ MayStop \in BOOLEAN
  /\ MayFail \in BOOLEAN
  /\ CONNECTION_POOL_SIZE \in Nat \ {0}
  /\ None \notin Board \cup Task \cup Deleter \cup {cleaner}
  /\ cleaner \notin Deleter

VARIABLES
  rooms,      \* AppState.rooms
  readers,    \* the delete_room handlers that hold the registry's read lock
  writer,     \* who holds its write lock
  status,     \* of each room task
  board,      \* the board a task was started for
  mailbox,    \* of each room task
  users,      \* Room.users
  unsaved,    \* edits in the operation queue of the task's board
  conn,       \* handle_client, for each connection
  del,        \* delete_room, for each request
  cleanup,    \* the cleanup cycle
  exists,     \* rows of the table boards
  created,    \* boards created so far: public ids are never reused
  saved,      \* rows of the table edits, with their board
  accepted,   \* history: the edits some room has accepted, with their board
  failed      \* history: those a failed statement has carried

registry == <<rooms, readers, writer>>
tasks == <<status, board, mailbox, users, unsaved>>
tables == <<exists, created, saved, failed>>
vars == <<rooms, readers, writer, status, board, mailbox, users, unsaved, conn, del, cleanup,
          exists, created, saved, accepted, failed>>

(* "saving": HasUsers found no user, the task is writing its board.        *)
(* "ended", "panicked": the receiver of the mailbox is gone.               *)
Status == {"ended", "idle", "saving", "panicked"}
Gone(t) == status[t] \in {"ended", "panicked"}

Msg == [kind : {"join", "auth", "quit"}, from : Conn]
       \cup [kind : {"push"}, from : Conn, edit : Edit]
       \cup [kind : {"has_users"}]
       \cup [kind : {"delete"}, from : Deleter]

Offline == [pc |-> "offline", board |-> None, chan |-> None]
Resting == [pc |-> "idle", board |-> None, chan |-> None]
NoCycle == [pc |-> "idle", answer |-> [b \in {} |-> None]]

TypeOK ==
  /\ rooms \in [Board -> Task \cup {None}]
  /\ readers \subseteq Deleter
  /\ writer \in {None, cleaner}
  /\ status \in [Task -> Status]
  /\ board \in [Task -> Board \cup {None}]
  /\ mailbox \in [Task -> {<<>>} \cup {<<m>> : m \in Msg}]
  /\ users \in [Task -> SUBSET Conn]
  /\ unsaved \in [Task -> SUBSET Edit]
  /\ conn \in [Conn -> [pc : {"offline", "loading", "inserting", "joining", "joined",
                              "authing", "authed", "leaving"},
                        board : Board \cup {None}, chan : Task \cup {None}]]
  /\ del \in [Deleter -> [pc : {"idle", "locking", "sending", "waiting", "removing"},
                          board : Board \cup {None}, chan : Task \cup {None}]]
  /\ DOMAIN cleanup = {"pc", "answer"}
  /\ cleanup.pc \in {"idle", "asking", "collecting"}
  /\ cleanup.answer \in
       [DOMAIN cleanup.answer -> {"unasked", "asked", "used", "unused", "gone"}]
  /\ exists \subseteq created /\ created \subseteq Board
  /\ saved \subseteq accepted /\ failed \subseteq accepted
  /\ accepted \subseteq Board \X Edit

Init ==
  /\ rooms = [b \in Board |-> None]
  /\ readers = {} /\ writer = None
  /\ status = [t \in Task |-> "ended"]
  /\ board = [t \in Task |-> None]
  /\ mailbox = [t \in Task |-> <<>>]
  /\ users = [t \in Task |-> {}]
  /\ unsaved = [t \in Task |-> {}]
  /\ conn = [c \in Conn |-> Offline]
  /\ del = [r \in Deleter |-> Resting]
  /\ cleanup = NoCycle
  /\ exists = {} /\ created = {} /\ saved = {}
  /\ accepted = {} /\ failed = {}

----------------------------------------------------------------------------
(* The lock.                                                               *)

CanRead == writer = None
CanWrite == writer = None /\ readers = {}

(* The pool: requests to delete keep a connection while they wait.  Others *)
(* give theirs back before they wait for anybody.                          *)
PoolEmpty == Cardinality({r \in Deleter : del[r].pc # "idle"}) >= CONNECTION_POOL_SIZE

(* The senders of a task's channel.                                        *)
Registered(t) == \E b \in Board : rooms[b] = t
Held(t) == \/ Registered(t)
           \/ \E c \in Conn : conn[c].chan = t
           \/ \E r \in Deleter : del[r].chan = t

(* A task that nobody refers to any more is one to start anew.             *)
Start(t, b) ==
  /\ Gone(t) /\ ~Held(t)
  /\ status' = [status EXCEPT ![t] = "idle"]
  /\ board' = [board EXCEPT ![t] = b]
  /\ mailbox' = [mailbox EXCEPT ![t] = <<>>]
  /\ users' = [users EXCEPT ![t] = {}]
  /\ unsaved' = [unsaved EXCEPT ![t] = {}]

(* create_room: nobody knows the new public id before the room is in the   *)
(* registry.                                                               *)
CreateRoom(b) ==
  /\ b \notin created
  /\ CanWrite
  /\ \E t \in Task : Start(t, b) /\ rooms' = [rooms EXCEPT ![b] = t]
  /\ exists' = exists \cup {b}
  /\ created' = created \cup {b}
  /\ UNCHANGED <<readers, writer, conn, del, cleanup, saved, accepted, failed>>

----------------------------------------------------------------------------
(* handle_client, with retrive_room_channel.                               *)

Goto(c, pc) == conn' = [conn EXCEPT ![c].pc = pc]

(* A channel of capacity one: send waits until the mailbox is empty.       *)
Send(t, m) ==
  /\ ~Gone(t)
  /\ mailbox[t] = <<>>
  /\ mailbox' = [mailbox EXCEPT ![t] = <<m>>]
  /\ UNCHANGED <<status, board, users, unsaved>>

(* The read lock is released before the database is asked.                 *)
Lookup(c, b) ==
  /\ conn[c].pc = "offline"
  /\ b \in created
  /\ CanRead
  /\ conn' = [conn EXCEPT ![c] =
       IF rooms[b] # None THEN [pc |-> "joining", board |-> b, chan |-> rooms[b]]
                          ELSE [pc |-> "loading", board |-> b, chan |-> None]]
  /\ UNCHANGED <<registry, tasks, del, cleanup, tables, accepted>>

(* board::get, Room::load and the spawn of the room task.  Without a       *)
(* connection to the database the handler panics.                          *)
LoadRoom(c) ==
  /\ conn[c].pc = "loading"
  /\ \/ /\ conn[c].board \in exists
        /\ ~PoolEmpty
        /\ \E t \in Task :
             /\ Start(t, conn[c].board)
             /\ conn' = [conn EXCEPT ![c].pc = "inserting", ![c].chan = t]
     \/ /\ conn[c].board \notin exists \/ PoolEmpty
        /\ conn' = [conn EXCEPT ![c] = Offline]
        /\ UNCHANGED tasks
  /\ UNCHANGED <<registry, del, cleanup, tables, accepted>>

(* rooms.write().await.insert: it replaces whatever is registered by now.  *)
InsertRoom(c) ==
  /\ conn[c].pc = "inserting"
  /\ CanWrite
  /\ rooms' = [rooms EXCEPT ![conn[c].board] = conn[c].chan]
  /\ Goto(c, "joining")
  /\ UNCHANGED <<readers, writer, tasks, del, cleanup, tables, accepted>>

(* The result of sending Join is ignored.                                  *)
SendJoin(c) ==
  /\ conn[c].pc = "joining"
  /\ \/ Send(conn[c].chan, [kind |-> "join", from |-> c])
     \/ Gone(conn[c].chan) /\ UNCHANGED tasks
  /\ Goto(c, "joined")
  /\ UNCHANGED <<registry, del, cleanup, tables, accepted>>

(* A message that cannot be sent closes the connection (the Quit that      *)
(* follows cannot be sent either).                                         *)
Disconnect(c) ==
  /\ Gone(conn[c].chan)
  /\ conn' = [conn EXCEPT ![c] = Offline]
  /\ UNCHANGED tasks

(* Auth waits for its answer, which never comes if the task ends.          *)
SendAuth(c) ==
  /\ conn[c].pc = "joined"
  /\ \/ Send(conn[c].chan, [kind |-> "auth", from |-> c]) /\ Goto(c, "authing")
     \/ Disconnect(c)
  /\ UNCHANGED <<registry, del, cleanup, tables, accepted>>

AuthDropped(c) ==
  /\ conn[c].pc = "authing"
  /\ Gone(conn[c].chan)
  /\ Goto(c, "joined")
  /\ UNCHANGED <<registry, tasks, del, cleanup, tables, accepted>>

Fresh(e) ==
  /\ \A b \in Board : <<b, e>> \notin accepted
  /\ \A t \in Task, c \in Conn : mailbox[t] # <<[kind |-> "push", from |-> c, edit |-> e]>>

(* Only an authed user's edits are passed on; their ids are fresh.         *)
SendPush(c, e) ==
  /\ conn[c].pc = "authed"
  /\ Fresh(e)
  /\ \/ Send(conn[c].chan, [kind |-> "push", from |-> c, edit |-> e]) /\ UNCHANGED conn
     \/ Disconnect(c)
  /\ UNCHANGED <<registry, del, cleanup, tables, accepted>>

(* The websocket is closed.                                                *)
Leave(c) ==
  /\ conn[c].pc \in {"joined", "authed"}
  /\ Goto(c, "leaving")
  /\ UNCHANGED <<registry, tasks, del, cleanup, tables, accepted>>

SendQuit(c) ==
  /\ conn[c].pc = "leaving"
  /\ \/ /\ Send(conn[c].chan, [kind |-> "quit", from |-> c])
        /\ conn' = [conn EXCEPT ![c] = Offline]
     \/ Disconnect(c)
  /\ UNCHANGED <<registry, del, cleanup, tables, accepted>>

----------------------------------------------------------------------------
(* room::task.                                                             *)

(* recv returns a message of this kind.                                    *)
Recv(t, kind) ==
  /\ status[t] = "idle"
  /\ mailbox[t] # <<>>
  /\ mailbox[t][1].kind = kind
  /\ mailbox' = [mailbox EXCEPT ![t] = <<>>]

HandleJoin(t) ==
  /\ Recv(t, "join")
  /\ users' = [users EXCEPT ![t] = @ \cup {mailbox[t][1].from}]
  /\ UNCHANGED <<registry, status, board, unsaved, conn, del, cleanup, tables, accepted>>

HandleQuit(t) ==
  /\ Recv(t, "quit")
  /\ users' = [users EXCEPT ![t] = @ \ {mailbox[t][1].from}]
  /\ UNCHANGED <<registry, status, board, unsaved, conn, del, cleanup, tables, accepted>>

(* A wrong token leaves the user unauthed.                                 *)
HandleAuth(t) ==
  /\ Recv(t, "auth")
  /\ \E pc \in {"joined", "authed"} : Goto(mailbox[t][1].from, pc)
  /\ UNCHANGED <<registry, status, board, users, unsaved, del, cleanup, tables, accepted>>

(* sync_with_queue, answered whatever becomes of it.  A COPY fails when    *)
(* the board is not there any more (foreign key), and any statement may    *)
(* fail, for a reason of its own or of another board's chunk in its batch, *)
(* or find the edit task gone: what its chunk carried is lost.             *)
Flush(t) ==
  \/ /\ board[t] \in exists
     /\ saved' = saved \cup ({board[t]} \X unsaved[t])
     /\ UNCHANGED failed
  \/ board[t] \notin exists /\ UNCHANGED <<saved, failed>>
  \/ /\ MayFail
     /\ board[t] \in exists
     /\ \E lost \in SUBSET unsaved[t] :
          /\ saved' = saved \cup ({board[t]} \X (unsaved[t] \ lost))
          /\ failed' = failed \cup ({board[t]} \X lost)

(* Board::push, with and without an overflow of the queue.                 *)
HandlePush(t) ==
  /\ Recv(t, "push")
  /\ LET e == mailbox[t][1].edit
     IN  /\ \/ unsaved' = [unsaved EXCEPT ![t] = @ \cup {e}] /\ UNCHANGED <<saved, failed>>
            \/ unsaved' = [unsaved EXCEPT ![t] = {e}] /\ Flush(t)
         /\ accepted' = accepted \cup {<<board[t], e>>}
  /\ UNCHANGED <<registry, status, board, users, conn, del, cleanup, exists, created>>

Answer(t, a) == cleanup' = [cleanup EXCEPT !.answer[board[t]] = a]

(* Mutant: the room is saved whether or not it has users.                  *)
HandleHasUsersAlways(t) ==
  /\ Recv(t, "has_users")
  /\ status' = [status EXCEPT ![t] = "saving"]
  /\ UNCHANGED <<registry, board, users, unsaved, conn, del, cleanup, tables, accepted>>

(* HasUsers: a room without users starts to save its board.                *)
HandleHasUsers(t) ==
  /\ Recv(t, "has_users")
  /\ \/ users[t] # {} /\ Answer(t, "used") /\ UNCHANGED status
     \/ users[t] = {} /\ status' = [status EXCEPT ![t] = "saving"] /\ UNCHANGED cleanup
  /\ UNCHANGED <<registry, board, users, unsaved, conn, del, tables, accepted>>

(* Leaving the task: its room and what is in its mailbox are dropped.      *)
End(t, how) ==
  /\ status' = [status EXCEPT ![t] = how]
  /\ board' = [board EXCEPT ![t] = None]
  /\ mailbox' = [mailbox EXCEPT ![t] = <<>>]
  /\ users' = [users EXCEPT ![t] = {}]
  /\ unsaved' = [unsaved EXCEPT ![t] = {}]

(* Mutant: the task ends with its operation queue unwritten.               *)
FinishSaveNothing(t) ==
  /\ status[t] = "saving"
  /\ End(t, "ended")
  /\ Answer(t, "unused")
  /\ UNCHANGED <<registry, conn, del, tables, accepted>>

(* ... and, once it is written, answers and leaves the loop.               *)
FinishSave(t) ==
  /\ status[t] = "saving"
  /\ Flush(t)
  /\ End(t, "ended")
  /\ Answer(t, "unused")
  /\ UNCHANGED <<registry, conn, del, exists, created, accepted>>

(* DeleteRoom: users are told to quit and the board's row is deleted, over *)
(* a connection of the room's own; the task goes on.                       *)
HandleDelete(t) ==
  /\ Recv(t, "delete")
  /\ LET r == mailbox[t][1].from
     IN  \/ /\ r \in RightKey
            /\ ~PoolEmpty
            /\ exists' = exists \ {board[t]}
            /\ saved' = {p \in saved : p[1] # board[t]}
            /\ del' = [del EXCEPT ![r].pc = "removing", ![r].chan = None]
         \/ /\ r \notin RightKey
            /\ del' = [del EXCEPT ![r] = Resting]
            /\ UNCHANGED <<exists, saved>>
  /\ readers' = readers \ {mailbox[t][1].from}
  /\ UNCHANGED <<rooms, writer, status, board, users, unsaved, conn, cleanup, created, accepted,
                 failed>>

(* Mutant: whoever waits for a connection goes on waiting.                 *)
PoolTimeoutNever(t) ==
  /\ status[t] = "idle" /\ mailbox[t] # <<>>
  /\ mailbox[t][1].kind = "delete"
  /\ PoolEmpty
  /\ UNCHANGED vars

(* PoolWrapper::get panics when it has waited CONNECTION_TIMEOUT_SECONDS.  *)
PoolTimeout(t) ==
  /\ Recv(t, "delete")
  /\ mailbox[t][1].from \in RightKey
  /\ PoolEmpty
  /\ End(t, "panicked")
  /\ UNCHANGED <<registry, conn, del, cleanup, tables, accepted>>

(* All senders are gone: recv returns None and the task ends as it is.     *)
Abandon(t) ==
  /\ status[t] = "idle"
  /\ mailbox[t] = <<>>
  /\ ~Held(t)
  /\ End(t, "ended")
  /\ UNCHANGED <<registry, conn, del, cleanup, tables, accepted>>

(* A handler unwraps an answer the database task has dropped.              *)
Panic(t) ==
  /\ MayPanic
  /\ status[t] = "idle"
  /\ End(t, "panicked")
  /\ UNCHANGED <<registry, conn, del, cleanup, tables, accepted>>

----------------------------------------------------------------------------
(* delete_room.  The read lock is held until the room has answered, the    *)
(* connection from before it until the end.  A request that gets none in   *)
(* time has done nothing.                                                  *)

TakeClient(r, b) ==
  /\ del[r].pc = "idle"
  /\ b \in created
  /\ ~PoolEmpty
  /\ del' = [del EXCEPT ![r] = [pc |-> "locking", board |-> b, chan |-> None]]
  /\ UNCHANGED <<registry, tasks, conn, cleanup, tables, accepted>>

StartDelete(r) ==
  LET b == del[r].board
  IN  /\ del[r].pc = "locking"
      /\ CanRead
      /\ \/ /\ rooms[b] # None
            /\ readers' = readers \cup {r}
            /\ del' = [del EXCEPT ![r] = [pc |-> "sending", board |-> b, chan |-> rooms[b]]]
            /\ UNCHANGED <<exists, saved>>
         \/ /\ rooms[b] = None
            /\ \/ /\ r \in RightKey
                  /\ exists' = exists \ {b}
                  /\ saved' = {p \in saved : p[1] # b}
               \/ r \notin RightKey /\ UNCHANGED <<exists, saved>>
            /\ del' = [del EXCEPT ![r] = Resting]
            /\ UNCHANGED readers
      /\ UNCHANGED <<rooms, writer, tasks, conn, cleanup, created, accepted, failed>>

SendDelete(r) ==
  /\ del[r].pc = "sending"
  /\ Send(del[r].chan, [kind |-> "delete", from |-> r])
  /\ del' = [del EXCEPT ![r].pc = "waiting"]
  /\ UNCHANGED <<registry, conn, cleanup, tables, accepted>>

(* Mutant: only the lost answer is noticed, not the lost request.          *)
DeleteDroppedWaiting(r) ==
  /\ del[r].pc = "waiting"
  /\ Gone(del[r].chan)
  /\ del' = [del EXCEPT ![r] = Resting]
  /\ readers' = readers \ {r}
  /\ UNCHANGED <<rooms, writer, tasks, conn, cleanup, tables, accepted>>

(* The room is gone: no answer comes.                                      *)
DeleteDropped(r) ==
  /\ del[r].pc \in {"sending", "waiting"}
  /\ Gone(del[r].chan)
  /\ del' = [del EXCEPT ![r] = Resting]
  /\ readers' = readers \ {r}
  /\ UNCHANGED <<rooms, writer, tasks, conn, cleanup, tables, accepted>>

RemoveRoom(r) ==
  /\ del[r].pc = "removing"
  /\ CanWrite
  /\ rooms' = [rooms EXCEPT ![del[r].board] = None]
  /\ exists' = exists \ {del[r].board}
  /\ saved' = {p \in saved : p[1] # del[r].board}
  /\ del' = [del EXCEPT ![r] = Resting]
  /\ UNCHANGED <<readers, writer, tasks, conn, cleanup, created, accepted, failed>>

----------------------------------------------------------------------------
(* cleanup: one cycle, under the write lock from beginning to end.         *)

StartCycle ==
  /\ cleanup.pc = "idle"
  /\ CanWrite
  /\ writer' = cleaner
  /\ cleanup' = [pc |-> "asking",
                 answer |-> [b \in {x \in Board : rooms[x] # None} |-> "unasked"]]
  /\ UNCHANGED <<rooms, readers, tasks, conn, del, tables, accepted>>

(* Mutant: the cycle insists on asking a room that is gone.                *)
AskRoomWaits(b) ==
  /\ cleanup.pc = "asking"
  /\ b \in DOMAIN cleanup.answer
  /\ cleanup.answer[b] = "unasked"
  /\ Send(rooms[b], [kind |-> "has_users"])
  /\ cleanup' = [cleanup EXCEPT !.answer[b] = "asked"]
  /\ UNCHANGED <<registry, conn, del, tables, accepted>>

AskRoom(b) ==
  /\ cleanup.pc = "asking"
  /\ b \in DOMAIN cleanup.answer
  /\ cleanup.answer[b] = "unasked"
  /\ \/ Send(rooms[b], [kind |-> "has_users"])
     \/ Gone(rooms[b]) /\ UNCHANGED tasks
  /\ cleanup' = [cleanup EXCEPT !.answer[b] = "asked"]
  /\ UNCHANGED <<registry, conn, del, tables, accepted>>

StartCollect ==
  /\ cleanup.pc = "asking"
  /\ \A b \in DOMAIN cleanup.answer : cleanup.answer[b] # "unasked"
  /\ cleanup' = [cleanup EXCEPT !.pc = "collecting"]
  /\ UNCHANGED <<registry, tasks, conn, del, tables, accepted>>

(* The sender of the answer was dropped.                                   *)
AnswerDropped(b) ==
  /\ cleanup.pc = "collecting"
  /\ b \in DOMAIN cleanup.answer
  /\ cleanup.answer[b] = "asked"
  /\ Gone(rooms[b])
  /\ cleanup' = [cleanup EXCEPT !.answer[b] = "gone"]
  /\ UNCHANGED <<registry, tasks, conn, del, tables, accepted>>

(* Mutant: every room that has answered is removed.                        *)
EndCycleAll ==
  /\ cleanup.pc = "collecting"
  /\ \A b \in DOMAIN cleanup.answer : cleanup.answer[b] # "asked"
  /\ rooms' = [b \in Board |-> IF b \in DOMAIN cleanup.answer THEN None ELSE rooms[b]]
  /\ writer' = None
  /\ cleanup' = NoCycle
  /\ UNCHANGED <<readers, tasks, conn, del, tables, accepted>>

(* Mutant: only rooms that did not answer are removed.                     *)
EndCycleGoneOnly ==
  /\ cleanup.pc = "collecting"
  /\ \A b \in DOMAIN cleanup.answer : cleanup.answer[b] # "asked"
  /\ rooms' = [b \in Board |->
                 IF b \in DOMAIN cleanup.answer /\ cleanup.answer[b] = "gone"
                 THEN None ELSE rooms[b]]
  /\ writer' = None
  /\ cleanup' = NoCycle
  /\ UNCHANGED <<readers, tasks, conn, del, tables, accepted>>

EndCycle ==
  /\ cleanup.pc = "collecting"
  /\ \A b \in DOMAIN cleanup.answer : cleanup.answer[b] # "asked"
  /\ rooms' = [b \in Board |->
                 IF b \in DOMAIN cleanup.answer /\ cleanup.answer[b] # "used"
                 THEN None ELSE rooms[b]]
  /\ writer' = None
  /\ cleanup' = NoCycle
  /\ UNCHANGED <<readers, tasks, conn, del, tables, accepted>>

----------------------------------------------------------------------------
(* on_shutdown, then the end of main.  room.send(Expire) is a future that  *)
(* is never polled: no room receives it, its answer is dropped at once,    *)
(* and the process exits.  The server is started again later.              *)
Shutdown ==
  /\ MayStop
  /\ CanRead
  /\ rooms' = [b \in Board |-> None]
  /\ readers' = {}
  /\ status' = [t \in Task |-> "ended"]
  /\ board' = [t \in Task |-> None]
  /\ mailbox' = [t \in Task |-> <<>>]
  /\ users' = [t \in Task |-> {}]
  /\ unsaved' = [t \in Task |-> {}]
  /\ conn' = [c \in Conn |-> Offline]
  /\ del' = [r \in Deleter |-> Resting]
  /\ cleanup' = NoCycle
  /\ UNCHANGED <<writer, tables, accepted>>

ConnStep(c) ==
  \/ \E b \in Board : Lookup(c, b)
  \/ LoadRoom(c) \/ InsertRoom(c) \/ SendJoin(c) \/ SendAuth(c) \/ AuthDropped(c)
  \/ \E e \in Edit : SendPush(c, e)
  \/ Leave(c) \/ SendQuit(c)

TaskStep(t) ==
  \/ HandleJoin(t) \/ HandleQuit(t) \/ HandleAuth(t) \/ HandlePush(t)
  \/ HandleHasUsers(t) \/ FinishSave(t) \/ HandleDelete(t) \/ PoolTimeout(t)
  \/ Abandon(t)

DeleteStep(r) ==
  \/ \E b \in Board : TakeClient(r, b)
  \/ StartDelete(r) \/ SendDelete(r) \/ DeleteDropped(r) \/ RemoveRoom(r)

CleanupStep ==
  \/ StartCycle \/ StartCollect \/ EndCycle
  \/ \E b \in Board : AskRoom(b) \/ AnswerDropped(b)

Next ==
  \/ \E b \in Board : CreateRoom(b)
  \/ \E c \in Conn : ConnStep(c)
  \/ \E t \in Task : TaskStep(t) \/ Panic(t)
  \/ \E r \in Deleter : DeleteStep(r)
  \/ CleanupStep
  \/ Shutdown

Spec == Init /\ [][Next]_vars

(* Tokio's tasks run, and its lock and its channels serve those that wait  *)
(* for them in order: whoever asks for the lock or for a place in a        *)
(* mailbox gets it, though it may be taken many times before.              *)
Fairness ==
  /\ \A t \in Task : WF_vars(TaskStep(t))
  /\ \A c \in Conn :
       /\ WF_vars(LoadRoom(c)) /\ WF_vars(AuthDropped(c))
       /\ SF_vars(InsertRoom(c)) /\ SF_vars(SendJoin(c)) /\ SF_vars(SendQuit(c))
  /\ \A r \in Deleter :
       /\ WF_vars(DeleteDropped(r)) /\ SF_vars(StartDelete(r))
       /\ SF_vars(SendDelete(r)) /\ SF_vars(RemoveRoom(r))
  /\ WF_vars(StartCollect) /\ WF_vars(EndCycle)
  /\ \A b \in Board : SF_vars(AskRoom(b)) /\ WF_vars(AnswerDropped(b))

FairSpec == Spec /\ Fairness

----------------------------------------------------------------------------
(* Properties.                                                             *)

Live(t) == status[t] \in {"idle", "saving"}
Kept == saved \cup UNION {{board[t]} \X unsaved[t] : t \in {x \in Task : Live(x)}}

(* Outside a cleanup cycle a registered room is one that still reads its   *)
(* mailbox, or one that died of a panic: whoever finds a room in the       *)
(* registry has not found one that has just saved its board and left.      *)
RegistryLive ==
  writer = None =>
    \A b \in Board : rooms[b] # None =>
      \/ status[rooms[b]] = "idle" /\ board[rooms[b]] = b
      \/ status[rooms[b]] = "panicked"

(* A room that leaves its loop drops what is in its mailbox.  That can be  *)
(* the Join of a user who came too late, never an edit, a Quit, or a       *)
(* request somebody waits for.                                             *)
OnlyJoinsDropped ==
  \A t \in Task : status[t] = "saving" /\ mailbox[t] # <<>> => mailbox[t][1].kind = "join"

(* Outside a cycle the lock is free or read, and within one the cycle asks *)
(* every registered room once.                                             *)
LockHeld ==
  /\ readers # {} => writer = None
  /\ writer = None => cleanup = NoCycle
  /\ writer = cleaner =>
       /\ cleanup.pc # "idle"
       /\ DOMAIN cleanup.answer = {b \in Board : rooms[b] # None}
  /\ cleanup.pc = "collecting" =>
       \A b \in DOMAIN cleanup.answer : cleanup.answer[b] # "unasked"

(* Within a cycle a registered room reads its mailbox, saves its board     *)
(* because it was asked, has answered that it is unused, or has panicked.  *)
CycleFollows ==
  writer = cleaner =>
    \A b \in Board : rooms[b] # None =>
      \/ /\ status[rooms[b]] = "idle" /\ board[rooms[b]] = b
         /\ cleanup.answer[b] \in {"unasked", "asked", "used"}
      \/ status[rooms[b]] = "saving" /\ board[rooms[b]] = b /\ cleanup.answer[b] = "asked"
      \/ status[rooms[b]] = "ended" /\ cleanup.answer[b] = "unused"
      \/ status[rooms[b]] = "panicked"

Asked(t) == writer = cleaner /\ \E b \in Board : rooms[b] = t /\ cleanup.answer[b] = "asked"

(* Only the cycle makes a room save, and only a registered one.            *)
OnlyAskedSave ==
  \A t \in Task : \/ status[t] = "saving"
                  \/ mailbox[t] # <<>> /\ mailbox[t][1].kind = "has_users"
                  => Asked(t)

Inside == {"joined", "authing", "authed", "leaving"}
Waits(t, kind, x) == mailbox[t] # <<>> /\ mailbox[t][1].kind = kind /\ mailbox[t][1].from = x

(* A connection that has joined is a user of its room, or its Join waits.  *)
UsersJoined ==
  \A t \in Task, c \in Conn :
    conn[c].chan = t /\ conn[c].pc \in Inside /\ ~Gone(t) => c \in users[t] \/ Waits(t, "join", c)

(* A request that waits for its answer, and nobody who has left, is in a   *)
(* mailbox.                                                                *)
MailTrue ==
  \A t \in Task :
    /\ \A c \in Conn : Waits(t, "auth", c) => conn[c].pc = "authing" /\ conn[c].chan = t
    /\ \A c \in Conn : Waits(t, "quit", c) => ~(conn[c].chan = t /\ conn[c].pc \in Inside)
    /\ \A r \in Deleter : Waits(t, "delete", r) => del[r].pc = "waiting" /\ del[r].chan = t

(* A room that is gone has no messages, one that saves to leave has no     *)
(* users, and what is unsaved has been accepted.                           *)
TasksSound ==
  \A t \in Task :
    /\ Gone(t) => mailbox[t] = <<>>
    /\ ~Gone(t) => board[t] \in Board
    /\ status[t] = "saving" => users[t] = {}
    /\ \A e \in unsaved[t] : <<board[t], e>> \in accepted

(* Whoever waits for the lock or a mailbox knows the room he waits for; a  *)
(* room that is loaded is known to nobody else before it is registered.    *)
ChansKnown ==
  /\ \A c \in Conn :
       /\ conn[c].pc \in {"inserting", "joining"} \cup Inside => conn[c].chan \in Task
       /\ conn[c].pc \in {"loading", "inserting"} => conn[c].board \in Board
       /\ conn[c].pc = "inserting" =>
            /\ ~Registered(conn[c].chan)
            /\ \A d \in Conn \ {c} : conn[d].chan # conn[c].chan
            /\ \/ status[conn[c].chan] = "idle" /\ board[conn[c].chan] = conn[c].board
               \/ status[conn[c].chan] = "panicked"
  /\ \A r \in Deleter :
       /\ del[r].pc \in {"sending", "waiting"} => del[r].chan \in Task /\ r \in readers
       /\ del[r].pc # "idle" => del[r].board \in Board

(* The inductive invariant behind RegistryLive and OnlyJoinsDropped.       *)
RoomsInv == TypeOK /\ RegistryLive /\ OnlyJoinsDropped /\ LockHeld /\ CycleFollows
            /\ OnlyAskedSave /\ UsersJoined /\ MailTrue /\ ChansKnown /\ TasksSound

(* The cleanup removes no room that somebody uses, however joins, quits    *)
(* and the cycle interleave ("unused room(s)", cleanup.rs).                *)
CleanupKeepsUsed ==
  [][EndCycle => \A b \in Board :
       rooms[b] # None /\ Live(rooms[b]) => rooms'[b] = rooms[b]]_vars

Died(t) == Panic(t) \/ PoolTimeout(t) \/ Abandon(t)

(* An edit a room has accepted, on a board that still exists, is lost only *)
(* with a statement that carried it and failed, a task that nobody can     *)
(* reach any more, a panic or a stop of the server.  In particular the     *)
(* cleanup writes every room it ends, and a room replaced in the registry  *)
(* by another one loses nothing while somebody knows it.                   *)
LossExplained ==
  [][\A p \in accepted : p \in Kept /\ p[1] \in exists' /\ ~(p \in Kept')
       => \/ p \in failed'
          \/ Shutdown
          \/ \E t \in Task : board[t] = p[1] /\ Died(t)]_vars

(* A cleanup cycle ends: no room it waits for waits for the lock it holds. *)
CleanupEnds == writer = cleaner ~> writer = None

(* A request to delete a room is answered, and whoever connects is let in  *)
(* or sent away, whatever the registry goes through meanwhile.             *)
RequestsEnd ==
  /\ \A r \in Deleter : del[r].pc # "idle" ~> del[r].pc = "idle"
  /\ \A c \in Conn : conn[c].pc \in {"loading", "inserting", "joining", "authing", "leaving"}
                       ~> conn[c].pc \in {"offline", "joined", "authed"}

(* "send Expire message", "await for saving" (on_shutdown): when the       *)
(* server stops, what the rooms have accepted is saved.                    *)
ShutdownSaves == [][Shutdown => \A p \in Kept : p[1] \in exists => p \in saved']_vars
=============================================================================
