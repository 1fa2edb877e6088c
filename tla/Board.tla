------------------------------- MODULE Board -------------------------------
(***************************************************************************)
(* One board, the room task that owns it and the edit task that runs its   *)
(* database statements.                                                    *)
(*                                                                         *)
(* The room task takes one message at a time and handles it to the end.    *)
(* Pushes, undos and redos are appended to an operation queue; when the    *)
(* queue is full, when a list is emptied and when the room stops, the      *)
(* queue is condensed into chunks sent to the edit task, which picks the   *)
(* create or the update channel in any order.  A pull replays the queue    *)
(* over a cached copy of the database's rows.                              *)
(***************************************************************************)
EXTENDS EditLog

CONSTANTS
  OPERATION_QUEUE_SIZE,   \* capacity of the operation queue
  Views,                  \* the id sets clients send with a pull
  ClockSteps,             \* how far SystemTime moves from one operation to the next
  DbMayFail,              \* may a database statement fail?
  MayCrash,               \* may the server be killed?
  MaxTime,                \* bound: operations are accepted until this time
  NoCache                 \* db_cache = None

ASSUME BoardAssumption ==
  /\ OPERATION_QUEUE_SIZE \in Nat \ {0}
  /\ Views \subseteq View
  /\ ClockSteps \subseteq Nat
  /\ DbMayFail \in BOOLEAN
  /\ MayCrash \in BOOLEAN
  /\ MaxTime \in Nat
  /\ NoCache \notin EditState

VARIABLES
  queue,        \* Board.queue
  db_cache,     \* Board.db_cache
  edits,        \* this board's rows of the table edits
  create_edit,  \* chunks in the create channel
  update_edit,  \* chunks in the update channel
  pc,           \* where the room task is
  todo,         \* the message being handled while the task awaits the database
  now,          \* SystemTime
  known,        \* the ids of the edits pushed so far: ids are never reused
  revoked,      \* the ids undone at least once: only these can be redone
  reply         \* the latest PullData

boardVars == <<queue, db_cache>>
dbVars == <<edits, create_edit, update_edit>>
taskVars == <<pc, todo>>
vars == <<queue, db_cache, edits, create_edit, update_edit, pc, todo, now, known, revoked, reply>>

(* "recv": waiting for the next message.  "flush": in sync_with_queue.     *)
(* "delete", "read": awaiting the edit task.  "stopped": the loop ended.   *)
Pc == {"recv", "flush", "delete", "read", "stopped"}

Nothing == [do |-> "nothing"]
Todo == {Nothing, [do |-> "stop"]}
        \cup [do : {"queue"}, kind : OpKind, id : Edit]
        \cup [do : {"delete"}, status : Status]
        \cup [do : {"pull"}, view : View]

TypeOK ==
  /\ queue \in Seq(QueueOp)
  /\ db_cache \in EditState \cup {NoCache}
  /\ edits \in SUBSET Row
  /\ IsFiniteSet(edits)
  /\ create_edit \in Seq(Chunk)
  /\ update_edit \in Seq(Chunk)
  /\ pc \in Pc
  /\ todo \in Todo
  /\ now \in Nat
  /\ known \in SUBSET Edit
  /\ revoked \in SUBSET known
  /\ reply \in Answer

Init ==
  /\ queue = <<>>
  /\ db_cache = NoCache
  /\ edits = {}
  /\ create_edit = <<>> /\ update_edit = <<>>
  /\ pc = "recv"
  /\ todo = Nothing
  /\ now = 0
  /\ known = {} /\ revoked = {}
  /\ reply = PullData(NoEdits, [current |-> {}, undone |-> {}])

----------------------------------------------------------------------------
(* sync_with_queue: empty chunks are not sent.                             *)

Chunks(st, items) == IF items = {} THEN <<>> ELSE <<[status |-> st, items |-> items]>>

(* Mutant: the undone half of the creations is forgotten.                  *)
CreateChunksOneList(d) == Chunks("current", d.current)

CreateChunks(d) == Chunks("current", d.current) \o Chunks("undone", d.undone)

UpdateChunks(d) == Chunks("current", d.set_current) \o Chunks("undone", d.set_undone)

(* Mutant: the cache survives the flush.                                   *)
FlushKeepCache(then) ==
  LET d == get_sync_data(queue)
  IN  /\ create_edit' = CreateChunks(d)
      /\ update_edit' = UpdateChunks(d)
      /\ queue' = <<>>
      /\ UNCHANGED db_cache
      /\ pc' = "flush"
      /\ todo' = then

(* db_cache = None; sync_with_queue(queue.drain(..)); what follows it is   *)
(* kept in todo.                                                           *)
Flush(then) ==
  LET d == get_sync_data(queue)
  IN  /\ create_edit' = CreateChunks(d)
      /\ update_edit' = UpdateChunks(d)
      /\ queue' = <<>>
      /\ db_cache' = NoCache
      /\ pc' = "flush"
      /\ todo' = then

Stamped(kind, id, t) == Append(queue, [kind |-> kind, id |-> id, at |-> t])

(* Mutant: the capacity test is off by one.                                *)
EnqueueOffByOne(kind, id) ==
  /\ pc = "recv"
  /\ \/ /\ Len(queue) > OPERATION_QUEUE_SIZE
        /\ Flush([do |-> "queue", kind |-> kind, id |-> id])
        /\ UNCHANGED now
     \/ /\ Len(queue) <= OPERATION_QUEUE_SIZE
        /\ now' \in {now + d : d \in ClockSteps}
        /\ queue' = Stamped(kind, id, now')
        /\ UNCHANGED <<db_cache, create_edit, update_edit, pc, todo>>
  /\ UNCHANGED <<edits, reply>>

(* push and exec_command after validation: flush when one more operation   *)
(* would not fit, then append; the time is taken at the append.            *)
Enqueue(kind, id) ==
  /\ pc = "recv"
  /\ \/ /\ Len(queue) + 1 > OPERATION_QUEUE_SIZE
        /\ Flush([do |-> "queue", kind |-> kind, id |-> id])
        /\ UNCHANGED now
     \/ /\ Len(queue) + 1 <= OPERATION_QUEUE_SIZE
        /\ now' \in {now + d : d \in ClockSteps}
        /\ queue' = Stamped(kind, id, now')
        /\ UNCHANGED <<db_cache, create_edit, update_edit, pc, todo>>
  /\ UNCHANGED <<edits, reply>>

Push(e) ==
  /\ now < MaxTime
  /\ e \notin known
  /\ known' = known \cup {e}
  /\ UNCHANGED revoked
  /\ Enqueue("push", e)

(* exec_command queues the command whether or not the edit exists; the     *)
(* edits that clients name are ones they have had.                         *)
Undo(e) ==
  /\ now < MaxTime
  /\ e \in known
  /\ revoked' = revoked \cup {e}
  /\ UNCHANGED known
  /\ Enqueue("undo", e)

Redo(e) ==
  /\ now < MaxTime
  /\ e \in revoked
  /\ UNCHANGED <<known, revoked>>
  /\ Enqueue("redo", e)

(* empty_current, empty_undone: flush, then delete the list's rows.        *)
Empty(status) ==
  /\ pc = "recv"
  /\ Flush([do |-> "delete", status |-> status])
  /\ UNCHANGED <<edits, now, known, revoked, reply>>

(* HasUsers in a room without users, and Expire: flush and leave the loop. *)
(* update_board, awaited before, does not touch the edits.                 *)
Save ==
  /\ pc = "recv"
  /\ Flush([do |-> "stop"])
  /\ UNCHANGED <<edits, now, known, revoked, reply>>

(* The answers of all chunks have arrived: sync_with_queue returns.        *)
FlushDone ==
  /\ pc = "flush"
  /\ create_edit = <<>> /\ update_edit = <<>>
  /\ \/ /\ todo.do = "queue"
        /\ now' \in {now + d : d \in ClockSteps}
        /\ queue' = Stamped(todo.kind, todo.id, now')
        /\ pc' = "recv"
        /\ todo' = Nothing
     \/ /\ todo.do = "delete"
        /\ pc' = "delete"
        /\ UNCHANGED <<queue, now, todo>>
     \/ /\ todo.do = "stop"
        /\ pc' = "stopped"
        /\ todo' = Nothing
        /\ UNCHANGED <<queue, now>>
  /\ UNCHANGED <<db_cache, dbVars, known, revoked, reply>>

(* pull with a cache, and without one.                                     *)
Pull(v) ==
  /\ pc = "recv"
  /\ \/ /\ db_cache # NoCache
        /\ reply' = PullData(Replay(db_cache, queue), v)
        /\ UNCHANGED taskVars
     \/ /\ db_cache = NoCache
        /\ pc' = "read"
        /\ todo' = [do |-> "pull", view |-> v]
        /\ UNCHANGED reply
  /\ UNCHANGED <<boardVars, dbVars, now, known, revoked>>

(* clear_db_cache, when the cache has not been used for long enough.       *)
TryExpireCache ==
  /\ pc = "recv"
  /\ db_cache # NoCache
  /\ db_cache' = NoCache
  /\ UNCHANGED <<queue, dbVars, taskVars, now, known, revoked, reply>>

(* retrive_room_channel finds no task for the board and starts one.        *)
Load ==
  /\ pc = "stopped"
  /\ queue' = <<>>
  /\ db_cache' = NoCache
  /\ pc' = "recv"
  /\ todo' = Nothing
  /\ UNCHANGED <<dbVars, now, known, revoked, reply>>

(* The process is killed: only the rows are left.                          *)
Crash ==
  /\ MayCrash
  /\ pc # "stopped"
  /\ pc' = "stopped"
  /\ todo' = Nothing
  /\ queue' = <<>>
  /\ db_cache' = NoCache
  /\ create_edit' = <<>> /\ update_edit' = <<>>
  /\ UNCHANGED <<edits, now, known, revoked, reply>>

----------------------------------------------------------------------------
(* The edit task.  A failed COPY answers as if it had worked; a failed     *)
(* update drops its answer, which sync_with_queue ignores: in both cases   *)
(* the chunk is gone.                                                      *)

EditTaskCreate ==
  /\ create_edit # <<>>
  /\ \/ edits' = create(edits, Head(create_edit))
     \/ DbMayFail /\ UNCHANGED edits
  /\ create_edit' = Tail(create_edit)
  /\ UNCHANGED <<boardVars, update_edit, taskVars, now, known, revoked, reply>>

EditTaskUpdate ==
  /\ update_edit # <<>>
  /\ \/ edits' = set_status(edits, Head(update_edit))
     \/ DbMayFail /\ UNCHANGED edits
  /\ update_edit' = Tail(update_edit)
  /\ UNCHANGED <<boardVars, create_edit, taskVars, now, known, revoked, reply>>

(* A failed delete or read drops the answer; rx.await.unwrap() panics and  *)
(* the room task dies with what it had queued.                             *)
Panic ==
  /\ pc' = "stopped"
  /\ todo' = Nothing
  /\ queue' = <<>>
  /\ db_cache' = NoCache
  /\ UNCHANGED <<edits, reply>>

EditTaskDelete ==
  /\ pc = "delete"
  /\ \/ /\ edits' = delete_bulk(edits, todo.status)
        /\ pc' = "recv"
        /\ todo' = Nothing
        /\ UNCHANGED <<boardVars, reply>>
     \/ DbMayFail /\ Panic
  /\ UNCHANGED <<create_edit, update_edit, now, known, revoked>>

EditTaskRead ==
  /\ pc = "read"
  /\ \/ /\ db_cache' \in read(edits)
        /\ reply' = PullData(Replay(db_cache', queue), todo.view)
        /\ pc' = "recv"
        /\ todo' = Nothing
        /\ UNCHANGED <<queue, edits>>
     \/ DbMayFail /\ Panic
  /\ UNCHANGED <<create_edit, update_edit, now, known, revoked>>

EditTask == EditTaskCreate \/ EditTaskUpdate \/ EditTaskDelete \/ EditTaskRead

----------------------------------------------------------------------------
(* What the board holds: the queue replayed over the rows, once the chunks *)
(* still in the channels are executed, creations first.                    *)

Pending(chan, i) == IF i <= Len(chan) THEN chan[i] ELSE [status |-> "current", items |-> {}]

Settled(rows, ce, ue) ==
  LET created == create(create(rows, Pending(ce, 1)), Pending(ce, 2))
  IN  set_status(set_status(created, Pending(ue, 1)), Pending(ue, 2))

Contents(rows, ce, ue, q) ==
  Replay(CHOOSE s \in read(Settled(rows, ce, ue)) : TRUE, q)

Housekeeping == FlushDone \/ Save \/ TryExpireCache \/ Load \/ Crash \/ EditTask

(* Several clients: a command may name any edit known to its sender, also  *)
(* one that another client has undone, redone or deleted meanwhile.        *)
Next ==
  \/ \E e \in Edit : Push(e) \/ Undo(e) \/ Redo(e)
  \/ \E st \in Status : Empty(st)
  \/ \E v \in Views : Pull(v)
  \/ Housekeeping

Spec == Init /\ [][Next]_vars

----------------------------------------------------------------------------
(* Properties.                                                             *)

(* The queue never outgrows its capacity (the overflow tests of            *)
(* Board::push and Board::exec_command), whichever operation comes next    *)
(* and however long the flush before it takes: an abrupt stop loses at     *)
(* most OPERATION_QUEUE_SIZE operations.                                   *)
QueueBounded == Len(queue) <= OPERATION_QUEUE_SIZE

(* A cached read (Board.db_cache) is always one the database would return  *)
(* now, although rows change in the edit task, several statements after    *)
(* the flush began, and statements may fail.                               *)
CacheCoherent == db_cache # NoCache => db_cache \in read(edits)

(* The rows change only while no cache exists: the reason why              *)
(* CacheCoherent holds.                                                    *)
CacheDroppedFirst == pc \in {"flush", "delete", "read"} => db_cache = NoCache

(* Chunks are in the channels only while the room task is in               *)
(* sync_with_queue: no statement of an earlier flush is still to run when  *)
(* the next message is handled.                                            *)
ChannelsQuiet == pc # "flush" => create_edit = <<>> /\ update_edit = <<>>

(* What a handler awaits agrees with the message it is handling, and it    *)
(* waits for a flush with an empty queue.                                  *)
Stages ==
  /\ pc = "flush" => queue = <<>> /\ todo.do \in {"queue", "delete", "stop"}
  /\ pc = "delete" => todo.do = "delete"
  /\ pc = "read" => todo.do = "pull"

(* The inductive invariant behind QueueBounded and CacheCoherent.          *)
BoardInv == TypeOK /\ QueueBounded /\ CacheCoherent /\ CacheDroppedFirst
            /\ ChannelsQuiet /\ Stages
=============================================================================
