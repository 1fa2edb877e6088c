------------------------------ MODULE DbQueue ------------------------------
(***************************************************************************)
(* The queue between the room tasks and the table edits: four channels     *)
(* that all rooms share, the edit task that empties one of them at a time  *)
(* into one statement, over one connection it never replaces, and the      *)
(* thread that writes the file a COPY reads.                               *)
(*                                                                         *)
(* Board has one room and a chunk at a time; here several boards, and two  *)
(* rooms of one board (Rooms), meet in one batch.  The order of a board's  *)
(* edits is in Board, their status and their presence are here.            *)
(***************************************************************************)
EXTENDS Naturals, Sequences, FiniteSets, SequencesExt

CONSTANTS
  Board, Edit,
  Room,                \* room tasks
  BoardOf,             \* the board a room is for
  DB_QUEUE_ITEM_SIZE,  \* capacity of a channel
  MaxItems             \* bound: edits one flush of a room carries

ASSUME DbQueueAssumption ==
  /\ BoardOf \in [Room -> Board]
  /\ DB_QUEUE_ITEM_SIZE \in Nat \ {0}

Status == {"current", "undone"}
Op == {"create", "update", "delete", "read"}
Row == [board : Board, edit : Edit, status : Status]
Chunk == [op : {"create", "update"}, room : Room, status : Status, items : SUBSET Edit]
         \cup [op : {"delete"}, room : Room, status : Status]
         \cup [op : {"read"}, room : Room]

VARIABLES
  exists,    \* rows of the table boards
  rows,      \* rows of the table edits
  channel,   \* create_edit, update_edit, delete_edit, read_edit
  stage,     \* of the edit task
  batch,     \* the chunks it has received
  healthy,   \* does its connection still execute statements?
  out,       \* of each room, the chunks it waits to send
  due,       \* of each room, the chunks it awaits the answer to
  want,      \* history: the rows there are if every statement has its effect
  harmed     \* history: boards a statement has failed for

chans == <<channel, out, due>>
task == <<stage, batch, healthy>>
vars == <<exists, rows, channel, stage, batch, healthy, out, due, want, harmed>>

TypeOK ==
  /\ exists \subseteq Board
  /\ rows \subseteq Row /\ want \subseteq Row
  /\ channel \in [Op -> Seq(Chunk)]
  /\ stage \in {"idle", "received", "written", "dead"}
  /\ batch \in Seq(Chunk)
  /\ healthy \in BOOLEAN
  /\ out \in [Room -> SUBSET Chunk] /\ due \in [Room -> SUBSET Chunk]
  /\ harmed \subseteq Board

Init ==
  /\ exists = Board
  /\ rows = {} /\ want = {} /\ harmed = {}
  /\ channel = [op \in Op |-> <<>>]
  /\ stage = "idle" /\ batch = <<>> /\ healthy = TRUE
  /\ out = [r \in Room |-> {}] /\ due = out

----------------------------------------------------------------------------
(* The statements, each for all chunks of a batch.                         *)

Target(c) == BoardOf[c.room]
Of(table, b) == {x \in table : x.board = b}

copy(table, cs) ==
  table \cup UNION {[board : {Target(c)}, edit : c.items, status : {c.status}] : c \in cs}

(* UPDATE names the edit alone.                                            *)
set_status(table, cs) ==
  {IF \E c \in cs : x.edit \in c.items
     THEN [x EXCEPT !.status = (CHOOSE c \in cs : x.edit \in c.items).status]
     ELSE x : x \in table}

delete_bulk(table, cs) ==
  {x \in table : ~\E c \in cs : x.board = Target(c) /\ x.status = c.status}

----------------------------------------------------------------------------
(* A room task.  It handles one message at a time and awaits what it asks  *)
(* for.                                                                    *)

(* Rooms that change rows of the board and have not got every answer.      *)
Writing(b) == {r \in Room : BoardOf[r] = b /\ \E c \in due[r] : c.op # "read"}

Boards(cs) == {Target(c) : c \in {x \in cs : x.op # "read"}}

(* A board a statement has failed for is expected to hold nothing.         *)
Harm(bs) ==
  /\ harmed' = harmed \cup bs
  /\ want' = {x \in want : x.board \notin bs}

(* When the edit task is gone, send fails at once: a flush goes on, a      *)
(* delete or a read panics its room, which is loaded anew.                 *)
Ask(r, cs, then) ==
  /\ due[r] = {}
  /\ \/ /\ stage # "dead"
        /\ due' = [due EXCEPT ![r] = cs]
        /\ out' = [out EXCEPT ![r] = cs]
        /\ want' = IF BoardOf[r] \in exists \ harmed THEN then ELSE want
        /\ UNCHANGED harmed
     \/ /\ stage = "dead"
        /\ Harm(Boards(cs))
        /\ UNCHANGED <<out, due>>
  /\ UNCHANGED <<exists, rows, channel, task>>

Fresh == {e \in Edit : /\ ~\E x \in rows \cup want : x.edit = e
                       /\ ~\E r \in Room : \E c \in due[r] :
                            c.op \in {"create", "update"} /\ e \in c.items}
Known(b) == {x.edit : x \in Of(rows \cup want, b)}

Chunks(r, op, st, items) ==
  IF items = {} THEN {} ELSE {[op |-> op, room |-> r, status |-> st, items |-> items]}

Creates(r, cur, und) ==
  Chunks(r, "create", "current", cur) \cup Chunks(r, "create", "undone", und)
Updates(r, setCur, setUnd) ==
  Chunks(r, "update", "current", setCur) \cup Chunks(r, "update", "undone", setUnd)

(* Mutant: sync_with_queue does not await the answers to its updates.      *)
FlushForgetsUpdates(r, cur, und, setCur, setUnd) ==
  LET creates == Creates(r, cur, und)
      updates == Updates(r, setCur, setUnd)
  IN  /\ Writing(BoardOf[r]) = {}
      /\ creates # {}
      /\ Ask(r, creates, set_status(copy(want, creates), updates))

(* sync_with_queue, of a queue with these creations and changes.  Where a  *)
(* board has two rooms, one of them writes at a time.                      *)
Flush(r, cur, und, setCur, setUnd) ==
  LET creates == Creates(r, cur, und)
      updates == Updates(r, setCur, setUnd)
  IN  /\ Writing(BoardOf[r]) = {}
      /\ creates \cup updates # {}
      /\ Ask(r, creates \cup updates, set_status(copy(want, creates), updates))

(* empty_current, empty_undone, once the queue is flushed.                 *)
Empty(r, st) ==
  LET c == [op |-> "delete", room |-> r, status |-> st]
  IN  Writing(BoardOf[r]) = {} /\ Ask(r, {c}, delete_bulk(want, {c}))

(* pull, without a cache.                                                  *)
Pull(r) == Ask(r, {[op |-> "read", room |-> r]}, want)

(* send waits for a place in the channel.                                  *)
Send(r, c) ==
  /\ c \in out[r]
  /\ Len(channel[c.op]) < DB_QUEUE_ITEM_SIZE
  /\ channel' = [channel EXCEPT ![c.op] = Append(@, c)]
  /\ out' = [out EXCEPT ![r] = @ \ {c}]
  /\ UNCHANGED <<exists, rows, task, due, want, harmed>>

(* board::delete, from delete_room or another room task: its edits go with *)
(* it.                                                                     *)
DeleteBoard(b) ==
  /\ b \in exists
  /\ exists' = exists \ {b}
  /\ rows' = rows \ Of(rows, b)
  /\ want' = want \ Of(want, b)
  /\ UNCHANGED <<chans, task, harmed>>

----------------------------------------------------------------------------
(* The edit task.                                                          *)

(* select! takes any channel that has chunks, recv_many all of them.       *)
Receive(op) ==
  /\ stage = "idle"
  /\ channel[op] # <<>>
  /\ batch' = channel[op]
  /\ channel' = [channel EXCEPT ![op] = <<>>]
  /\ stage' = "received"
  /\ UNCHANGED <<exists, rows, healthy, out, due, want, harmed>>

Has(op) == stage = "received" /\ batch[1].op = op

Done == stage' = "idle" /\ batch' = <<>>
Answer == due' = [r \in Room |-> due[r] \ ToSet(batch)]

(* The task panics: what its channels hold is dropped, and so is every     *)
(* answer but these.                                                       *)
End(answered) ==
  /\ stage' = "dead" /\ batch' = <<>>
  /\ channel' = [op \in Op |-> <<>>]
  /\ out' = [r \in Room |-> {}] /\ due' = out'
  /\ Harm(Boards((UNION {due[r] : r \in Room}) \ answered))

(* edit_writer.                                                            *)
WriteFile ==
  /\ Has("create")
  /\ stage' = "written"
  /\ UNCHANGED <<exists, rows, chans, batch, healthy, want, harmed>>

(* Mutant: the channels outlive the edit task.                             *)
WriterPanicsAlone ==
  /\ Has("create")
  /\ stage' = "dead" /\ batch' = <<>>
  /\ Harm(Boards(ToSet(batch)))
  /\ Answer
  /\ UNCHANGED <<exists, rows, channel, healthy, out>>

(* The thread unwraps the parsed id, which validate_edit accepts when it   *)
(* has 36 characters, and its file operations; the edit task unwraps its   *)
(* answer.                                                                 *)
WriterPanics ==
  /\ Has("create")
  /\ End({})
  /\ UNCHANGED <<exists, rows, healthy>>

(* The COPY and its answers.  A board that is gone fails it for all.       *)
Copy ==
  /\ stage = "written" /\ healthy
  /\ Boards(ToSet(batch)) \subseteq exists
  /\ rows' = copy(rows, ToSet(batch))
  /\ Answer /\ Done
  /\ UNCHANGED <<exists, channel, healthy, out, want, harmed>>

(* The COPY is answered, and its file cannot be removed.                   *)
FileStays ==
  /\ stage = "written" /\ healthy
  /\ Boards(ToSet(batch)) \subseteq exists
  /\ rows' = copy(rows, ToSet(batch))
  /\ End(ToSet(batch))
  /\ UNCHANGED <<exists, healthy>>

(* A failed COPY answers too.  Its cause may be the connection's end.      *)
CopyFails ==
  /\ stage = "written"
  /\ healthy' \in {FALSE, healthy}
  /\ Answer /\ Done
  /\ Harm(Boards(ToSet(batch)))
  /\ UNCHANGED <<exists, rows, channel, out>>

SetStatus ==
  /\ Has("update") /\ healthy
  /\ rows' = set_status(rows, ToSet(batch))
  /\ Answer /\ Done
  /\ UNCHANGED <<exists, channel, healthy, out, want, harmed>>

DeleteBulk ==
  /\ Has("delete") /\ healthy
  /\ rows' = delete_bulk(rows, ToSet(batch))
  /\ Answer /\ Done
  /\ UNCHANGED <<exists, channel, healthy, out, want, harmed>>

(* BEGIN; ... COMMIT; fails on its way: nothing rolls the transaction      *)
(* back, and the connection executes no statement any more.                *)
TransactionFails ==
  /\ Has("update") \/ Has("delete")
  /\ healthy' = FALSE
  /\ Harm(Boards(ToSet(batch)))
  /\ Answer /\ Done
  /\ UNCHANGED <<exists, rows, channel, out>>

(* What its readers are handed is not kept: in one batch the second of two *)
(* rooms of a board gets nothing (Rooms says when there are two).          *)
Read ==
  /\ Has("read") /\ healthy
  /\ Answer /\ Done
  /\ UNCHANGED <<exists, rows, channel, healthy, out, want, harmed>>

ReadFails ==
  /\ Has("read")
  /\ healthy' \in {FALSE, healthy}
  /\ Answer /\ Done
  /\ UNCHANGED <<exists, rows, channel, out, want, harmed>>

Execute == Copy \/ FileStays \/ CopyFails \/ SetStatus \/ DeleteBulk \/ TransactionFails \/ Read \/ ReadFails

----------------------------------------------------------------------------
RoomStep(r) ==
  \/ \E new \in SUBSET Fresh, old \in SUBSET Known(BoardOf[r]) :
       /\ Cardinality(new \cup old) <= MaxItems[r]
       /\ \E und \in SUBSET new, setUnd \in SUBSET old :
            Flush(r, new \ und, und, old \ setUnd, setUnd)
  \/ \E st \in Status : Empty(r, st)
  \/ Pull(r)

Next ==
  \/ \E r \in Room : RoomStep(r)
  \/ \E r \in Room : \E c \in out[r] : Send(r, c)
  \/ \E b \in Board : DeleteBoard(b)
  \/ \E op \in Op : Receive(op)
  \/ WriteFile \/ WriterPanics \/ Execute

Spec == Init /\ [][Next]_vars

----------------------------------------------------------------------------
(* Properties.                                                             *)

(* Every chunk a room awaits the answer to is still to be sent, in its     *)
(* channel or in the batch at hand, and none is when the edit task is      *)
(* gone: no room waits for an answer that nobody is left to give or to     *)
(* drop (rx.await, join4), whatever fails and however full the channels.   *)
NobodyForgotten ==
  /\ stage = "dead" => \A r \in Room : due[r] = {}
  /\ \A r \in Room : \A c \in due[r] :
       c \in out[r] \cup ToSet(channel[c.op]) \cup ToSet(batch)

(* A batch is of one kind, and there is one exactly when the task is busy. *)
Batches ==
  /\ batch = <<>> <=> stage \in {"idle", "dead"}
  /\ \A i, j \in DOMAIN batch : batch[i].op = batch[j].op
  /\ stage = "written" => batch[1].op = "create"
  /\ \A op \in Op : \A c \in ToSet(channel[op]) : c.op = op

(* A chunk is in one place, and its room awaits the answer.                *)
OnePlace ==
  /\ \A r \in Room : out[r] \subseteq due[r] /\ \A c \in due[r] : c.room = r
  /\ \A c \in ToSet(batch) : c \in due[c.room] \ out[c.room]
  /\ \A op \in Op : \A c \in ToSet(channel[op]) :
       c \in due[c.room] \ out[c.room] /\ c \notin ToSet(batch)

(* What all chunks on their way have in common.                            *)
DbQueueInv == TypeOK /\ Batches /\ OnePlace /\ NobodyForgotten

(* When no room awaits a change of a board, the table holds what its       *)
(* flushes said, whichever chunks of other boards shared their batches and *)
(* in whichever order select! took the channels, unless a statement has    *)
(* failed that carried one of its chunks (sync_with_queue, "execute the    *)
(* ops").                                                                  *)
Stored == \A b \in Board \ harmed : Writing(b) = {} => Of(rows, b) = Of(want, b)
=============================================================================
