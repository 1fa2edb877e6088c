------------------------------ MODULE EditLog ------------------------------
(***************************************************************************)
(* The data a board's history is made of and the pure functions the server *)
(* computes on it: replaying the operation queue over what the database    *)
(* holds (Board::pull), condensing the queue into database statements      *)
(* (get_sync_data), the statements themselves (create, set_status,         *)
(* delete_bulk, read) and the diff sent to a client.                       *)
(*                                                                         *)
(* An edit is immutable and its payload never matters to the history, so   *)
(* an edit stands for its id.                                              *)
(***************************************************************************)
EXTENDS Naturals, Sequences, FiniteSets, SequencesExt

CONSTANT Edit                  \* edit ids

Status == {"current", "undone"}

(* An operation waiting in Board.queue, with the time it was queued.       *)
OpKind == {"push", "undo", "redo"}
QueueOp == [kind : OpKind, id : Edit, at : Nat]

(* EditState: the two ordered lists of edits of a board.                   *)
EditState == [current : Seq(Edit), undone : Seq(Edit)]
NoEdits == [current |-> <<>>, undone |-> <<>>]

----------------------------------------------------------------------------
(* Board::pull: replaying the queue.                                       *)

(* full_current.remove(len - 1 - i): drop the last occurrence of id.       *)
RemoveLast(s, id) == RemoveAt(s, SelectLastInSeq(s, LAMBDA e : e = id))

(* The mutant of ReplayStep: an undone edit goes back where it came from   *)
(* last, in front of the list instead of at its end.                       *)
ReplayStepFront(s, op) ==
  CASE op.kind = "push" ->
         [current |-> Append(s.current, op.id), undone |-> s.undone]
    [] op.kind = "undo" /\ op.id \in ToSet(s.current) ->
         [current |-> RemoveLast(s.current, op.id),
          undone  |-> <<op.id>> \o s.undone]
    [] op.kind = "redo" /\ op.id \in ToSet(s.undone) ->
         [current |-> Append(s.current, op.id),
          undone  |-> RemoveLast(s.undone, op.id)]
    [] OTHER -> s

(* One iteration of the replay loop: a command naming an edit that is not  *)
(* in the list it takes from is skipped.                                   *)
ReplayStep(s, op) ==
  CASE op.kind = "push" ->
         [current |-> Append(s.current, op.id), undone |-> s.undone]
    [] op.kind = "undo" /\ op.id \in ToSet(s.current) ->
         [current |-> RemoveLast(s.current, op.id),
          undone  |-> Append(s.undone, op.id)]
    [] op.kind = "redo" /\ op.id \in ToSet(s.undone) ->
         [current |-> Append(s.current, op.id),
          undone  |-> RemoveLast(s.undone, op.id)]
    [] OTHER -> s

Replay(s, q) ==
  LET f[i \in 0..Len(q)] == IF i = 0 THEN s ELSE ReplayStep(f[i - 1], q[i])
  IN  f[Len(q)]

----------------------------------------------------------------------------
(* get_sync_data: the queue condensed into four maps from id to time.  A   *)
(* HashMap is the set of its entries, at most one per id.                  *)

Item == [id : Edit, at : Nat]
IdMap == {m \in SUBSET Item : IsFiniteSet(m)}
SyncData == [current : IdMap, undone : IdMap, set_current : IdMap, set_undone : IdMap]
NoSyncData == [current |-> {}, undone |-> {}, set_current |-> {}, set_undone |-> {}]

Has(m, id) == \E it \in m : it.id = id
Del(m, id) == {it \in m : it.id # id}
Put(m, op) == Del(m, op.id) \cup {[id |-> op.id, at |-> op.at]}

(* Mutant: an undo leaves the edit in the current map.                     *)
SyncStepKeepCurrent(d, op) ==
  CASE op.kind = "push" -> [d EXCEPT !.current = Put(@, op)]
    [] op.kind = "undo" /\ Has(d.current, op.id) ->
         [d EXCEPT !.undone = Put(@, op)]
    [] op.kind = "undo" /\ ~Has(d.current, op.id) ->
         [d EXCEPT !.set_current = Del(@, op.id), !.set_undone = Put(@, op)]
    [] op.kind = "redo" /\ Has(d.undone, op.id) ->
         [d EXCEPT !.undone = Del(@, op.id), !.current = Put(@, op)]
    [] op.kind = "redo" /\ ~Has(d.undone, op.id) ->
         [d EXCEPT !.set_undone = Del(@, op.id), !.set_current = Put(@, op)]

(* One iteration of the loop.  A command on an edit the maps already hold  *)
(* moves it between them; any other command becomes a status update.       *)
SyncStep(d, op) ==
  CASE op.kind = "push" -> [d EXCEPT !.current = Put(@, op)]
    [] op.kind = "undo" /\ Has(d.current, op.id) ->
         [d EXCEPT !.current = Del(@, op.id), !.undone = Put(@, op)]
    [] op.kind = "undo" /\ ~Has(d.current, op.id) ->
         [d EXCEPT !.set_current = Del(@, op.id), !.set_undone = Put(@, op)]
    [] op.kind = "redo" /\ Has(d.undone, op.id) ->
         [d EXCEPT !.undone = Del(@, op.id), !.current = Put(@, op)]
    [] op.kind = "redo" /\ ~Has(d.undone, op.id) ->
         [d EXCEPT !.set_undone = Del(@, op.id), !.set_current = Put(@, op)]

get_sync_data(q) ==
  LET f[i \in 0..Len(q)] == IF i = 0 THEN NoSyncData ELSE SyncStep(f[i - 1], q[i])
  IN  f[Len(q)]

----------------------------------------------------------------------------
(* The table edits, restricted to one board, and the statements on it.     *)

Row == [edit_id : Edit, status : Status, changed_at : Nat]
Chunk == [status : Status, items : IdMap]

(* COPY edits FROM ...                                                     *)
create(rows, c) ==
  rows \cup {[edit_id |-> it.id, status |-> c.status, changed_at |-> it.at] : it \in c.items}

(* UPDATE edits SET status, changed_at WHERE edit_id, for every item.      *)
At(m, id) == (CHOOSE it \in m : it.id = id).at

set_status(rows, c) ==
  {IF Has(c.items, r.edit_id)
     THEN [edit_id |-> r.edit_id, status |-> c.status, changed_at |-> At(c.items, r.edit_id)]
     ELSE r : r \in rows}

(* DELETE FROM edits WHERE status AND board_id.                            *)
delete_bulk(rows, status) == {r \in rows : r.status # status}

(* SELECT ... ORDER BY changed_at ASC: rows of equal time come in any      *)
(* order, so a read has a set of possible results.                         *)
Orders(R) ==
  {s \in [1..Cardinality(R) -> R] :
     \A i, j \in DOMAIN s : i < j => s[i] # s[j] /\ s[i].changed_at <= s[j].changed_at}

(* decode_edit_async on every row: a row's payload is the edit.            *)
Ids(s) == [i \in DOMAIN s |-> s[i].edit_id]

read(rows) ==
  {[current |-> Ids(c), undone |-> Ids(u)] :
     c \in Orders({r \in rows : r.status = "current"}),
     u \in Orders({r \in rows : r.status = "undone"})}

----------------------------------------------------------------------------
(* The answer to a pull: what the user lacks, in the server's order, and   *)
(* what the user has and the server has not.                               *)

View == [current : SUBSET Edit, undone : SUBSET Edit]

Missing(s, have) ==
  LET f[i \in 0..Len(s)] == IF i = 0 THEN <<>>
                            ELSE IF s[i] \in have THEN f[i - 1]
                            ELSE Append(f[i - 1], s[i])
  IN  f[Len(s)]

Answer == [create_current : Seq(Edit), delete_current : SUBSET Edit,
           create_undone : Seq(Edit), delete_undone : SUBSET Edit]

PullData(s, v) ==
  [create_current |-> Missing(s.current, v.current),
   delete_current |-> v.current \ ToSet(s.current),
   create_undone  |-> Missing(s.undone, v.undone),
   delete_undone  |-> v.undone \ ToSet(s.undone)]
=============================================================================
