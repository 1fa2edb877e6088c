---------------------------- MODULE SharedBoard ----------------------------
(***************************************************************************)
(* What a room promises its clients: two ordered lists of edits, changed   *)
(* by one operation at a time.  There is no queue, no cache and no         *)
(* database: saving, stopping and reloading a room must not show.          *)
(***************************************************************************)
EXTENDS SequencesExt

CONSTANTS Edit, Views

VARIABLES current, undone, reply
vars == <<current, undone, reply>>

(* t is what is left of s without the edits of have, in the order of s.    *)
Lacking(t, s, have) ==
  \E at \in [DOMAIN t -> DOMAIN s] :
     /\ \A i, j \in DOMAIN t : i < j => at[i] < at[j]
     /\ \A i \in DOMAIN t : t[i] = s[at[i]]
     /\ {at[i] : i \in DOMAIN t} = {j \in DOMAIN s : s[j] \notin have}

(* r tells a client with the id sets v what it lacks and what it has in    *)
(* excess.                                                                 *)
Answers(r, v) ==
  /\ Lacking(r.create_current, current, v.current)
  /\ r.delete_current = v.current \ ToSet(current)
  /\ Lacking(r.create_undone, undone, v.undone)
  /\ r.delete_undone = v.undone \ ToSet(undone)

Init ==
  /\ current = <<>>
  /\ undone = <<>>
  /\ Answers(reply, [current |-> {}, undone |-> {}])

Push(e) ==
  /\ e \notin ToSet(current) \cup ToSet(undone)
  /\ current' = Append(current, e)
  /\ UNCHANGED <<undone, reply>>

Undo(e) ==
  /\ \E i \in DOMAIN current : current[i] = e /\ current' = RemoveAt(current, i)
  /\ undone' = Append(undone, e)
  /\ UNCHANGED reply

Redo(e) ==
  /\ \E i \in DOMAIN undone : undone[i] = e /\ undone' = RemoveAt(undone, i)
  /\ current' = Append(current, e)
  /\ UNCHANGED reply

EmptyCurrent == current' = <<>> /\ UNCHANGED <<undone, reply>>
EmptyUndone == undone' = <<>> /\ UNCHANGED <<current, reply>>

Pull(v) ==
  /\ UNCHANGED <<current, undone>>
  /\ \E r \in {reply'} : Answers(r, v)

Next ==
  \/ \E e \in Edit : Push(e) \/ Undo(e) \/ Redo(e)
  \/ EmptyCurrent \/ EmptyUndone
  \/ \E v \in Views : Pull(v)

Spec == Init /\ [][Next]_vars
=============================================================================
