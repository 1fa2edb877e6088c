----------------------------- MODULE BoardView -----------------------------
(***************************************************************************)
(* Board with a history variable that holds what the board shows: the      *)
(* state the clients see through pulls, whatever part of it is still in    *)
(* the queue, on its way to the database, or saved.                        *)
(***************************************************************************)
EXTENDS Board

VARIABLE contents

viewVars == <<vars, contents>>

ViewInit == Init /\ contents = NoEdits

Observe ==
  \E r \in {edits'}, ce \in {create_edit'}, ue \in {update_edit'}, q \in {queue'} :
    contents' = Contents(r, ce, ue, q)

(* Several clients, as in Board.                                           *)
ViewNext == Next /\ Observe

(* One editor at a time: a command names an edit it has an effect on.      *)
EffectiveNext ==
  /\ \/ \E e \in Edit : Push(e)
     \/ \E e \in ToSet(contents.current) : Undo(e)
     \/ \E e \in ToSet(contents.undone) : Redo(e)
     \/ \E st \in Status : Empty(st)
     \/ \E v \in Views : Pull(v)
     \/ Housekeeping
  /\ Observe

ViewSpec == ViewInit /\ [][ViewNext]_viewVars
EffectiveSpec == ViewInit /\ [][EffectiveNext]_viewVars

----------------------------------------------------------------------------
(* With one editor at a time, the queue, the cache, the flushes in any     *)
(* order of their chunks, the saves and the reloads implement the plain    *)
(* board of SharedBoard: every pull is answered from the two lists.        *)
Plain == INSTANCE SharedBoard
           WITH current <- contents.current, undone <- contents.undone
ImplementsSharedBoard == Plain!Spec

InEither(s) == ToSet(s.current) \cup ToSet(s.undone)

(* What may take edits off the board: emptying a list, a kill, a panic of  *)
(* the room, a creation that fails.                                        *)
Faulty == Crash \/ pc' = "stopped" \/ (EditTaskCreate /\ edits' = edits)

(* Several clients, repeated commands, equal timestamps, statements that   *)
(* fail: an edit accepted once stays on the board, in one list or the      *)
(* other, through every flush, save and reload, until the list it is in is *)
(* emptied or the very statement or task that carries it fails.            *)
NothingLost ==
  [][InEither(contents) \subseteq InEither(contents') \/ EditTaskDelete \/ Faulty]_viewVars

(* ... and is in one place only: no flush makes two rows of one edit.      *)
NoDuplicates ==
  /\ ToSet(contents.current) \cap ToSet(contents.undone) = {}
  /\ Len(contents.current) = Cardinality(ToSet(contents.current))
  /\ Len(contents.undone) = Cardinality(ToSet(contents.undone))

(* Where an edit is.                                                       *)
Place(s, e) == CASE e \in ToSet(s.current) -> "current"
                 [] e \in ToSet(s.undone) -> "undone"
                 [] OTHER -> "absent"

(* A kill at any moment, also between two statements of a flush, changes   *)
(* the place of at most OPERATION_QUEUE_SIZE edits.                        *)
LossBounded ==
  [][Crash => Cardinality({e \in Edit : Place(contents, e) # Place(contents', e)})
                <= OPERATION_QUEUE_SIZE]_viewVars
=============================================================================
