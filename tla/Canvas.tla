------------------------------- MODULE Canvas --------------------------------
(***************************************************************************)
(* The page on which one user draws: the mouse tools, the selection, the   *)
(* clipboard, undo and redo, alone or as the author of a shared board.     *)
(*                                                                         *)
(* A layer is a function from the shapes it holds to their attributes: a   *)
(* place, and for a line of the eraser the shapes it was drawn over.  An   *)
(* edit takes the layer from some attributes to others: nothing to a shape *)
(* (Add), shapes to nothing (Remove), shapes to the same ones (Modify).    *)
(* The room of a shared board is there as what it makes of the messages;   *)
(* Collab is about the way they take.                                      *)
(***************************************************************************)
EXTENDS Naturals, SequencesExt

CONSTANTS
  Shape, Eraser,   \* the shapes, and those the eraser draws
  None,            \* undefined
  MaxEdits,        \* bound: the user acts while the history is shorter
  MaxJobs,         \* bound: copies under way
  MaxOdd           \* bound: the user acts while odd has no more members

ASSUME CanvasAssumption ==
  /\ Eraser \subseteq Shape /\ None \notin Shape
  /\ MaxEdits \in Nat /\ MaxJobs \in Nat /\ MaxOdd \in Nat

VARIABLES
  mode,        \* board.mode
  layer,       \* the first layer of the stage, its groups included
  current, undone,   \* the history
  nodes,       \* the nodes of the Transformer, which are draggable
  selection,   \* select.selection
  drawing,     \* drawingShapeId while isDrawable
  loading,     \* images on their way to the layer
  jobs,        \* writeToClipboard calls that wait for their image
  room,        \* what the room holds, as the messages have left it
  odd          \* history: what explains a deviation

history == <<current, undone>>
vars == <<mode, layer, history, nodes, selection, drawing, loading, jobs, room, odd>>

Attrs == [at : 1..2, on : SUBSET Shape]
Layers == UNION {[X -> Attrs] : X \in SUBSET Shape}
Edit == [id : Nat, from : Layers, to : Layers]
Nothing == [s \in {} |-> None]

Reason == {"clipboard", "keys", "cleared", "cut", "selected", "revived", "uncut", "abandoned", "late", "emptied"}

TypeOK ==
  /\ mode \in {"local", "author"}
  /\ layer \in Layers
  /\ current \in Seq(Edit) /\ undone \in Seq(Edit)
  /\ nodes \subseteq Shape /\ selection \in Layers
  /\ drawing \in Shape \cup {None} /\ loading \subseteq Shape
  /\ jobs \in Seq([cut : BOOLEAN, group : BOOLEAN, shapes : SUBSET Shape])
  /\ room \in [current : Seq(Edit), undone : Seq(Edit)]
  /\ odd \subseteq Reason

Init ==
  /\ mode \in {"local", "author"}
  /\ layer = Nothing /\ current = <<>> /\ undone = <<>>
  /\ nodes = {} /\ selection = Nothing
  /\ drawing = None /\ loading = {} /\ jobs = <<>>
  /\ room = [current |-> <<>>, undone |-> <<>>]
  /\ odd = {}

----------------------------------------------------------------------------
(* EditManager.                                                            *)

On(l) == DOMAIN l
Put(l, from, to) == [s \in (On(l) \ On(from)) \cup On(to) |-> IF s \in On(to) THEN to[s] ELSE l[s]]

(* Shapes that wait for the clipboard are children of a group, where       *)
(* CanvasUtils.findOne does not look.                                      *)
Grouped == UNION {jobs[i].shapes : i \in DOMAIN jobs}
Found == On(layer) \ Grouped

(* A shape that is not found throws when those before it are done.         *)
Change(from, to) ==
  IF On(from) \subseteq Found THEN layer' = Put(layer, from, to)
  ELSE \E done \in SUBSET (On(from) \cap Found) :
         layer' = Put(layer, Restrict(from, done), Restrict(to, done \cap On(to)))
Throws(from) == ~(On(from) \subseteq Found)

Replay(edits) ==
  LET drawn[n \in 0 .. Len(edits)] == IF n = 0 THEN Nothing ELSE Put(drawn[n - 1], edits[n].from, edits[n].to)
  IN drawn[Len(edits)]

----------------------------------------------------------------------------
(* What the room makes of Push, UndoRedo and Empty.                        *)

LastOf(e, edits) == CHOOSE i \in DOMAIN edits : edits[i] = e /\ \A j \in i + 1 .. Len(edits) : edits[j] # e
Without(e, edits) == RemoveAt(edits, LastOf(e, edits))
Has(e, edits) == e \in Range(edits)

Push(r, e) == [r EXCEPT !.current = Append(@, e)]
EmptyUndone(r) == [r EXCEPT !.undone = <<>>]
UndoIn(r, e) ==
  IF Has(e, r.current) THEN [current |-> Without(e, r.current), undone |-> Append(r.undone, e)] ELSE r
RedoIn(r, e) ==
  IF Has(e, r.undone) THEN [current |-> Append(r.current, e), undone |-> Without(e, r.undone)] ELSE r

Send(r) == room' = IF mode = "author" THEN r ELSE room

(* The id of an edit is new: no list holds it.                             *)
NewEdit(from, to) ==
  LET used == {e.id : e \in Range(current) \cup Range(undone) \cup Range(room.current) \cup Range(room.undone)}
  IN [id |-> CHOOSE n \in 0 .. Cardinality(used) : n \notin used, from |-> from, to |-> to]

----------------------------------------------------------------------------
(* Selection.                                                              *)

Blame(reasons) == odd' = odd \cup reasons
If(reason, p) == IF p THEN {reason} ELSE {}

(* A group waits for its image among the children.                         *)
InFlight == \E i \in DOMAIN jobs : jobs[i].group
Early == If("clipboard", InFlight) \cup If("keys", drawing # None)

(* The selection is emptied for each Transformer that is found.            *)
Destroy ==
  /\ nodes' = {}
  /\ selection' = IF nodes = {} THEN selection ELSE Nothing

(* Mutant: the undone edits are kept.                                      *)
CreateKeepUndone(X) ==
  /\ nodes' = X
  /\ selection' = Restrict(layer, X)
  /\ UNCHANGED <<undone, odd>>

(* The undone edits are emptied here and not in the room.                  *)
Create(X) ==
  /\ nodes' = X
  /\ selection' = Restrict(layer, X)
  /\ undone' = <<>>
  /\ Blame(If("selected", mode = "author" /\ undone # <<>>))

(* Mutant: shapes are selected without the lines on them.                  *)
ErasingNone(X) == {}

(* connected of a shape: the lines of the eraser drawn over it.            *)
Erasing(X) == {e \in On(layer) : layer[e].on \cap X # {}}

----------------------------------------------------------------------------
(* The mouse.                                                              *)

Attending == Cardinality(odd) <= MaxOdd
Acting == Attending /\ Len(current) < MaxEdits /\ Len(room.undone) < MaxEdits
NotPressed == drawing = None \/ drawing \notin On(layer)

Mentioned(edits) == UNION {On(e.from) \cup On(e.to) : e \in Range(edits)}
Fresh == Shape \ (On(layer) \cup {drawing} \cup loading \cup On(selection) \cup Mentioned(current) \cup Mentioned(undone)
                  \cup Mentioned(room.current) \cup Mentioned(room.undone))

(* Mutant: the room is not told.                                           *)
MouseDownSilent(s) ==
  /\ Acting /\ s \in Fresh
  /\ undone' = <<>>
  /\ Destroy
  /\ layer' = Put(layer, Nothing, [x \in {s} |-> [at |-> 1, on |-> {}]])
  /\ drawing' = s
  /\ Blame(If("abandoned", ~NotPressed))
  /\ UNCHANGED <<mode, current, loading, jobs, room>>

(* The pen, the eraser and the other tools that draw.  A second touch      *)
(* leaves the shape that is being drawn where it is.                       *)
MouseDown(s) ==
  /\ Acting /\ s \in Fresh
  /\ undone' = <<>>
  /\ IF undone = <<>> THEN UNCHANGED room ELSE Send(EmptyUndone(room))
  /\ Destroy
  /\ layer' = Put(layer, Nothing, [x \in {s} |-> [at |-> 1, on |-> {}]])
  /\ drawing' = s
  /\ Blame(If("abandoned", ~NotPressed))
  /\ UNCHANGED <<mode, current, loading, jobs>>

(* The eraser passes over a shape.                                         *)
MouseMove(t) ==
  /\ Attending
  /\ drawing \in Eraser \cap Found
  /\ t \in On(layer) \ Eraser
  /\ layer' = [layer EXCEPT ![drawing].on = @ \cup {t}]
  /\ Blame(If("clipboard", t \in Grouped))
  /\ UNCHANGED <<mode, history, nodes, selection, drawing, loading, jobs, room>>

(* The button is released, or the mouse leaves the stage: with the right   *)
(* button or while the stage is dragged the shape is left without an edit. *)
MouseUpLeave ==
  /\ \/ /\ drawing \in Found
        /\ LET e == NewEdit(Nothing, Restrict(layer, {drawing}))
           IN current' = Append(current, e) /\ Send(Push(room, e))
        /\ UNCHANGED odd
     \/ /\ Attending /\ drawing # None
        /\ Blame(If("abandoned", ~NotPressed))
        /\ UNCHANGED <<current, room>>
  /\ drawing' = None
  /\ UNCHANGED <<mode, layer, undone, nodes, selection, loading, jobs>>

(* With the tool "select": a click on a shape selects it and the lines of  *)
(* the eraser on it.  A group among the children makes this throw, after   *)
(* the old selection is gone.                                              *)
SelectShape(s) ==
  /\ Attending
  /\ NotPressed
  /\ s \in On(layer) \ (Eraser \cup nodes)
  /\ IF InFlight THEN Destroy /\ UNCHANGED <<undone, odd>> ELSE Create({s} \cup Erasing({s}))
  /\ UNCHANGED <<mode, layer, current, drawing, loading, jobs, room>>

(* A rectangle is drawn around some shapes, lines of the eraser among them.*)
SelectBox(X) ==
  /\ Attending
  /\ NotPressed
  /\ IF InFlight \/ X = {} THEN Destroy /\ UNCHANGED <<undone, odd>> ELSE Create(X \cup Erasing(X))
  /\ UNCHANGED <<mode, layer, current, drawing, loading, jobs, room>>

(* A shape goes from one place to the other.                               *)
Moved(l) == [s \in On(l) |-> [l[s] EXCEPT !.at = 3 - @]]

(* Mutant: select.selection keeps the old attributes.                      *)
DragStale ==
  /\ Acting /\ NotPressed /\ nodes # {}
  /\ LET from == Restrict(layer, nodes)
         e == NewEdit(from, Moved(from))
     IN /\ layer' = Put(layer, e.from, e.to)
        /\ current' = Append(current, e)
        /\ Send(Push(EmptyUndone(room), e))
  /\ UNCHANGED <<mode, undone, nodes, selection, drawing, loading, jobs, odd>>

(* changeHandler: the selected shapes are dragged or transformed.          *)
Drag ==
  /\ Acting /\ NotPressed /\ nodes # {}
  /\ LET from == Restrict(layer, nodes)
         e == NewEdit(from, Moved(from))
     IN /\ layer' = Put(layer, e.from, e.to)
        /\ selection' = e.to
        /\ current' = Append(current, e)
        /\ Send(Push(EmptyUndone(room), e))
  /\ UNCHANGED <<mode, undone, nodes, drawing, loading, jobs, odd>>

----------------------------------------------------------------------------
(* runCommand.                                                             *)

Undo ==
  /\ Attending
  /\ Destroy
  /\ Blame(Early)
  /\ current # <<>>
  /\ LET e == current[Len(current)]
     IN /\ Change(e.to, e.from)
        /\ IF Throws(e.to) THEN UNCHANGED <<history, room>>
           ELSE /\ current' = Front(current)
                /\ undone' = Append(undone, e)
                /\ Send(UndoIn(room, e))
  /\ UNCHANGED <<mode, drawing, loading, jobs>>

(* Mutant: the oldest undone edit is drawn.                                *)
RedoOldest ==
  /\ Attending
  /\ Destroy
  /\ Blame(Early)
  /\ undone # <<>>
  /\ LET e == undone[Len(undone)]
     IN /\ Change(undone[1].from, undone[1].to)
        /\ IF Throws(undone[1].from) THEN UNCHANGED <<history, room>>
           ELSE /\ undone' = Front(undone)
                /\ current' = Append(current, e)
                /\ Send(RedoIn(room, e))
  /\ UNCHANGED <<mode, drawing, loading, jobs>>

Redo ==
  /\ Attending
  /\ Destroy
  /\ Blame(Early)
  /\ undone # <<>>
  /\ LET e == undone[Len(undone)]
     IN /\ Change(e.from, e.to)
        /\ IF Throws(e.from) THEN UNCHANGED <<history, room>>
           ELSE /\ undone' = Front(undone)
                /\ current' = Append(current, e)
                /\ Send(RedoIn(room, e))
  /\ UNCHANGED <<mode, drawing, loading, jobs>>

(* del, of what the store holds as selected.                               *)
Delete ==
  /\ Acting
  /\ On(selection) # {}
  /\ Blame(Early)
  /\ LET e == NewEdit(selection, Nothing)
     IN /\ Change(e.from, e.to)
        /\ IF Throws(e.from) THEN UNCHANGED <<history, nodes, selection, room>>
           ELSE /\ current' = Append(current, e)
                /\ nodes' = {} /\ selection' = Nothing
                /\ Send(Push(room, e))
                /\ UNCHANGED undone
  /\ UNCHANGED <<mode, drawing, loading, jobs>>

(* copy and cut: the nodes move into a new group, out of an older one.     *)
Copy(cut) ==
  /\ Attending
  /\ nodes # {} /\ Len(jobs) < MaxJobs
  /\ LET rest == [i \in DOMAIN jobs |-> [jobs[i] EXCEPT !.shapes = @ \ nodes]]
     IN jobs' = Append(rest, [cut |-> cut, group |-> TRUE, shapes |-> nodes])
  /\ Blame(Early)
  /\ UNCHANGED <<mode, layer, history, nodes, selection, drawing, loading, room>>

(* The image of a group is there.  A cut is not sent to the room.  When    *)
(* the group is gone, so is its Transformer: the nodes are another's.      *)
Copied(i) ==
  /\ i \in DOMAIN jobs
  /\ LET job == jobs[i]
         e == NewEdit(Restrict(layer, job.shapes), Nothing)
     IN IF job.cut
        THEN /\ layer' = Put(layer, e.from, e.to)
             /\ current' = Append(current, e)
         ELSE UNCHANGED <<layer, current>>
  /\ jobs' = RemoveAt(jobs, i)
  /\ nodes' = IF jobs[i].group THEN {} ELSE nodes
  /\ selection' = Nothing
  /\ Blame(If("cut", jobs[i].cut /\ mode = "author") \cup If("late", nodes' # {}))
  /\ UNCHANGED <<mode, undone, drawing, loading, room>>

(* paste, and the pages of a file: insertImage waits for the image.        *)
Paste(s) ==
  /\ Acting /\ s \in Fresh
  /\ loading' = loading \cup {s}
  /\ UNCHANGED <<mode, layer, history, nodes, selection, drawing, jobs, room, odd>>

InsertImage(s) ==
  /\ s \in loading
  /\ loading' = loading \ {s}
  /\ LET e == NewEdit(Nothing, [x \in {s} |-> [at |-> 1, on |-> {}]])
     IN /\ layer' = Put(layer, e.from, e.to)
        /\ current' = Append(current, e)
        /\ Send(Push(room, e))
  /\ UNCHANGED <<mode, undone, nodes, selection, drawing, jobs, odd>>

(* clearCanvas: the children are destroyed, the Transformer and the groups *)
(* among them; the selection is not touched.                               *)
Cleared ==
  /\ nodes' = {} /\ UNCHANGED selection
  /\ jobs' = [i \in DOMAIN jobs |-> [jobs[i] EXCEPT !.group = FALSE, !.shapes = {}]]

(* A room is not told of it.                                               *)
NewFile ==
  /\ Attending
  /\ current' = <<>> /\ undone' = <<>> /\ layer' = Nothing
  /\ Cleared
  /\ Blame(If("cleared", On(selection) # {}) \cup If("emptied", mode = "author" /\ history # <<<<>>, <<>>>>))
  /\ UNCHANGED <<mode, drawing, loading, room>>

(* The board is left and opened again: cleanUp, then join and pull.        *)
Reopen ==
  /\ Attending
  /\ mode = "author" /\ NotPressed
  /\ current' = room.current /\ undone' = room.undone
  /\ layer' = Replay(room.current)
  /\ Cleared
  /\ odd' = (odd \ {"cut", "selected", "emptied"}) \cup If("cleared", On(selection) # {})
            \cup If("revived", room.undone # undone \/ "emptied" \in odd)
            \cup If("uncut", room.current # current)
  /\ UNCHANGED <<mode, drawing, loading, room>>

----------------------------------------------------------------------------
Next ==
  \/ \E s \in Shape : MouseDown(s)
  \/ \E s \in Shape : MouseMove(s)
  \/ MouseUpLeave
  \/ \E s \in Shape : SelectShape(s)
  \/ \E X \in SUBSET On(layer) : SelectBox(X)
  \/ Drag \/ Undo \/ Redo \/ Delete
  \/ \E cut \in BOOLEAN : Copy(cut)
  \/ \E i \in DOMAIN jobs : Copied(i)
  \/ \E s \in Shape \ Eraser : Paste(s)
  \/ \E s \in loading : InsertImage(s)
  \/ NewFile \/ Reopen

Spec == Init /\ [][Next]_vars

----------------------------------------------------------------------------
Drawn == Restrict(layer, On(layer) \ {drawing})

(* Undo and redo can rely on it: the canvas shows what the current edits   *)
(* draw, in their places.                                                  *)
CanvasShowsHistory ==
  Drawn = Replay(current) \/ odd \cap {"clipboard", "cleared", "revived", "abandoned"} # {}

(* Every undone edit can be redone, one after the other, without naming a  *)
(* shape that is not there.                                                *)
RedoApplies ==
  \A n \in 1..Len(undone) :
    LET before == current \o Reverse(SubSeq(undone, n + 1, Len(undone)))
    IN On(undone[n].from) \subseteq On(Replay(before))
       \/ odd \cap {"clipboard", "cleared", "revived", "abandoned"} # {}

(* What the store holds as selected, which is what Delete removes and an   *)
(* undo of it restores, is what the Transformer shows.                     *)
SelectionShown == selection = Restrict(layer, nodes) \/ odd \cap {"cleared", "late"} # {}

(* A line of the eraser is there with all shapes it was drawn over: they   *)
(* are selected, so deleted, together.  A line that was cut comes back     *)
(* from the room, where what was deleted after it is not on the board.     *)
NoStrayEraser ==
  \A e \in On(layer) :
    layer[e].on \subseteq On(layer) \/ odd \cap {"clipboard", "keys", "cleared", "revived", "uncut", "abandoned"} # {}

(* The room of a single author holds what the author's page holds.         *)
RoomFollows ==
  mode = "author" =>
    /\ room.current = current \/ odd \cap {"cut", "emptied"} # {}
    /\ room.undone = undone \/ odd \cap {"selected", "cut", "emptied"} # {}
=============================================================================
