------------------------------- MODULE Collab -------------------------------
(***************************************************************************)
(* The browsers of one board and the room they share.                      *)
(*                                                                         *)
(* A browser keeps a history (two lists of edits, features/history.ts) and *)
(* a canvas, and applies its user's edits at once: the room tells it about *)
(* the edits of others only.  Messages travel in order, both ways, and the *)
(* room handles one at a time.  A browser that opens a board pulls what it *)
(* lacks.  The room is what its pulls show: its queue, its cache and its   *)
(* database are the subject of Board.                                      *)
(***************************************************************************)
EXTENDS EditLog, Integers

CONSTANTS
  Adds, Removes,    \* edits that draw a shape, and edits that erase one
  Target,         \* the shape a Remove erases; an Add's shape is named after it
  Client,
  Editor,         \* the clients in mode author or coop
  Lossy,          \* those whose connection may be lost
  MaxInFlight,    \* bound: a user acts while no channel holds more messages
  MaxCommands,    \* bound: undos and redos of all users
  None

ASSUME CollabAssumption ==
  /\ Edit = Adds \cup Removes /\ Adds \cap Removes = {}
  /\ Target \in [Removes -> Adds]
  /\ Editor \subseteq Client
  /\ Lossy \subseteq Client
  /\ MaxInFlight \in Nat /\ MaxCommands \in Nat
  /\ None \notin Edit

VARIABLES
  room,       \* the board, as a pull shows it
  users,      \* Room.users
  authed,     \* is_authed of a client's connection
  history,    \* the store's history, of each client
  layer,      \* how often a shape is on a client's canvas
  drawing,    \* the shape being drawn
  chosen,     \* the shape in select.selection
  loading,    \* clients whose page is covered by the dialog "board is loading"
  link,       \* a client's websocket
  outbox,     \* messages on their way to the room, or buffered
  inbox,      \* messages on their way to a client
  commands,   \* number of undos and redos so far
  used,       \* edits made so far: ids are fresh uuids
  stale,      \* history: clients whose page has survived a lost connection
  raced,      \* history: clients that got news between their Join and their pull
  selected,   \* history: clients that gave up undone edits without telling the room
  orphans,    \* history: shapes a canvas shows without an edit
  odd         \* history: what was done to shapes behind the room's back

server == <<room, users, authed>>
ghosts == <<stale, raced, selected, orphans, odd>>
bounds == <<used, commands>>
browser == <<history, layer, drawing, chosen>>
vars == <<server, browser, loading, link, outbox, inbox, bounds, ghosts>>

Message == [kind : {"join", "auth", "empty", "quit"}]
           \cup [kind : {"push", "undo", "redo"}, id : Edit]
           \cup [kind : {"pull"}, view : View]
           \cup [kind : {"pulled"}, data : Answer]

TypeOK ==
  /\ room \in EditState
  /\ users \subseteq Client /\ authed \subseteq users
  /\ {loading, stale, raced, selected} \subseteq SUBSET Client
  /\ history \in [Client -> EditState]
  /\ layer \in [Client -> [Adds -> Nat]]
  /\ drawing \in [Client -> Adds \cup {None}] /\ chosen \in [Client -> Adds \cup {None}]
  /\ link \in [Client -> {"closed", "opening", "open", "lost"}]
  /\ outbox \in [Client -> Seq(Message)]
  /\ inbox \in [Client -> Seq(Message)]
  /\ used \subseteq Edit /\ commands \in 0..MaxCommands
  /\ orphans \in [Client -> SUBSET Adds] /\ odd \subseteq {"cut", "orphan"}

Blank == [a \in Adds |-> 0]

Init ==
  /\ room = NoEdits
  /\ users = {} /\ authed = {} /\ loading = {} /\ stale = {} /\ raced = {}
  /\ selected = {} /\ orphans = [c \in Client |-> {}] /\ odd = {}
  /\ history = [c \in Client |-> NoEdits]
  /\ layer = [c \in Client |-> Blank]
  /\ drawing = [c \in Client |-> None] /\ chosen = [c \in Client |-> None]
  /\ link = [c \in Client |-> "closed"]
  /\ outbox = [c \in Client |-> <<>>]
  /\ inbox = [c \in Client |-> <<>>]
  /\ used = {} /\ commands = 0

----------------------------------------------------------------------------
(* features/history.ts.                                                    *)

(* findLastIndex, counted from one: zero when there is none.               *)
FindLast(s, id) == SelectLastInSeq(s, LAMBDA e : e = id)

(* splice(index, 1): the index -1 is the last element.                     *)
Splice(s, i) == IF i > Len(s) \/ s = <<>> THEN s ELSE RemoveAt(s, IF i = 0 THEN Len(s) ELSE i)

addCurrent(h, id) == [h EXCEPT !.current = Append(@, id)]
addUndone(h, id) == [h EXCEPT !.undone = Append(@, id)]
emptyUndone(h) == [h EXCEPT !.undone = <<>>]

(* "if (!editIndex) return" stops at the first element, not at none.       *)
removeCurrent(h, id) ==
  LET i == FindLast(h.current, id)
  IN  IF i = 1 THEN h ELSE [h EXCEPT !.current = Splice(@, i)]

(* The index is looked up in current.                                      *)
removeUndone(h, id) ==
  LET i == FindLast(h.current, id)
  IN  IF i = 1 THEN h ELSE [h EXCEPT !.undone = Splice(@, i)]

undo(h, id) ==
  LET i == FindLast(h.current, id)
  IN  IF i = 0 THEN h ELSE [current |-> RemoveAt(h.current, i), undone |-> Append(h.undone, id)]

(* redo without an id, the only form EditManager dispatches.               *)
redo(h) ==
  IF h.undone = <<>> THEN h
  ELSE [current |-> Append(h.current, Last(h.undone)), undone |-> Front(h.undone)]

----------------------------------------------------------------------------
(* EditManager: the canvas.  Looking for a shape that is not there throws. *)

CanApply(l, id) == id \in Removes => l[Target[id]] > 0
applyEdit(l, id) == IF id \in Adds THEN [l EXCEPT ![id] = @ + 1]
                                  ELSE [l EXCEPT ![Target[id]] = @ - 1]

CanCancel(l, id) == id \in Adds => l[id] > 0
cancelEdit(l, id) == IF id \in Adds THEN [l EXCEPT ![id] = @ - 1]
                                   ELSE [l EXCEPT ![Target[id]] = @ + 1]

(* A browser while it handles a message; ok is FALSE after an exception.   *)
Page(h, l, ok) == [history |-> h, layer |-> l, ok |-> ok]

(* Undo and redo of EditManager find the edit, draw, then dispatch.        *)
UndoOn(p, id) ==
  IF FindLast(p.history.current, id) = 0 \/ ~CanCancel(p.layer, id) THEN p
  ELSE Page(undo(p.history, id), cancelEdit(p.layer, id), TRUE)

(* Mutant: the canvas is left as it was.                                   *)
RedoOnUndrawn(p, id) ==
  IF FindLast(p.history.undone, id) = 0 \/ ~CanApply(p.layer, id) THEN p
  ELSE Page(redo(p.history), p.layer, TRUE)

RedoOn(p, id) ==
  IF FindLast(p.history.undone, id) = 0 \/ ~CanApply(p.layer, id) THEN p
  ELSE Page(redo(p.history), applyEdit(p.layer, id), TRUE)

(* Mutant: a shape that is not there is erased all the same.               *)
PushOnAnyway(p, id) ==
  IF ~p.ok THEN p ELSE Page(addCurrent(p.history, id), applyEdit(p.layer, id), TRUE)

(* One edit of handlePush, and of the first loop of handlePull.            *)
PushOn(p, id) ==
  IF ~p.ok THEN p
  ELSE Page(addCurrent(p.history, id),
            IF CanApply(p.layer, id) THEN applyEdit(p.layer, id) ELSE p.layer,
            CanApply(p.layer, id))

AddUndoneOn(p, id) == IF p.ok THEN [p EXCEPT !.history = addUndone(@, id)] ELSE p
RemoveUndoneOn(p, id) == IF p.ok THEN [p EXCEPT !.history = removeUndone(@, id)] ELSE p

(* cancelEdit throws on the shape, and on an edit that was not found.      *)
RemoveCurrentOn(p, id) ==
  LET ok == FindLast(p.history.current, id) # 0 /\ CanCancel(p.layer, id)
  IN  IF ~p.ok THEN p
      ELSE Page(removeCurrent(p.history, id),
                IF ok THEN cancelEdit(p.layer, id) ELSE p.layer, ok)

(* A loop over a list of ids.                                              *)
ForEach(step(_, _), p, ids) ==
  LET f[i \in 0..Len(ids)] == IF i = 0 THEN p ELSE step(f[i - 1], ids[i])
  IN  f[Len(ids)]

(* Mutant: the loop over the undone edits is forgotten.                    *)
PullOnCurrent(p, data, cd, ud) ==
  ForEach(RemoveUndoneOn,
    ForEach(RemoveCurrentOn, ForEach(PushOn, p, data.create_current), cd), ud)

(* handlePull; cd and ud are the ids to delete, in the answer's order.     *)
PullOn(p, data, cd, ud) ==
  ForEach(RemoveUndoneOn,
    ForEach(RemoveCurrentOn,
      ForEach(AddUndoneOn,
        ForEach(PushOn, p, data.create_current), data.create_undone), cd), ud)

PageOf(c) == Page(history[c], layer[c], TRUE)
Become(c, p) == /\ history' = [history EXCEPT ![c] = p.history]
                /\ layer' = [layer EXCEPT ![c] = p.layer]

----------------------------------------------------------------------------
(* BoardManager and joinRoom.                                              *)

Open(c) == link[c] = "open"
PullMsg(c) == [kind |-> "pull", view |-> [current |-> ToSet(history[c].current),
                                          undone |-> ToSet(history[c].undone)]]
AuthMsg(c) == IF c \in Editor THEN <<[kind |-> "auth"]>> ELSE <<>>
Join == <<[kind |-> "join"]>>

(* bootstrap, with an empty history; the former connection has ended.      *)
Connect(c) ==
  /\ link[c] = "closed"
  /\ outbox[c] = <<>> /\ c \notin users
  /\ link' = [link EXCEPT ![c] = "opening"]
  /\ loading' = loading \cup {c}
  /\ UNCHANGED <<server, browser, outbox, inbox, bounds, ghosts>>

(* The connection opens: handle_client joins, what was buffered is sent,   *)
(* then joinRoom pulls and authenticates.                                  *)
Opened(c) ==
  /\ link[c] = "opening"
  /\ link' = [link EXCEPT ![c] = "open"]
  /\ outbox' = [outbox EXCEPT ![c] = Join \o @ \o <<PullMsg(c)>> \o AuthMsg(c)]
  /\ UNCHANGED <<server, browser, inbox, bounds, ghosts, loading>>

(* The page is left: bootstrap's clean-up, then the connection is closed.  *)
Disconnect(c) ==
  /\ link[c] # "closed"
  /\ link' = [link EXCEPT ![c] = "closed"]
  /\ history' = [history EXCEPT ![c] = NoEdits]
  /\ layer' = [layer EXCEPT ![c] = Blank]
  /\ drawing' = [drawing EXCEPT ![c] = None] /\ chosen' = [chosen EXCEPT ![c] = None]
  /\ outbox' = [outbox EXCEPT ![c] = IF Open(c) THEN Append(@, [kind |-> "quit"]) ELSE <<>>]
  /\ inbox' = [inbox EXCEPT ![c] = <<>>]
  /\ loading' = loading \ {c} /\ stale' = stale \ {c} /\ raced' = raced \ {c}
  /\ selected' = selected \ {c} /\ orphans' = [orphans EXCEPT ![c] = {}]
  /\ UNCHANGED <<server, bounds, odd>>

(* The connection breaks: what is on its way is lost, the user quits.      *)
Lose(c) ==
  /\ c \in Lossy
  /\ Open(c)
  /\ link' = [link EXCEPT ![c] = "lost"]
  /\ outbox' = [outbox EXCEPT ![c] = <<>>]
  /\ inbox' = [inbox EXCEPT ![c] = <<>>]
  /\ users' = users \ {c} /\ authed' = authed \ {c}
  /\ loading' = loading \cup {c} /\ stale' = stale \cup {c}
  /\ UNCHANGED <<room, browser, bounds, raced, selected, orphans, odd>>

(* The websocket reconnects and sends what it has buffered.                *)
Reconnect(c) ==
  /\ link[c] = "lost"
  /\ link' = [link EXCEPT ![c] = "open"]
  /\ outbox' = [outbox EXCEPT ![c] = Join \o @]
  /\ loading' = loading \ {c}
  /\ UNCHANGED <<server, browser, inbox, bounds, ghosts>>

----------------------------------------------------------------------------
(* The user, in a mode that may draw.                                      *)

(* The dialog stops the mouse, not the keys.                               *)
MayAct(c) ==
  /\ c \in Editor /\ link[c] # "closed"
  /\ \A d \in Client : Len(outbox[d]) < MaxInFlight /\ Len(inbox[d]) < MaxInFlight

Send(c, msgs) == outbox' = [outbox EXCEPT ![c] = @ \o msgs]

PushEdit(c, id) == Send(c, <<[kind |-> "push", id |-> id]>>)

(* #share: an undo or redo is sent only while connected.                   *)
Share(c, kind, id) == IF Open(c) THEN Send(c, <<[kind |-> kind, id |-> id]>>)
                                 ELSE UNCHANGED outbox

(* Mutant: the undone list is emptied here only.                           *)
MouseDownSilent(c, a) ==
  /\ MayAct(c) /\ c \notin loading
  /\ a \in Adds \ used
  /\ UNCHANGED <<outbox, selected>>
  /\ history' = [history EXCEPT ![c] = emptyUndone(@)]
  /\ layer' = [layer EXCEPT ![c][a] = @ + 1]
  /\ drawing' = [drawing EXCEPT ![c] = a] /\ chosen' = [chosen EXCEPT ![c] = None]
  /\ orphans' = [orphans EXCEPT ![c] = @ \cup ({drawing[c]} \ {None})]
  /\ used' = used \cup {a}
  /\ UNCHANGED <<server, link, inbox, stale, raced, odd, loading, commands>>

(* mouseDown: a non-empty undone list is emptied, here and in the room.  A *)
(* second touch leaves the shape that is being drawn on the canvas.        *)
MouseDown(c, a) ==
  /\ MayAct(c) /\ c \notin loading
  /\ a \in Adds \ used
  /\ \/ /\ history[c].undone # <<>> /\ Send(c, <<[kind |-> "empty"]>>)
        /\ selected' = selected \ {c}
     \/ history[c].undone = <<>> /\ UNCHANGED <<outbox, selected>>
  /\ history' = [history EXCEPT ![c] = emptyUndone(@)]
  /\ layer' = [layer EXCEPT ![c][a] = @ + 1]
  /\ drawing' = [drawing EXCEPT ![c] = a] /\ chosen' = [chosen EXCEPT ![c] = None]
  /\ orphans' = [orphans EXCEPT ![c] = @ \cup ({drawing[c]} \ {None})]
  /\ used' = used \cup {a}
  /\ UNCHANGED <<server, link, inbox, stale, raced, odd, loading, commands>>

(* Or mouse leave, when the dialog appears.                                *)
MouseUp(c) ==
  /\ MayAct(c)
  /\ drawing[c] # None
  /\ history' = [history EXCEPT ![c] = addCurrent(@, drawing[c])]
  /\ PushEdit(c, drawing[c])
  /\ drawing' = [drawing EXCEPT ![c] = None]
  /\ UNCHANGED <<server, layer, chosen, link, inbox, bounds, ghosts, loading>>

(* The same with the right button, or while the stage is dragged: the      *)
(* shape is left where it is, without an edit.                             *)
Abandon(c) ==
  /\ MayAct(c)
  /\ drawing[c] # None
  /\ orphans' = [orphans EXCEPT ![c] = @ \cup {drawing[c]}]
  /\ drawing' = [drawing EXCEPT ![c] = None]
  /\ UNCHANGED <<server, history, layer, chosen, link, outbox, inbox, bounds, stale, raced, selected, odd, loading>>

(* Selection.create, of one shape: the undone list is emptied here only.   *)
Select(c, a) ==
  /\ MayAct(c) /\ c \notin loading
  /\ a # drawing[c] /\ layer[c][a] > 0
  /\ chosen' = [chosen EXCEPT ![c] = a]
  /\ history' = [history EXCEPT ![c] = emptyUndone(@)]
  /\ selected' = IF history[c].undone = <<>> THEN selected ELSE selected \cup {c}
  /\ UNCHANGED <<server, layer, drawing, link, outbox, inbox, bounds, stale, raced, orphans, odd, loading>>

(* The selected shape is erased here.                                      *)
Erase(c, r) ==
  /\ MayAct(c)
  /\ r \in Removes \ used
  /\ Target[r] = chosen[c] /\ CanApply(layer[c], r)
  /\ layer' = [layer EXCEPT ![c] = applyEdit(@, r)]
  /\ history' = [history EXCEPT ![c] = addCurrent(@, r)]
  /\ chosen' = [chosen EXCEPT ![c] = None]
  /\ used' = used \cup {r}
  /\ UNCHANGED <<server, drawing, link, inbox, stale, raced, selected, orphans, loading, commands>>

(* runCommand "del"; the edit may be of a shape that nobody else has.      *)
DeleteSelection(c, r) ==
  /\ Erase(c, r)
  /\ PushEdit(c, r)
  /\ odd' = IF Target[r] \in orphans[c] THEN odd \cup {"orphan"} ELSE odd

(* writeToClipboard: a cut is not sent.                                    *)
Cut(c, r) ==
  /\ Erase(c, r)
  /\ odd' = odd \cup {"cut"}
  /\ UNCHANGED outbox

(* EditManager.undo and redo, of the last edit.                            *)
Undo(c) ==
  /\ MayAct(c)
  /\ commands < MaxCommands /\ commands' = commands + 1
  /\ history[c].current # <<>>
  /\ LET id == Last(history[c].current)
     IN  CanCancel(layer[c], id) /\ Become(c, UndoOn(PageOf(c), id)) /\ Share(c, "undo", id)
  /\ chosen' = [chosen EXCEPT ![c] = None]
  /\ UNCHANGED <<server, drawing, link, inbox, used, ghosts, loading>>

Redo(c) ==
  /\ MayAct(c)
  /\ commands < MaxCommands /\ commands' = commands + 1
  /\ history[c].undone # <<>>
  /\ LET id == Last(history[c].undone)
     IN  CanApply(layer[c], id) /\ Become(c, RedoOn(PageOf(c), id)) /\ Share(c, "redo", id)
  /\ chosen' = [chosen EXCEPT ![c] = None]
  /\ UNCHANGED <<server, drawing, link, inbox, used, ghosts, loading>>

----------------------------------------------------------------------------
(* The room handles a message; only an authed connection's edits reach it. *)

Received(c) == Head(outbox[c])
Receive(c, kinds) ==
  /\ outbox[c] # <<>> /\ link[c] \notin {"opening", "lost"}
  /\ Received(c).kind \in kinds
  /\ outbox' = [outbox EXCEPT ![c] = Tail(@)]

Listening(c) == c \in users /\ Open(c)

RoomJoin(c) ==
  /\ Receive(c, {"join"})
  /\ users' = users \cup {c}
  /\ UNCHANGED <<room, authed, browser, link, inbox, bounds, ghosts, loading>>

RoomQuit(c) ==
  /\ Receive(c, {"quit"})
  /\ users' = users \ {c} /\ authed' = authed \ {c}
  /\ UNCHANGED <<room, browser, link, inbox, bounds, ghosts, loading>>

RoomAuth(c) ==
  /\ Receive(c, {"auth"})
  /\ authed' = authed \cup {c}
  /\ UNCHANGED <<room, users, browser, link, inbox, bounds, ghosts, loading>>

(* send_to_everyone, except the sender.                                    *)
Broadcast(c, m) ==
  /\ inbox' = [d \in Client |-> IF d # c /\ Listening(d) THEN Append(inbox[d], m) ELSE inbox[d]]
  /\ raced' = raced \cup {d \in users \ {c} : \E i \in DOMAIN outbox[d] : outbox[d][i].kind = "pull"}

RoomEdit(c) ==
  /\ Receive(c, {"push", "undo", "redo", "empty"})
  /\ LET m == Received(c)
     IN  \/ /\ c \in authed
            /\ room' = IF m.kind = "empty" THEN [room EXCEPT !.undone = <<>>]
                                           ELSE ReplayStep(room, m)
            /\ Broadcast(c, m)
         \/ c \notin authed /\ UNCHANGED <<room, inbox, raced>>
  /\ UNCHANGED <<users, authed, browser, link, bounds, stale, selected, orphans, odd, loading>>

RoomPull(c) ==
  /\ Receive(c, {"pull"})
  /\ inbox' = [inbox EXCEPT ![c] =
       IF Listening(c)
       THEN Append(@, [kind |-> "pulled", data |-> PullData(room, Received(c).view)]) ELSE @]
  /\ UNCHANGED <<server, browser, link, bounds, ghosts, loading>>

----------------------------------------------------------------------------
(* handleMessage.                                                          *)
HandleMessage(c) ==
  /\ inbox[c] # <<>>
  /\ inbox' = [inbox EXCEPT ![c] = Tail(@)]
  /\ LET m == Head(inbox[c])
         p == PageOf(c)
     IN  \/ m.kind = "push" /\ Become(c, PushOn(p, m.id)) /\ UNCHANGED loading
         \/ m.kind = "undo" /\ Become(c, UndoOn(p, m.id)) /\ UNCHANGED loading
         \/ m.kind = "redo" /\ Become(c, RedoOn(p, m.id)) /\ UNCHANGED loading
         \/ /\ m.kind = "empty"
            /\ Become(c, [p EXCEPT !.history = emptyUndone(@)]) /\ UNCHANGED loading
         \/ /\ m.kind = "pulled"
            /\ \E cd \in SetToSeqs(m.data.delete_current),
                  ud \in SetToSeqs(m.data.delete_undone) :
                 LET q == PullOn(p, m.data, cd, ud)
                 IN  Become(c, q) /\ loading' = IF q.ok THEN loading \ {c} ELSE loading
  /\ UNCHANGED <<server, drawing, chosen, link, outbox, bounds, ghosts>>

ClientStep(c) ==
  \/ Connect(c) \/ Opened(c) \/ Disconnect(c) \/ Lose(c) \/ Reconnect(c)
  \/ \E a \in Adds : MouseDown(c, a) \/ Select(c, a)
  \/ \E r \in Removes : DeleteSelection(c, r) \/ Cut(c, r)
  \/ MouseUp(c) \/ Abandon(c) \/ Undo(c) \/ Redo(c) \/ HandleMessage(c)

RoomStep(c) == RoomJoin(c) \/ RoomQuit(c) \/ RoomAuth(c) \/ RoomEdit(c) \/ RoomPull(c)

Next == \E c \in Client : ClientStep(c) \/ RoomStep(c)

Spec == Init /\ [][Next]_vars

----------------------------------------------------------------------------
(* Properties.                                                             *)

Quiet == \A c \in Client : outbox[c] = <<>> /\ inbox[c] = <<>>

(* Nothing is on its way between a client and the room.                    *)
Settled(c) == Open(c) /\ c \in users /\ outbox[c] = <<>> /\ inbox[c] = <<>>

EndsWith(s, t) == \E n \in 0 .. Len(s) : SubSeq(s, n + 1, Len(s)) = t

(* With one editor, whoever joins at whatever moment ends up with every    *)
(* edit of the room, in the list the room has it in: the broadcasts and    *)
(* the answer to the pull leave no gap between them.  Not after a cut, nor *)
(* after a shape without an edit was deleted, which no other page can do;  *)
(* and selecting a shape gives up the undone edits of the own page.        *)
NothingMissing ==
  Quiet /\ odd = {} => \A c \in Client : Settled(c) /\ c \notin stale =>
    /\ ToSet(room.current) \subseteq ToSet(history[c].current)
    /\ c \notin selected => ToSet(room.undone) \subseteq ToSet(history[c].undone)

(* ... and, unless the editor's news came between the client's Join and    *)
(* its pull, with exactly the room's lists, in the room's order; what an   *)
(* editor has left of its undone edits is the end of the room's.           *)
Converged ==
  Quiet /\ odd = {} => \A c \in Client : Settled(c) /\ c \notin stale \cup raced =>
    /\ history[c].current = room.current
    /\ \/ history[c].undone = room.undone
       \/ c \in selected /\ EndsWith(room.undone, history[c].undone)

(* What a history draws: its Adds without what its Removes have erased.    *)
Drawn(s, a) ==
  Cardinality({i \in DOMAIN s : s[i] = a})
    - Cardinality({i \in DOMAIN s : s[i] \in Removes /\ Target[s[i]] = a})

(* The canvas and the history of a page, changed by separate calls of      *)
(* EditManager and handlePush, agree, but for the shape being drawn and    *)
(* those whose drawing was abandoned.                                      *)
CanvasShowsHistory ==
  odd = {} => \A c \in Client \ (stale \cup raced) : \A a \in Adds \ ({drawing[c]} \cup orphans[c]) :
    layer[c][a] = Drawn(history[c].current, a)
=============================================================================
