------------------------------ MODULE Session -------------------------------
(***************************************************************************)
(* Who may edit a shared board, as its room and the pages see it: joining  *)
(* by link, by invitation and as the author, the co-editors' token and its *)
(* renewal, the keys a browser keeps, sharing a local board, reloads, lost *)
(* connections, and answers of the HTTP API that come late.                *)
(*                                                                         *)
(* There is one board.  What a page shows of it is the business of Collab; *)
(* here a page knows if strokes of a board not shared yet are on it.       *)
(***************************************************************************)
EXTENDS Naturals, Sequences, FiniteSets

CONSTANTS
  Page,
  MaxToken,   \* bound: co-editors' tokens are 1, 2, .. MaxToken
  MaxAsks,    \* bound: HTTP requests under way, but for new tokens
  MaxOdd,     \* bound: the user acts while odd has no more members
  Tabs        \* if the pages are tabs of one browser: the cases to try

ASSUME SessionAssumption ==
  MaxToken \in Nat \ {0} /\ MaxAsks \in Nat /\ MaxOdd \in Nat /\ Tabs \subseteq BOOLEAN

VARIABLES
  room,      \* the room and its row: state, in the registry, with an owner, co-editors' token
  tabs,      \* the pages are tabs of one browser
  account,   \* pages with the cookie of the user who owns the board
  user,      \* pages whose Header shows that user
  at,        \* the route: the home page, /board, or the board
  invite,    \* inviteId of the route
  mode, tool,   \* board.mode; tool.active, "pen" for all that draw
  keys,      \* rooms[board], the private id this page has for it
  storage,   \* what Persister has left in localStorage
  link,      \* board.shareInfo.inviteId
  drawn,     \* strokes of a board not shared are on the canvas
  loading,   \* "board is loading" covers the page
  exists,    \* unless "no such room" does
  conn,      \* the page's connection
  authed,    \* history: the token that made is_authed true, on the server
  up,        \* Pull and Auth on their way to the room
  down,      \* messages on their way to the page
  asks,      \* HTTP requests of the page
  odd        \* history: what explains a deviation

view == <<at, invite, mode, tool, link, drawn, loading, exists>>
wire == <<conn, authed, up, down>>
who == <<tabs, account, user>>
vars == <<room, who, view, keys, storage, wire, asks, odd>>

None == 0
Owner == MaxToken + 1      \* private_id
Key == 0 .. MaxToken + 1
Token == 1 .. MaxToken

Ask == [do : {"create", "read", "check", "rotate", "ids"}, key : Key,
        invited : BOOLEAN, here : BOOLEAN, answer : {<<>>, <<FALSE>>} \cup {<<TRUE, k>> : k \in Key}]
Reason == {"early", "crossed", "late", "failed", "hidden", "reconnected", "restarted", "elsewhere", "tabs",
           "unheard"}

TypeOK ==
  /\ room \in [state : {"none", "there", "deleted"}, live : BOOLEAN, owned : BOOLEAN, co : Token]
  /\ tabs \in BOOLEAN /\ account \subseteq Page /\ user \subseteq Page
  /\ at \in [Page -> {"home", "new", "board"}] /\ invite \in [Page -> {None} \cup Token]
  /\ mode \in [Page -> {"local", "author", "coop", "viewer"}] /\ tool \in [Page -> {"pen", "move"}]
  /\ keys \in [Page -> Key] /\ storage \in [Page -> Key] /\ link \in [Page -> Key]
  /\ {drawn, loading, exists} \subseteq [Page -> BOOLEAN]
  /\ conn \in [Page -> {"none", "connecting", "open", "lost"}]
  /\ authed \in [Page -> Key]
  /\ up \in [Page -> {<<>>} \cup {<<k>> : k \in Key}]
  /\ down \in [Page -> Seq({"pulled", "bad", "update", "quit"})] /\ asks \in [Page -> SUBSET Ask]
  /\ odd \subseteq Reason

There == room.state = "there"

Request(do, k, i) == [do |-> do, key |-> k, invited |-> i # None, here |-> TRUE, answer |-> <<>>]
Launched(p) == IF p \in account THEN {Request("ids", None, None)} ELSE {}

(* The board is there, known to the browser of its author or not, or is    *)
(* not.  A board without an owner is known to one browser only, and its    *)
(* user is signed in with one at most, where Header asks for the keys of   *)
(* the boards the user owns.                                               *)
Init ==
  /\ tabs \in Tabs /\ account \in IF tabs THEN {{}, Page} ELSE {{}} \cup {{p} : p \in Page}
  /\ user = {}
  /\ \E st \in {"none", "there"}, owned \in BOOLEAN :
       /\ owned => st = "there" /\ account # {}
       /\ room = [state |-> st, live |-> FALSE, owned |-> owned, co |-> 1]
  /\ storage \in [Page -> IF There THEN {None, Owner} ELSE {None}]
  /\ \A p, q \in Page : tabs => storage[p] = storage[q]
  /\ \A p, q \in Page : storage[p] = Owner /\ storage[q] = Owner => p = q \/ tabs \/ room.owned
  /\ keys = storage
  /\ asks = [p \in Page |-> Launched(p)]
  /\ at = [p \in Page |-> "home"] /\ invite = [p \in Page |-> None]
  /\ mode = [p \in Page |-> "local"] /\ tool = [p \in Page |-> "pen"] /\ link = [p \in Page |-> None]
  /\ drawn = [p \in Page |-> FALSE] /\ loading = [p \in Page |-> FALSE] /\ exists = [p \in Page |-> TRUE]
  /\ conn = [p \in Page |-> "none"] /\ authed = [p \in Page |-> None]
  /\ up = [p \in Page |-> <<>>] /\ down = [p \in Page |-> <<>>]
  /\ odd = {}

Set(f, p, v) == [f EXCEPT ![p] = v]
If(reason, cond) == IF cond THEN {reason} ELSE {}
Blame(reasons) == odd' = odd \cup reasons

----------------------------------------------------------------------------
(* Mutant: Persister does not hear of the change.                          *)
SetKeyUnsaved(p, k, reasons) ==
  /\ keys' = Set(keys, p, k)
  /\ UNCHANGED storage
  /\ Blame(reasons \cup If("tabs", Owner \notin {keys[p], k} /\ storage[p] = Owner))

(* Persister writes all keys of the page's store, after any change of it,  *)
(* over what other tabs have written.                                      *)
SetKey(p, k, reasons) ==
  /\ keys' = Set(keys, p, k)
  /\ storage' = [q \in Page |-> IF tabs \/ q = p THEN k ELSE storage[q]]
  /\ Blame(reasons \cup If("tabs", Owner \notin {keys[p], k} /\ storage[p] = Owner))

----------------------------------------------------------------------------
(* bootstrap and joinRoom.                                                 *)

ModeOf(k, i) == IF k = Owner THEN "author" ELSE IF k # None \/ i # None THEN "coop" ELSE "viewer"

Disconnect(p) ==
  /\ authed' = Set(authed, p, None)
  /\ up' = Set(up, p, <<>>)
  /\ down' = Set(down, p, <<>>)

(* Mutant: the mode of the board that was left is kept.                    *)
ArriveKeepMode(p, place, i, k) ==
  /\ at' = Set(at, p, place)
  /\ invite' = Set(invite, p, i)
  /\ exists' = Set(exists, p, TRUE)
  /\ drawn' = Set(drawn, p, FALSE)
  /\ Disconnect(p)
  /\ conn' = Set(conn, p, IF place = "board" THEN "connecting" ELSE "none")
  /\ mode' = Set(mode, p, IF place = "board" THEN ModeOf(k, i) ELSE mode[p])
  /\ loading' = Set(loading, p, CASE place = "board" -> TRUE
                                 [] place = "home" -> FALSE
                                 [] place = "new" -> IF at[p] = "home" THEN mode[p] # "local" ELSE loading[p])

(* The effect of Drawer runs again: it cleans up and sets up the new place.*)
(* Where Editor was not there, nothing is cleaned up; where it stays,      *)
(* isLoading does.                                                         *)
Arrive(p, place, i, k) ==
  /\ at' = Set(at, p, place)
  /\ invite' = Set(invite, p, i)
  /\ exists' = Set(exists, p, TRUE)
  /\ drawn' = Set(drawn, p, FALSE)
  /\ Disconnect(p)
  /\ conn' = Set(conn, p, IF place = "board" THEN "connecting" ELSE "none")
  /\ mode' = Set(mode, p, IF place = "board" THEN ModeOf(k, i) ELSE IF at[p] = "home" THEN mode[p] ELSE "local")
  /\ loading' = Set(loading, p, CASE place = "board" -> TRUE
                                 [] place = "home" -> FALSE
                                 [] place = "new" -> IF at[p] = "home" THEN mode[p] # "local" ELSE loading[p])

Left(as) == {[a EXCEPT !.here = FALSE] : a \in as}

Attending == Cardinality(odd) <= MaxOdd
MaySend == Cardinality(UNION {{p} \X asks[p] : p \in Page}) < MaxAsks
Send(p, a) == asks' = Set(asks, p, asks[p] \cup {a})
Waits(p, do) == \E a \in asks[p] : a.do = do

(* The user follows a link.                                                *)
Go(p, place, i) ==
  /\ Attending
  /\ i # None => place = "board" /\ i <= room.co
  /\ place = "board" => at[p] = "home" /\ room.state # "none"
  /\ Arrive(p, place, i, keys[p])
  /\ asks' = Set(asks, p, Left(asks[p]))
  /\ Blame(If("hidden", place = "new" /\ at[p] # "home" /\ loading[p])
           \cup If("early", place = "board" /\ Waits(p, "ids")))
  /\ UNCHANGED <<room, who, tool, keys, storage, link>>

(* The page is loaded again, or the browser was closed.                    *)
Reload(p) ==
  /\ Attending /\ (p \in account => MaySend)
  /\ at' = Set(at, p, "home") /\ invite' = Set(invite, p, None)
  /\ Disconnect(p) /\ conn' = Set(conn, p, "none")
  /\ keys' = Set(keys, p, storage[p])
  /\ asks' = Set(asks, p, Launched(p))
  /\ mode' = Set(mode, p, "local") /\ tool' = Set(tool, p, "pen") /\ link' = Set(link, p, None)
  /\ drawn' = Set(drawn, p, FALSE) /\ loading' = Set(loading, p, FALSE) /\ exists' = Set(exists, p, TRUE)
  /\ user' = user \ {p}
  /\ UNCHANGED <<room, tabs, account, storage, odd>>

IdToCheck(p) == IF invite[p] # None THEN invite[p] ELSE keys[p]

(* The connection opens, and joinRoom goes on.  Where there is no room the *)
(* server closes the connection at once.                                   *)
Open(p) ==
  /\ conn[p] = "connecting" /\ MaySend
  /\ conn' = Set(conn, p, IF There THEN "open" ELSE "lost")
  /\ room' = [room EXCEPT !.live = There]
  /\ exists' = Set(exists, p, TRUE)
  /\ LET token == CASE mode[p] = "author" -> keys[p] [] mode[p] = "coop" -> IdToCheck(p) [] OTHER -> None
     IN /\ up' = Set(up, p, IF There THEN <<token>> ELSE <<>>)
        /\ IF mode[p] = "viewer"
           THEN /\ link' = Set(link, p, None) /\ tool' = Set(tool, p, "move")
                /\ UNCHANGED asks
           ELSE /\ Send(p, Request(IF mode[p] = "author" THEN "read" ELSE "check", token, invite[p]))
                /\ UNCHANGED <<link, tool>>
  /\ UNCHANGED <<who, at, invite, mode, drawn, loading, keys, storage, authed, down, odd>>

(* The connection breaks; onError is called or not.                        *)
Lost(p) ==
  /\ conn[p] = "open" /\ Attending
  /\ conn' = Set(conn, p, "lost")
  /\ Disconnect(p)
  /\ loading' = Set(loading, p, TRUE)
  /\ \E e \in {exists[p], FALSE} : exists' = Set(exists, p, e)
  /\ UNCHANGED <<room, who, at, invite, mode, tool, link, drawn, keys, storage, asks, odd>>

(* The library connects again; nobody pulls or authenticates.              *)
Reconnected(p) ==
  /\ conn[p] = "lost" /\ There
  /\ conn' = Set(conn, p, "open")
  /\ room' = [room EXCEPT !.live = TRUE]
  /\ loading' = Set(loading, p, FALSE)
  /\ Blame({"reconnected"})
  /\ UNCHANGED <<who, at, invite, mode, tool, link, drawn, exists, keys, storage, authed, up, down, asks>>

----------------------------------------------------------------------------
(* The room, and what its messages do to a page (handleMessage).           *)

Grants(k) == k # None /\ k \in {Owner, room.co}

(* Pull, and Auth with the token if there is one.                          *)
HandleUp(p) ==
  /\ up[p] # <<>>
  /\ LET k == up[p][1] IN
       /\ authed' = Set(authed, p, IF Grants(k) THEN k ELSE None)
       /\ down' = Set(down, p, down[p] \o IF k = None \/ Grants(k) THEN <<"pulled">> ELSE <<"pulled", "bad">>)
  /\ up' = Set(up, p, <<>>)
  /\ UNCHANGED <<room, who, view, keys, storage, conn, asks, odd>>

Tell(msg) == [p \in Page |-> IF conn[p] = "open" THEN Append(down[p], msg) ELSE down[p]]

(* cleanup: a room without users ends, and is loaded with a new token.     *)
Unload ==
  /\ room.live /\ \A p \in Page : conn[p] # "open"
  /\ room.co < MaxToken
  /\ room' = [room EXCEPT !.live = FALSE, !.co = @ + 1]
  /\ Blame({"restarted"})
  /\ UNCHANGED <<who, view, keys, storage, wire, asks>>

Msg(p, msg) == down[p] # <<>> /\ Head(down[p]) = msg /\ down' = Set(down, p, Tail(down[p]))

Pulled(p) ==
  /\ Msg(p, "pulled")
  /\ loading' = Set(loading, p, FALSE)
  /\ UNCHANGED <<room, who, at, invite, mode, tool, link, drawn, exists, keys, storage, conn, authed, up, asks, odd>>

GiveUp(p, reasons) ==
  /\ mode' = Set(mode, p, "viewer")
  /\ SetKey(p, None, reasons)
  /\ tool' = Set(tool, p, "move")

(* Mutant: only the co-editor's mode is changed.                           *)
AuthBadKeepTool(p) ==
  /\ Msg(p, "bad")
  /\ mode' = Set(mode, p, "viewer")
  /\ SetKey(p, None, {})
  /\ UNCHANGED <<room, who, at, invite, tool, link, drawn, loading, exists, conn, authed, up, asks>>

AuthBad(p) ==
  /\ Msg(p, "bad")
  /\ GiveUp(p, {})
  /\ UNCHANGED <<room, who, at, invite, link, drawn, loading, exists, conn, authed, up, asks>>

UpdateCoEditor(p) ==
  /\ Msg(p, "update")
  /\ LET reasons == If("crossed", Waits(p, "check")) IN
       IF mode[p] = "coop" THEN GiveUp(p, reasons) ELSE Blame(reasons) /\ UNCHANGED <<mode, keys, storage, tool>>
  /\ UNCHANGED <<room, who, at, invite, link, drawn, loading, exists, conn, authed, up, asks>>

Quit(p) ==
  /\ Msg(p, "quit")
  /\ exists' = Set(exists, p, FALSE)
  /\ UNCHANGED <<room, who, at, invite, mode, tool, link, drawn, loading, keys, storage, conn, authed, up, asks, odd>>

----------------------------------------------------------------------------
(* The HTTP API: each request is served at once, and answered some time.   *)

Served(p, a, answer) == asks' = Set(asks, p, (asks[p] \ {a}) \cup {[a EXCEPT !.answer = answer]})
Unserved(p, a, do) == a \in asks[p] /\ a.do = do /\ a.answer = <<>>

(* Rooms that are not in the registry are not found.                       *)
ReadCoEditors(p, a) ==
  /\ Unserved(p, a, "read")
  /\ Served(p, a, IF room.live /\ a.key = Owner THEN <<TRUE, room.co>> ELSE <<FALSE>>)
  /\ UNCHANGED <<room, who, view, keys, storage, wire, odd>>

CheckCoEditor(p, a) ==
  /\ Unserved(p, a, "check")
  /\ Served(p, a, IF room.live THEN <<TRUE, IF a.key = room.co THEN a.key ELSE None>> ELSE <<FALSE>>)
  /\ UNCHANGED <<room, who, view, keys, storage, wire, odd>>

(* Mutant: the co-editors are not told.                                    *)
UpdateCoEditorTokenSilent(p, a) ==
  /\ Unserved(p, a, "rotate")
  /\ room.co < MaxToken
  /\ room' = [room EXCEPT !.co = @ + 1]
  /\ Served(p, a, <<TRUE, room.co + 1>>)
  /\ UNCHANGED <<who, view, keys, storage, wire, odd>>

UpdateCoEditorToken(p, a) ==
  /\ Unserved(p, a, "rotate")
  /\ IF room.live /\ Grants(a.key)
     THEN /\ room.co < MaxToken
          /\ room' = [room EXCEPT !.co = @ + 1]
          /\ down' = Tell("update")
          /\ Served(p, a, <<TRUE, room.co + 1>>)
          /\ Blame(If("elsewhere", \E q \in Page \ {p} : mode[q] = "author")
                   \cup If("crossed", \E q \in Page : Waits(q, "read")))
     ELSE Served(p, a, <<FALSE>>) /\ UNCHANGED <<room, down, odd>>
  /\ UNCHANGED <<who, view, keys, storage, conn, authed, up>>

PrivateIds(p, a) ==
  /\ Unserved(p, a, "ids")
  /\ Served(p, a, <<TRUE, IF There /\ room.owned THEN Owner ELSE None>>)
  /\ UNCHANGED <<room, who, view, keys, storage, wire, odd>>

CreateRoom(p, a) ==
  /\ Unserved(p, a, "create") /\ room.state = "none"
  /\ \/ /\ room' = [room EXCEPT !.state = "there", !.live = TRUE, !.owned = p \in account]
        /\ Served(p, a, <<TRUE, Owner>>)
        /\ UNCHANGED odd
     \/ Served(p, a, <<FALSE>>) /\ Blame({"failed"}) /\ UNCHANGED room
  /\ UNCHANGED <<who, view, keys, storage, wire>>

(* The answers, where they find the page.                                  *)

Answered(p, a, do, ok) == a \in asks[p] /\ a.do = do /\ a.answer # <<>> /\ a.answer[1] = ok
Rest(p, a) == asks[p] \ {a}
Late(a) == If("late", ~a.here)
NoSuchRoom(p) == exists' = Set(exists, p, exists[p] /\ at[p] = "home")

(* finally: the invitation is taken out of the route.                      *)
Done(p, a, k) ==
  IF a.invited
  THEN Arrive(p, "board", None, k) /\ asks' = Set(asks, p, Left(Rest(p, a)))
  ELSE asks' = Set(asks, p, Rest(p, a)) /\ UNCHANGED <<at, invite, exists, drawn, wire, mode, loading>>

ReadDone(p, a) ==
  /\ Answered(p, a, "read", TRUE)
  /\ link' = Set(link, p, a.answer[2])
  /\ Done(p, a, keys[p])
  /\ Blame(Late(a))
  /\ UNCHANGED <<room, who, tool, keys, storage>>

CheckValid(p, a) ==
  /\ Answered(p, a, "check", TRUE) /\ a.answer[2] # None
  /\ SetKey(p, a.key, Late(a))
  /\ tool' = Set(tool, p, "pen")
  /\ Done(p, a, a.key)
  /\ UNCHANGED <<room, who, link>>

(* A page that is at /board by now is made a shared one, which cleans it   *)
(* up.                                                                     *)
CheckInvalid(p, a) ==
  /\ Answered(p, a, "check", TRUE) /\ a.answer[2] = None
  /\ SetKey(p, None, Late(a))
  /\ tool' = Set(tool, p, "move")
  /\ IF a.invited THEN Done(p, a, None)
     ELSE /\ asks' = Set(asks, p, Rest(p, a))
          /\ mode' = Set(mode, p, IF at[p] = "new" THEN "local" ELSE "viewer")
          /\ drawn' = Set(drawn, p, FALSE)
          /\ UNCHANGED <<at, invite, exists, wire, loading>>
  /\ UNCHANGED <<room, who, link>>

RequestFailed(p, a) ==
  /\ Answered(p, a, "read", FALSE) \/ Answered(p, a, "check", FALSE)
  /\ IF a.invited THEN Done(p, a, keys[p])
     ELSE /\ asks' = Set(asks, p, Rest(p, a)) /\ NoSuchRoom(p)
          /\ UNCHANGED <<at, invite, mode, drawn, loading, wire>>
  /\ Blame(Late(a))
  /\ UNCHANGED <<room, who, tool, link, keys, storage>>

(* Mutant: the page goes on showing the old invitation.                    *)
RotateDoneOld(p, a) ==
  /\ a \in asks[p] /\ a.do = "rotate" /\ a.answer # <<>>
  /\ UNCHANGED link
  /\ asks' = Set(asks, p, Rest(p, a))
  /\ Blame(Late(a))
  /\ UNCHANGED <<room, who, at, invite, mode, tool, drawn, loading, exists, keys, storage, wire>>

RotateDone(p, a) ==
  /\ a \in asks[p] /\ a.do = "rotate" /\ a.answer # <<>>
  /\ link' = IF a.answer[1] THEN Set(link, p, a.answer[2]) ELSE link
  /\ asks' = Set(asks, p, Rest(p, a))
  /\ Blame(Late(a))
  /\ UNCHANGED <<room, who, at, invite, mode, tool, drawn, loading, exists, keys, storage, wire>>

(* updateAuth.                                                             *)
IdsDone(p, a) ==
  /\ Answered(p, a, "ids", TRUE)
  /\ IF a.answer[2] # None THEN SetKey(p, Owner, {}) ELSE UNCHANGED <<keys, storage, odd>>
  /\ asks' = Set(asks, p, Rest(p, a))
  /\ user' = user \cup {p}
  /\ UNCHANGED <<room, tabs, account, view, wire>>

Created(p, a) ==
  /\ Answered(p, a, "create", TRUE)
  /\ SetKey(p, Owner, Late(a))
  /\ Arrive(p, "board", None, Owner)
  /\ asks' = Set(asks, p, Left(Rest(p, a)))
  /\ UNCHANGED <<room, who, tool, link>>

(* Nobody handles the error.                                               *)
CreateFailed(p, a) ==
  /\ Answered(p, a, "create", FALSE)
  /\ asks' = Set(asks, p, Rest(p, a))
  /\ UNCHANGED <<room, who, view, keys, storage, wire, odd>>

----------------------------------------------------------------------------
(* The user.                                                               *)

InView(p) == Attending /\ at[p] # "home" /\ exists[p] /\ ~loading[p]

Draw(p) ==
  /\ InView(p) /\ at[p] = "new" /\ tool[p] = "pen" /\ ~drawn[p]
  /\ drawn' = Set(drawn, p, TRUE)
  /\ SetKey(p, keys[p], {})
  /\ UNCHANGED <<room, who, at, invite, mode, tool, link, loading, exists, wire, asks>>

ChooseTool(p) ==
  /\ InView(p) /\ mode[p] # "viewer" /\ tool[p] = "move"
  /\ tool' = Set(tool, p, "pen")
  /\ UNCHANGED <<room, who, at, invite, mode, link, drawn, loading, exists, keys, storage, wire, asks, odd>>

(* ShareBar, of a local board: the request has the history; the mode is    *)
(* "author" for a moment, which cleans the page up.                        *)
Share(p) ==
  /\ InView(p) /\ at[p] = "new" /\ mode[p] = "local"
  /\ room.state = "none" /\ MaySend /\ \A q \in Page : ~Waits(q, "create")
  /\ Send(p, Request("create", None, None))
  /\ drawn' = Set(drawn, p, FALSE)
  /\ loading' = Set(loading, p, TRUE)
  /\ UNCHANGED <<room, who, at, invite, mode, tool, link, exists, keys, storage, wire, odd>>

(* SettingsModal.                                                          *)
ExpireCoEditors(p) ==
  /\ InView(p) /\ mode[p] = "author" /\ keys[p] # None
  /\ room.co < MaxToken /\ ~Waits(p, "rotate")
  /\ Send(p, Request("rotate", keys[p], None))
  /\ UNCHANGED <<room, who, view, keys, storage, wire, odd>>

(* OwnBoards: the room tells its users, who stay connected to it.          *)
Delete(p) ==
  /\ Attending /\ at[p] = "home" /\ keys[p] = Owner /\ There
  /\ room' = [room EXCEPT !.state = "deleted", !.live = FALSE]
  /\ down' = Tell("quit")
  /\ UNCHANGED <<who, view, keys, storage, conn, authed, up, asks, odd>>

(* Header: the user signs out and is taken home, and emptyRooms takes the  *)
(* keys out of the store and of localStorage.  Nobody waits for the        *)
(* request, which ends the session or is lost; the keys are given again to *)
(* a page that is loaded then.                                             *)
LogOut(p) ==
  /\ Attending /\ p \in user
  /\ account' \in {account, account \ (IF tabs THEN Page ELSE {p})}
  /\ SetKey(p, None, If("tabs", tabs /\ storage[p] = Owner) \cup If("unheard", p \in account'))
  /\ Arrive(p, "home", None, None)
  /\ asks' = Set(asks, p, Left(asks[p]))
  /\ user' = user \ {p}
  /\ UNCHANGED <<room, tabs, tool, link>>

----------------------------------------------------------------------------
Next ==
  \/ \E p \in Page, place \in {"home", "new", "board"}, i \in {None} \cup Token : Go(p, place, i)
  \/ \E p \in Page : Reload(p)
  \/ \E p \in Page : Open(p)
  \/ \E p \in Page : Lost(p)
  \/ \E p \in Page : Reconnected(p)
  \/ \E p \in Page : HandleUp(p)
  \/ Unload
  \/ \E p \in Page : Pulled(p)
  \/ \E p \in Page : AuthBad(p)
  \/ \E p \in Page : UpdateCoEditor(p)
  \/ \E p \in Page : Quit(p)
  \/ \E p \in Page : \E a \in asks[p] : ReadCoEditors(p, a)
  \/ \E p \in Page : \E a \in asks[p] : CheckCoEditor(p, a)
  \/ \E p \in Page : \E a \in asks[p] : UpdateCoEditorToken(p, a)
  \/ \E p \in Page : \E a \in asks[p] : PrivateIds(p, a)
  \/ \E p \in Page : \E a \in asks[p] : CreateRoom(p, a)
  \/ \E p \in Page : \E a \in asks[p] : ReadDone(p, a)
  \/ \E p \in Page : \E a \in asks[p] : CheckValid(p, a)
  \/ \E p \in Page : \E a \in asks[p] : CheckInvalid(p, a)
  \/ \E p \in Page : \E a \in asks[p] : RequestFailed(p, a)
  \/ \E p \in Page : \E a \in asks[p] : RotateDone(p, a)
  \/ \E p \in Page : \E a \in asks[p] : IdsDone(p, a)
  \/ \E p \in Page : \E a \in asks[p] : Created(p, a)
  \/ \E p \in Page : \E a \in asks[p] : CreateFailed(p, a)
  \/ \E p \in Page : Draw(p)
  \/ \E p \in Page : ChooseTool(p)
  \/ \E p \in Page : Share(p)
  \/ \E p \in Page : ExpireCoEditors(p)
  \/ \E p \in Page : Delete(p)
  \/ \E p \in Page : LogOut(p)

Spec == Init /\ [][Next]_vars

----------------------------------------------------------------------------
(* A page that has joined as a viewer cannot draw what nobody else sees:   *)
(* its tool is "move" (joinRoom.ts:80), unless the answer to a check       *)
(* crossed the news that the token is void, or came to another page.       *)
ViewerCannotDraw ==
  \A p \in Page : mode[p] = "viewer" /\ conn[p] = "open" /\ ~loading[p]
    => tool[p] = "move" \/ odd \cap {"crossed", "late", "reconnected"} # {}

(* Who draws on a shared board and has joined it is an editor for the      *)
(* server as well, with a token that is still good; else strokes would be  *)
(* dropped without a word (handle_client.rs:162).  The late answer to a    *)
(* check may give an author's page the token of a co-editor.               *)
Joined(p) == conn[p] = "open" /\ up[p] = <<>> /\ down[p] = <<>> /\ ~Waits(p, "check")
EditorAuthed ==
  \A p \in Page : Joined(p) /\ mode[p] \in {"author", "coop"}
    => Grants(authed[p]) \/ odd \cap {"late", "reconnected"} # {}

(* The invitation that the author copies is good (ShareBar.tsx:45).        *)
LinkCurrent ==
  \A p \in Page : mode[p] = "author" /\ Joined(p) /\ There /\ ~Waits(p, "read") /\ ~Waits(p, "rotate")
    => link[p] = room.co \/ odd \cap {"reconnected", "restarted", "elsewhere", "crossed", "late"} # {}

(* A board of the user's own that is not being shared can be drawn on, it  *)
(* is not covered for ever; and what was drawn on it goes only because the *)
(* user leaves it, by signing out too, or shares it.                       *)
LocalBoardSafe ==
  /\ [](\A p \in Page : at[p] = "new" /\ (loading[p] \/ mode[p] # "local")
          => Waits(p, "create") \/ odd \cap {"failed", "hidden", "late"} # {})
  /\ [][\A p \in Page : drawn[p] /\ ~drawn'[p] =>
          \/ Reload(p) \/ Share(p) \/ LogOut(p)
          \/ \E place \in {"home", "new", "board"}, i \in {None} \cup Token : Go(p, place, i)
          \/ "late" \in odd']_vars

(* The key of an author is not replaced by a co-editor's, nor lost, while  *)
(* the page is open, but for a user who signs out; and it is there after a *)
(* reload: it may be the only one.                                         *)
OwnerKeySafe ==
  /\ [][\A p \in Page : keys[p] = Owner =>
          keys'[p] = Owner \/ Reload(p) \/ LogOut(p) \/ odd' \cap {"early", "late"} # {}]_vars
  /\ [](\A p \in Page : keys[p] = Owner => storage[p] = Owner \/ odd \cap {"tabs", "early", "late"} # {})
=============================================================================
