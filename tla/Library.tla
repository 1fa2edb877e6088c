------------------------------ MODULE Library -------------------------------
(***************************************************************************)
(* The boards and folders of a user: the tables of the server, the lists   *)
(* and the folder page of one browser, with what react-query does for them *)
(* (one fetch of a key at a time, answers kept, shown again and fetched    *)
(* again), and changes made from elsewhere.                                *)
(***************************************************************************)
EXTENDS Naturals, Sequences, FiniteSets, SequencesExt

CONSTANTS
  Board, Folder,
  NoFolder,    \* the folder of a key that has none
  Size,        \* PAGE_ELEMENTS_COUNT
  MaxPage,     \* bound: pages of boards that are opened
  MaxAsks,     \* bound: fetches and requests under way
  MaxVisits,   \* bound: pages opened
  Starts,      \* bound: the rows at first and the pages that are opened
  MaxOdd       \* bound: the user acts while odd has no more members

ASSUME LibraryAssumption ==
  /\ NoFolder \notin Folder /\ Board \cap Folder = {}
  /\ Size \in Nat \ {0} /\ MaxPage \in Nat \ {0} /\ {MaxAsks, MaxVisits, MaxOdd} \subseteq Nat
  /\ Starts \subseteq [tour : SUBSET {"boards", "folders", "open"}, boards : Seq(Board), folders : Seq(Folder)]
  /\ \A s \in Starts : IsInjective(s.boards) /\ IsInjective(s.folders)   \* ids are primary keys

VARIABLES
  boards, folders,   \* the user's rows, the newest first
  inFolder, named,   \* board_folder; the folders that have a title
  ever,              \* the folders there have been
  here,              \* the key of the page that is open
  tour, visits,      \* bounded: the pages that are opened, and how many were
  ready,             \* its query is not pending
  shown, title,      \* pagination.content or contents; title
  fresh,             \* folders shown that were created here: their id is -1
  cache, failed,     \* react-query's data of each key, and the keys in error
  fetching,          \* its fetches; mine: by the page that is open now
  asks,              \* other requests
  put, taken,        \* history: the user's edits of the open folder, not saved
  dirty,             \* history: folders saved since they were read
  wanted,            \* history: what the user has put into each folder
  odd                \* history: what explains a deviation

tables == <<boards, folders, inFolder, named, ever>>
page == <<here, tour, visits, ready, shown, title, fresh>>
query == <<cache, failed, fetching>>
edits == <<put, taken, dirty>>
vars == <<tables, page, query, asks, edits, wanted, odd>>

Boards(n) == [kind |-> "boards", n |-> n, f |-> NoFolder]
Folders == [kind |-> "folders", n |-> 1, f |-> NoFolder]
Open(f) == [kind |-> "open", n |-> 1, f |-> f]
Away == [kind |-> "away", n |-> 1, f |-> NoFolder]
Key == {Boards(n) : n \in 1 .. MaxPage} \cup {Folders} \cup {Open(f) : f \in Folder}

Data == [items : SUBSET (Board \cup Folder), named : BOOLEAN]
Maybe(S) == {<<>>} \cup {<<x>> : x \in S}
Ask == [do : {"delete", "remove", "create", "save"}, item : Board \cup Folder, mine : BOOLEAN,
        add : SUBSET Board, drop : SUBSET Board, named : BOOLEAN, answer : {"none", "ok", "bad"}]
Reason == {"late", "joined", "failed", "alike", "blank", "unread", "again", "crossed", "shared",
           "long"}

TypeOK ==
  /\ boards \in Seq(Board) /\ folders \in Seq(Folder)
  /\ inFolder \in [Folder -> SUBSET Board] /\ named \subseteq Folder
  /\ ever \subseteq Folder
  /\ here \in Key \cup {Away} /\ tour \subseteq {"boards", "folders", "open"} /\ visits \in 0 .. MaxVisits /\ {ready, title} \subseteq BOOLEAN /\ dirty \subseteq Folder
  /\ shown \subseteq Board \cup Folder /\ fresh \subseteq shown
  /\ cache \in [Key -> Maybe(Data)] /\ failed \subseteq Key
  /\ fetching \in [Key -> Maybe([mine : BOOLEAN, answer : Maybe(Data)])]
  /\ asks \subseteq Ask
  /\ {put, taken} \subseteq SUBSET Board /\ wanted \in [Folder -> SUBSET Board]
  /\ odd \subseteq Reason

Init ==
  /\ \E s \in Starts : boards = s.boards /\ folders = s.folders /\ tour = s.tour
  /\ inFolder = [f \in Folder |-> {}] /\ named = Range(folders)
  /\ ever = Range(folders)
  /\ here = Away /\ visits = 0 /\ ready = FALSE /\ shown = {} /\ title = FALSE /\ fresh = {}
  /\ cache = [k \in Key |-> <<>>] /\ failed = {} /\ fetching = [k \in Key |-> <<>>]
  /\ asks = {} /\ put = {} /\ taken = {} /\ dirty = {}
  /\ wanted = inFolder /\ odd = {}

If(reason, cond) == IF cond THEN {reason} ELSE {}
Blame(reasons) == odd' = odd \cup reasons

----------------------------------------------------------------------------
(* Pages of a list.  A page of boards is as long as its number times Size. *)

LastPage(count) == count \div Size + 1

(* Mutant: the first row of a page is left out.                            *)
OnPageSkip(list, n) == {list[i] : i \in {i \in DOMAIN list : (n - 1) * Size + 1 < i /\ i <= (n - 1) * Size + n * Size}}

OnPage(list, n) == {list[i] : i \in {i \in DOMAIN list : (n - 1) * Size < i /\ i <= (n - 1) * Size + n * Size}}

Answer(k) ==
  CASE k.kind = "boards" -> [items |-> OnPage(boards, k.n), named |-> FALSE]
    [] k.kind = "folders" -> [items |-> OnPage(folders, k.n), named |-> FALSE]
    [] k.kind = "open" -> [items |-> inFolder[k.f], named |-> k.f \in named]

----------------------------------------------------------------------------
(* The queries.                                                            *)

Known(k) == cache[k] # <<>>
Fetch(mine) == <<[mine |-> mine, answer |-> <<>>]>>

(* useQuery of the keys K: one fetch of a key at a time.                   *)
Fetched(fs, K, mine) == [k \in Key |-> IF k \in K /\ fs[k] = <<>> THEN Fetch(mine) ELSE fs[k]]

(* The folder page asks for a page of boards too, once the folder is known.*)
Besides(k) == IF k.kind = "open" THEN {Boards(1)} ELSE {}

Left == [k \in Key |-> IF fetching[k] = <<>> THEN <<>> ELSE <<[fetching[k][1] EXCEPT !.mine = FALSE]>>]
Ready(c, k) == \A j \in {k} \cup Besides(k) : c[j] # <<>>

UnderWay == Cardinality({k \in Key : fetching[k] # <<>>}) + Cardinality(asks)
Busy == \E a \in asks : a.mine /\ a.do # "delete"
Attending == Cardinality(odd) <= MaxOdd
InView(kind) == Attending /\ here.kind = kind /\ ready /\ here \notin failed /\ ~Busy

Visit(k) ==
  /\ Attending /\ k.kind \in tour /\ visits < MaxVisits /\ UnderWay < MaxAsks
  /\ visits' = visits + 1
  /\ k.kind = "open" => k.f \in Range(folders)
  /\ here' = k /\ ready' = Ready(cache, k) /\ shown' = {} /\ title' = FALSE /\ fresh' = {}
  /\ fetching' = Fetched(Fetched(Left, {k}, TRUE), IF Known(k) THEN Besides(k) ELSE {}, FALSE)
  /\ asks' = {[a EXCEPT !.mine = FALSE] : a \in asks}
  /\ put' = {} /\ taken' = {}
  /\ Blame(If("joined", fetching[k] # <<>>))
  /\ UNCHANGED <<tables, tour, cache, failed, dirty, wanted>>

(* Mutant: a page that is known is not fetched again.                      *)
TurnPageCached(n) ==
  /\ InView("boards") /\ n # here.n /\ n <= LastPage(Len(boards)) /\ UnderWay < MaxAsks
  /\ here' = Boards(n)
  /\ fetching' = Fetched(fetching, {Boards(n)} \ {k \in Key : Known(k)}, TRUE)
  /\ Blame(If("joined", fetching[Boards(n)] # <<>> /\ ~fetching[Boards(n)][1].mine))
  /\ UNCHANGED <<tables, tour, visits, ready, shown, title, fresh, cache, failed, asks, edits, wanted>>

(* The buttons of List: the page stays, with the data it has.              *)
TurnPage(n) ==
  /\ InView("boards") /\ n # here.n /\ n <= LastPage(Len(boards)) /\ UnderWay < MaxAsks
  /\ here' = Boards(n)
  /\ fetching' = Fetched(fetching, {Boards(n)}, TRUE)
  /\ Blame(If("joined", fetching[Boards(n)] # <<>> /\ ~fetching[Boards(n)][1].mine))
  /\ UNCHANGED <<tables, tour, visits, ready, shown, title, fresh, cache, failed, asks, edits, wanted>>

(* The window gets the focus again.                                        *)
Refocus ==
  /\ here # Away /\ UnderWay = 0
  /\ fetching' = Fetched(fetching, {here}, TRUE)
  /\ UNCHANGED <<tables, page, cache, failed, asks, edits, wanted, odd>>

(* A folder that is gone is not found.                                     *)
Serve(k) ==
  /\ fetching[k] # <<>> /\ fetching[k][1].answer = <<>>
  /\ k.kind = "open" => k.f \in Range(folders)
  /\ fetching' = [fetching EXCEPT ![k][1].answer = <<Answer(k)>>]
  /\ UNCHANGED <<tables, page, cache, failed, asks, edits, wanted, odd>>

(* queryFn sets the state of the page that called it.                      *)
Answered(k) ==
  /\ fetching[k] # <<>> /\ fetching[k][1].answer # <<>>
  /\ LET data == fetching[k][1].answer[1]
         known == [cache EXCEPT ![k] = <<data>>]
     IN /\ cache' = known
        /\ failed' = failed \ {k}
        /\ fetching' = Fetched([fetching EXCEPT ![k] = <<>>], IF k = here THEN Besides(k) ELSE {}, FALSE)
        /\ ready' = (ready \/ (here # Away /\ Ready(known, here)))
        /\ IF fetching[k][1].mine
           THEN /\ shown' = data.items /\ title' = data.named /\ fresh' = {}
                /\ Blame(If("late", k # here) \cup If("unread", put \cup taken # {})
                       \cup If("crossed", \E a \in asks : a.do = "save" /\ a.answer = "none" /\ Open(a.item) = k))
           ELSE UNCHANGED <<shown, title, fresh, odd>>
        /\ dirty' = dirty \ {k.f}
  /\ UNCHANGED <<tables, here, tour, visits, asks, put, taken, wanted>>

(* After three more tries.                                                 *)
FetchFails(k) ==
  /\ fetching[k] # <<>> /\ fetching[k][1].answer = <<>>
  /\ failed' = failed \cup {k}
  /\ fetching' = [fetching EXCEPT ![k] = <<>>]
  /\ UNCHANGED <<tables, page, cache, asks, edits, wanted, odd>>

----------------------------------------------------------------------------
(* OwnBoards and OwnFolders.                                               *)

Request(do, item) == [do |-> do, item |-> item, mine |-> TRUE, add |-> {}, drop |-> {}, named |-> FALSE, answer |-> "none"]
Send(a) == UnderWay < MaxAsks /\ asks' = asks \cup {a}
Replied(a, answer) == asks' = (asks \ {a}) \cup {[a EXCEPT !.answer = answer]}
Sent(a, do) == a \in asks /\ a.do = do /\ a.answer = "none"
Done(a, do) == a \in asks /\ a.do = do /\ a.answer # "none" /\ asks' = asks \ {a}

RemoveBoard(b) ==
  /\ InView("boards") /\ b \in shown
  /\ \A a \in asks : a.item # b
  /\ Send(Request("delete", b))
  /\ UNCHANGED <<tables, page, query, edits, wanted, odd>>

Drop(b) ==
  /\ boards' = RemoveFirst(boards, b)
  /\ inFolder' = [f \in Folder |-> inFolder[f] \ {b}]
  /\ UNCHANGED <<folders, named, ever>>

(* A browser without the board's key cannot delete it.                     *)
DeleteRoom(a) ==
  /\ Sent(a, "delete")
  /\ \/ Drop(a.item) /\ Replied(a, "ok") /\ UNCHANGED odd
     \/ Replied(a, "bad") /\ Blame({"failed"}) /\ UNCHANGED tables
  /\ UNCHANGED <<page, query, edits, wanted>>

(* finally: whatever the answer was.                                       *)
BoardRemoved(a) ==
  /\ Done(a, "delete")
  /\ shown' = IF a.mine THEN shown \ {a.item} ELSE shown
  /\ UNCHANGED <<tables, here, tour, visits, ready, title, fresh, query, edits, wanted, odd>>

(* Folders created here have the same id, and go together.                 *)
RemoveFolder(f) ==
  /\ InView("folders") /\ f \in shown
  /\ shown' = shown \ (IF f \in fresh THEN fresh ELSE {f})
  /\ fresh' = IF f \in fresh THEN {} ELSE fresh
  /\ Send(Request("remove", f))
  /\ Blame(If("alike", f \in fresh /\ fresh # {f}))
  /\ UNCHANGED <<tables, here, tour, visits, ready, title, query, edits, wanted>>

DeleteFolder(a) ==
  /\ Sent(a, "remove")
  /\ \/ /\ folders' = RemoveFirst(folders, a.item)
        /\ inFolder' = [inFolder EXCEPT ![a.item] = {}]
        /\ named' = named \ {a.item}
        /\ wanted' = [wanted EXCEPT ![a.item] = {}]
        /\ Replied(a, "ok")
        /\ UNCHANGED <<boards, ever, odd>>
     \/ Replied(a, "bad") /\ Blame({"failed"}) /\ UNCHANGED <<tables, wanted>>
  /\ UNCHANGED <<page, query, edits>>

Create(f) ==
  /\ InView("folders") /\ f \notin ever /\ \A a \in asks : a.item # f
  /\ Send(Request("create", f))
  /\ UNCHANGED <<tables, page, query, edits, wanted, odd>>

CreateFolder(a) ==
  /\ Sent(a, "create")
  /\ folders' = <<a.item>> \o folders
  /\ named' = named \cup {a.item} /\ ever' = ever \cup {a.item}
  /\ Replied(a, "ok")
  /\ UNCHANGED <<boards, inFolder, page, query, edits, wanted, odd>>

FolderCreated(a) ==
  /\ Done(a, "create")
  /\ IF a.mine THEN shown' = shown \cup {a.item} /\ fresh' = fresh \cup {a.item} ELSE UNCHANGED <<shown, fresh>>
  /\ UNCHANGED <<tables, here, tour, visits, ready, title, query, edits, wanted, odd>>

FolderRemoved(a) ==
  /\ Done(a, "remove")
  /\ UNCHANGED <<tables, page, query, edits, wanted, odd>>

----------------------------------------------------------------------------
(* The folder page: the boards shown are edited, and Save sends what is    *)
(* not as it was read.                                                     *)

Put(b) ==
  /\ InView("open") /\ b \in Range(boards) \ shown
  /\ shown' = shown \cup {b}
  /\ put' = put \cup {b} /\ taken' = taken \ {b}
  /\ UNCHANGED <<tables, here, tour, visits, ready, title, fresh, query, asks, dirty, wanted, odd>>

Take(b) ==
  /\ InView("open") /\ b \in shown
  /\ shown' = shown \ {b}
  /\ put' = put \ {b} /\ taken' = taken \cup {b}
  /\ UNCHANGED <<tables, here, tour, visits, ready, title, fresh, query, asks, dirty, wanted, odd>>

(* Mutant: what is shown is sent, not what is new of it.                   *)
SaveAll ==
  /\ InView("open")
  /\ Send([Request("save", here.f) EXCEPT !.add = shown, !.named = title])
  /\ wanted' = [wanted EXCEPT ![here.f] = (@ \cup put) \ taken]
  /\ put' = {} /\ taken' = {} /\ dirty' = dirty \cup {here.f}
  /\ Blame(If("blank", fetching[here] # <<>>) \cup If("again", here.f \in dirty))
  /\ UNCHANGED <<tables, page, query>>

Save ==
  /\ InView("open")
  /\ LET was == cache[here][1].items IN
       Send([Request("save", here.f) EXCEPT !.add = shown \ was, !.drop = was \ shown, !.named = title])
  /\ wanted' = [wanted EXCEPT ![here.f] = (@ \cup put) \ taken]
  /\ put' = {} /\ taken' = {} /\ dirty' = dirty \cup {here.f}
  /\ Blame(If("blank", fetching[here] # <<>>) \cup If("again", here.f \in dirty))
  /\ UNCHANGED <<tables, page, query>>

(* Three statements: the title, the rows to add, the rows to delete; of    *)
(* those that do not fail any may be executed.  A board that is not there  *)
(* any more cannot be added.                                               *)
Titled(a) == IF a.named THEN named \cup {a.item} ELSE named \ {a.item}
Added(a) == [inFolder EXCEPT ![a.item] = @ \cup a.add]
Dropped(a, rows) == [f \in Folder |-> rows[f] \ a.drop]

UpdateFolder(a) ==
  /\ Sent(a, "save") /\ a.item \in Range(folders) /\ a.add \subseteq Range(boards)
  /\ named' = Titled(a)
  /\ inFolder' = Dropped(a, Added(a))
  /\ Replied(a, "ok")
  /\ Blame(If("shared", \E f \in Folder \ {a.item} : inFolder[f] \cap a.drop # {})
           \cup If("crossed", fetching[Open(a.item)] # <<>> /\ fetching[Open(a.item)][1].answer # <<>>))
  /\ UNCHANGED <<boards, folders, ever, page, query, edits, wanted>>

UpdateFails(a) ==
  /\ Sent(a, "save") /\ ~(a.item \in Range(folders) /\ a.add \subseteq Range(boards))
  /\ IF a.item \in Range(folders)
     THEN named' \in {named, Titled(a)} /\ inFolder' \in {inFolder, Dropped(a, inFolder)}
     ELSE UNCHANGED <<named, inFolder>>
  /\ Replied(a, "bad")
  /\ Blame({"failed"})
  /\ UNCHANGED <<boards, folders, ever, page, query, edits, wanted>>

(* The page takes 36 characters for a title, the server 36 bytes: it keeps *)
(* nothing of a longer one's folder and answers as if it had.  Or the user *)
(* is not signed in any more, does not own the folder, or the request is   *)
(* lost.                                                                   *)
UpdateRefused(a) ==
  /\ Sent(a, "save")
  /\ \/ a.named /\ Replied(a, "ok") /\ Blame({"long"})
     \/ Replied(a, "bad") /\ Blame({"failed"})
  /\ UNCHANGED <<tables, page, query, edits, wanted>>

(* The answer is not looked at.                                            *)
Saved(a) ==
  /\ Done(a, "save")
  /\ UNCHANGED <<tables, page, query, edits, wanted, odd>>

----------------------------------------------------------------------------
(* Elsewhere.                                                              *)
BoardDeleted(b) ==
  /\ b \in Range(boards)
  /\ Drop(b)
  /\ UNCHANGED <<page, query, asks, edits, wanted, odd>>

Next ==
  \/ \E k \in Key : Visit(k)
  \/ \E n \in 1 .. MaxPage : TurnPage(n)
  \/ Refocus
  \/ \E k \in Key : Serve(k)
  \/ \E k \in Key : Answered(k)
  \/ \E k \in Key : FetchFails(k)
  \/ \E b \in Board : RemoveBoard(b)
  \/ \E a \in asks : DeleteRoom(a)
  \/ \E a \in asks : BoardRemoved(a)
  \/ \E f \in Folder : RemoveFolder(f)
  \/ \E a \in asks : DeleteFolder(a)
  \/ \E a \in asks : FolderRemoved(a)
  \/ \E f \in Folder : Create(f)
  \/ \E a \in asks : CreateFolder(a)
  \/ \E a \in asks : FolderCreated(a)
  \/ \E b \in Board : Put(b)
  \/ \E b \in Board : Take(b)
  \/ Save
  \/ \E a \in asks : UpdateFolder(a)
  \/ \E a \in asks : UpdateFails(a)
  \/ \E a \in asks : UpdateRefused(a)
  \/ \E a \in asks : Saved(a)
  \/ \E b \in Board : BoardDeleted(b)

Spec == Init /\ [][Next]_vars

----------------------------------------------------------------------------
(* Once its saves are done, a folder has the boards the user has put into  *)
(* it, those that there still are, whatever came between reading and       *)
(* saving, and it still has a title.  What breaks it: a second save, which *)
(* is compared with what was read before the first; a save before the      *)
(* folder was read again; an answer that undoes edits, or that the page    *)
(* does not show because a fetch of an earlier visit was joined; a board   *)
(* removed here that is in other folders too (folder.rs:226); a request,   *)
(* or one statement of three, that fails; a title too long for the server, *)
(* which answers as if it had saved (folder_route.rs:94).                  *)
FoldersAsSaved ==
  odd \cap {"again", "blank", "unread", "shared", "failed", "crossed", "joined", "long"} = {}
    => \A f \in Folder : (\A a \in asks : a.item # f) =>
         inFolder[f] = wanted[f] \cap Range(boards) /\ (f \in Range(folders) => f \in named)

(* When everything is answered, a list shows what was fetched for its page *)
(* and not removed since: not another page's answer, which came later, and *)
(* not nothing, because a fetch of an earlier visit was joined.            *)
ListShown ==
  here.kind \in {"boards", "folders"} /\ here \notin failed /\ ready
    /\ asks = {} /\ (\A k \in Key : fetching[k] = <<>>) /\ odd \cap {"late", "joined", "failed", "alike"} = {}
  => /\ shown \subseteq cache[here][1].items \cup fresh
     /\ (cache[here][1].items \ shown) \cap (Range(boards) \cup Range(folders)) = {}

(* Every board is on some page, and on one only while two pages have room. *)
PagesCover ==
  /\ \A b \in Range(boards) : \E n \in 1 .. LastPage(Len(boards)) : b \in OnPage(boards, n)
  /\ Len(boards) <= 2 * Size =>
       \A n, m \in 1 .. LastPage(Len(boards)) : n # m => OnPage(boards, n) \cap OnPage(boards, m) = {}
=============================================================================
