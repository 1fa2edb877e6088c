----------------------------- MODULE RoomsProofs -----------------------------
(***************************************************************************)
(* For any number of boards, connections, requests to delete and room      *)
(* tasks: what the registry leads to, what a task that ends drops, whom    *)
(* the cleanup spares, and how an accepted edit can be lost at all.        *)
(***************************************************************************)
EXTENDS Rooms, TLAPS

(* The states of a connection.                                             *)
ConnPc == {"offline", "loading", "inserting", "joining", "joined", "authing", "authed", "leaving"}
ConnState == [pc : ConnPc, board : Board \cup {None}, chan : Task \cup {None}]

RequestState == [pc : {"idle", "locking", "sending", "waiting", "removing"},
                 board : Board \cup {None}, chan : Task \cup {None}]

----------------------------------------------------------------------------
(* What a step leaves alone keeps each part of the invariant.              *)

LEMMA Frames ==
  ASSUME RoomsInv
  PROVE  /\ UNCHANGED <<rooms, writer, status, board>> => RegistryLive'
         /\ UNCHANGED <<status, mailbox>> => OnlyJoinsDropped'
         /\ UNCHANGED <<readers, writer, cleanup, rooms>> => LockHeld'
         /\ UNCHANGED <<writer, rooms, status, board, cleanup>> => CycleFollows'
         /\ UNCHANGED <<status, mailbox, writer, rooms, cleanup>> => OnlyAskedSave'
         /\ UNCHANGED <<status, mailbox, conn, users>> => UsersJoined'
         /\ UNCHANGED <<mailbox, conn, del>> => MailTrue'
         /\ UNCHANGED <<conn, rooms, status, board, del, readers>> => ChansKnown'
         /\ UNCHANGED <<mailbox, status, board, users, unsaved, accepted>> => TasksSound'
<1>1. UNCHANGED <<rooms, writer, status, board>> => RegistryLive'
  BY DEF RoomsInv, RegistryLive
<1>2. UNCHANGED <<status, mailbox>> => OnlyJoinsDropped'
  BY DEF RoomsInv, OnlyJoinsDropped
<1>3. UNCHANGED <<readers, writer, cleanup, rooms>> => LockHeld'
  BY DEF RoomsInv, LockHeld, NoCycle
<1>4. UNCHANGED <<writer, rooms, status, board, cleanup>> => CycleFollows'
  BY DEF RoomsInv, CycleFollows
<1>5. UNCHANGED <<status, mailbox, writer, rooms, cleanup>> => OnlyAskedSave'
  BY DEF RoomsInv, OnlyAskedSave, Asked
<1>6. UNCHANGED <<status, mailbox, conn, users>> => UsersJoined'
  BY DEF RoomsInv, UsersJoined, Waits, Gone
<1>7. UNCHANGED <<mailbox, conn, del>> => MailTrue'
  BY DEF RoomsInv, MailTrue, Waits
<1>8. UNCHANGED <<conn, rooms, status, board, del, readers>> => ChansKnown'
  BY DEF RoomsInv, ChansKnown, Registered
<1>9. UNCHANGED <<mailbox, status, board, users, unsaved, accepted>> => TasksSound'
  BY DEF RoomsInv, TasksSound, Gone
<1>. QED BY <1>1, <1>2, <1>3, <1>4, <1>5, <1>6, <1>7, <1>8, <1>9

(* The messages, and a message in a mailbox.                               *)

LEMMA Messages ==
  /\ \A c \in Conn : /\ [kind |-> "join", from |-> c] \in Msg
                     /\ [kind |-> "auth", from |-> c] \in Msg
                     /\ [kind |-> "quit", from |-> c] \in Msg
  /\ \A c \in Conn, e \in Edit : [kind |-> "push", from |-> c, edit |-> e] \in Msg
  /\ \A r \in Deleter : [kind |-> "delete", from |-> r] \in Msg
  /\ [kind |-> "has_users"] \in Msg
BY DEF Msg

LEMMA Received ==
  ASSUME TypeOK, NEW t \in Task, mailbox[t] # <<>>
  PROVE  /\ mailbox[t][1] \in Msg
         /\ mailbox[t][1].kind \in {"join", "auth", "quit"} => mailbox[t][1].from \in Conn
         /\ mailbox[t][1].kind = "push" => mailbox[t][1].edit \in Edit
         /\ mailbox[t][1].kind = "delete" => mailbox[t][1].from \in Deleter
<1>1. mailbox[t][1] \in Msg
  <2>1. PICK m \in Msg : mailbox[t] = <<m>> BY DEF TypeOK
  <2>. QED BY <2>1
<1>. QED BY <1>1 DEF Msg

LEMMA Sent ==
  ASSUME TypeOK, NEW t \in Task, NEW m \in Msg, Send(t, m)
  PROVE  /\ mailbox' \in [Task -> {<<>>} \cup {<<x>> : x \in Msg}]
         /\ mailbox'[t] = <<m>> /\ mailbox'[t] # <<>> /\ mailbox'[t][1] = m
         /\ \A u \in Task \ {t} : mailbox'[u] = mailbox[u]
         /\ mailbox[t] = <<>> /\ ~Gone(t)
         /\ UNCHANGED <<status, board, users, unsaved>>
<1>1. <<m>> # <<>> /\ <<m>>[1] = m OBVIOUS
<1>2. mailbox' = [mailbox EXCEPT ![t] = <<m>>] BY DEF Send
<1>3. <<m>> \in {<<x>> : x \in Msg} OBVIOUS
<1>4. mailbox \in [Task -> {<<>>} \cup {<<x>> : x \in Msg}] BY DEF TypeOK
<1>5. mailbox' \in [Task -> {<<>>} \cup {<<x>> : x \in Msg}] BY <1>2, <1>3, <1>4
<1>6. mailbox'[t] = <<m>> /\ \A u \in Task \ {t} : mailbox'[u] = mailbox[u] BY <1>2, <1>4
<1>. QED BY <1>1, <1>5, <1>6 DEF Send

(* A message of a connection or a request is none of the cycle's.          *)

LEMMA SentByOthers ==
  ASSUME RoomsInv, NEW t \in Task, NEW m \in Msg, m.kind # "has_users", Send(t, m),
         UNCHANGED <<rooms, writer, cleanup, accepted>>
  PROVE  OnlyAskedSave' /\ TasksSound'
<1>1. /\ mailbox'[t] # <<>> /\ mailbox'[t][1] = m
      /\ \A u \in Task \ {t} : mailbox'[u] = mailbox[u]
      /\ UNCHANGED <<status, board, users, unsaved>> /\ ~Gone(t)
  BY Sent DEF RoomsInv
<1>2. OnlyAskedSave' BY <1>1 DEF RoomsInv, OnlyAskedSave, Asked
<1>3. TasksSound' BY <1>1 DEF RoomsInv, TasksSound, Gone
<1>. QED BY <1>2, <1>3

(* What a connection becomes.                                              *)

LEMMA Moved ==
  ASSUME TypeOK, NEW c \in Conn, NEW pc \in ConnPc, Goto(c, pc)
  PROVE  /\ conn' \in [Conn -> ConnState]
         /\ conn'[c].pc = pc /\ conn'[c].board = conn[c].board /\ conn'[c].chan = conn[c].chan
         /\ \A d \in Conn \ {c} : conn'[d] = conn[d]
<1>1. conn \in [Conn -> ConnState] BY DEF TypeOK, ConnState, ConnPc
<1>2. conn[c] \in ConnState BY <1>1
<1>3. conn' = [conn EXCEPT ![c] = [conn[c] EXCEPT !.pc = pc]] BY DEF Goto
<1>. DEFINE s == [conn[c] EXCEPT !.pc = pc]
<1>4. s \in ConnState /\ s.pc = pc /\ s.board = conn[c].board /\ s.chan = conn[c].chan
  BY <1>2 DEF ConnState
<1>5. conn' = [conn EXCEPT ![c] = s] BY <1>3
<1>. HIDE DEF s
<1>6. conn' \in [Conn -> ConnState] /\ conn'[c] = s /\ \A d \in Conn \ {c} : conn'[d] = conn[d]
  BY <1>1, <1>4, <1>5
<1>. QED BY <1>4, <1>6

LEMMA WentOffline ==
  ASSUME TypeOK, NEW c \in Conn, conn' = [conn EXCEPT ![c] = Offline]
  PROVE  /\ conn' \in [Conn -> ConnState]
         /\ conn'[c].pc = "offline" /\ conn'[c].board = None /\ conn'[c].chan = None
         /\ \A d \in Conn \ {c} : conn'[d] = conn[d]
BY DEF TypeOK, ConnState, ConnPc, Offline

(* Nobody learns of a room by going on inside it or by leaving it.         *)

LEMMA StillKnown ==
  ASSUME RoomsInv, UNCHANGED <<rooms, status, board, del, readers>>,
         \A d \in Conn : \/ conn'[d] = conn[d]
                         \/ /\ conn[d].pc \in {"joining"} \cup Inside /\ conn'[d].pc \in Inside
                            /\ conn'[d].chan = conn[d].chan
                         \/ conn'[d].pc = "offline" /\ conn'[d].chan = None
  PROVE  ChansKnown'
<1>1. \A d \in Conn : /\ conn'[d].pc \in {"inserting", "joining"} \cup Inside => conn'[d].chan \in Task
                      /\ conn'[d].pc \in {"loading", "inserting"} => conn'[d].board \in Board
  BY DEF RoomsInv, ChansKnown, Inside
<1>2. ASSUME NEW d \in Conn, conn'[d].pc = "inserting"
      PROVE  /\ \A b \in Board : rooms'[b] # conn'[d].chan
             /\ \A x \in Conn \ {d} : conn'[x].chan # conn'[d].chan
             /\ \/ status'[conn'[d].chan] = "idle" /\ board'[conn'[d].chan] = conn'[d].board
                \/ status'[conn'[d].chan] = "panicked"
  <2>1. conn'[d] = conn[d] /\ conn[d].pc = "inserting" /\ conn[d].chan \in Task
    BY <1>2 DEF Inside, RoomsInv, ChansKnown
  <2>2. None \notin Task BY RoomsAssumption
  <2>3. \A x \in Conn \ {d} : conn'[x].chan # conn'[d].chan
    BY <2>1, <2>2 DEF RoomsInv, ChansKnown
  <2>. QED BY <2>1, <2>3 DEF RoomsInv, ChansKnown, Registered
<1>. QED BY <1>1, <1>2 DEF RoomsInv, ChansKnown, Registered

LEMMA LeftMailTrue ==
  ASSUME RoomsInv, NEW c \in Conn, conn[c].pc # "authing", Disconnect(c), UNCHANGED del
  PROVE  MailTrue'
<1>1. /\ conn'[c].pc = "offline" /\ \A d \in Conn \ {c} : conn'[d] = conn[d]
      /\ UNCHANGED mailbox
  BY WentOffline DEF RoomsInv, Disconnect, tasks
<1>2. \A t \in Task, d \in Conn : Waits(t, "auth", d) => d # c BY DEF RoomsInv, MailTrue
<1>3. ASSUME NEW t \in Task, NEW d \in Conn, Waits(t, "auth", d)
      PROVE  conn'[d].pc = "authing" /\ conn'[d].chan = t
  BY <1>1, <1>2, <1>3 DEF RoomsInv, MailTrue
<1>4. ASSUME NEW t \in Task, NEW d \in Conn, Waits(t, "quit", d)
      PROVE  ~(conn'[d].chan = t /\ conn'[d].pc \in Inside)
  BY <1>1, <1>4 DEF RoomsInv, MailTrue, Inside
<1>. QED BY <1>1, <1>3, <1>4 DEF RoomsInv, MailTrue, Waits

(* What a request becomes.                                                 *)

LEMMA Requested ==
  ASSUME TypeOK, NEW r \in Deleter, NEW q \in RequestState, del' = [del EXCEPT ![r] = q]
  PROVE  /\ del' \in [Deleter -> RequestState]
         /\ del'[r] = q /\ \A x \in Deleter \ {r} : del'[x] = del[x]
BY DEF TypeOK, RequestState

LEMMA RequestStates ==
  ASSUME TypeOK, NEW r \in Deleter
  PROVE  /\ Resting \in RequestState
         /\ [del[r] EXCEPT !.pc = "waiting"] \in RequestState
         /\ [del[r] EXCEPT !.pc = "removing", !.chan = None] \in RequestState
         /\ \A b \in Board, t \in Task : [pc |-> "sending", board |-> b, chan |-> t] \in RequestState
         /\ \A b \in Board : [pc |-> "locking", board |-> b, chan |-> None] \in RequestState
<1>1. del[r] \in RequestState BY DEF TypeOK, RequestState
<1>2. \A q \in RequestState : [q EXCEPT !.pc = "waiting"] \in RequestState BY DEF RequestState
<1>3. \A q \in RequestState : [q EXCEPT !.pc = "removing", !.chan = None] \in RequestState
  BY DEF RequestState
<1>4. Resting \in RequestState BY DEF RequestState, Resting
<1>5. \A b \in Board, t \in Task : [pc |-> "sending", board |-> b, chan |-> t] \in RequestState
  BY DEF RequestState
<1>6. \A b \in Board : [pc |-> "locking", board |-> b, chan |-> None] \in RequestState
  BY DEF RequestState
<1>. QED BY <1>1, <1>2, <1>3, <1>4, <1>5, <1>6

----------------------------------------------------------------------------
(* The actions, each with the parts of the invariant it can disturb.       *)

LEMMA CreateRoomInv ==
  ASSUME RoomsInv, NEW b \in Board, CreateRoom(b)
  PROVE  RoomsInv'
<1>1. TypeOK' BY DEF CreateRoom, Start, TypeOK, Status, RoomsInv
<1>2. RegistryLive' BY DEF CreateRoom, Start, Held, Registered, RegistryLive,
       RoomsInv, TypeOK
<1>3. OnlyJoinsDropped' BY DEF CreateRoom, Start, OnlyJoinsDropped, RoomsInv
<1>4. LockHeld' BY DEF CreateRoom, CanWrite, LockHeld, NoCycle, RoomsInv
<1>5. CycleFollows' BY DEF CreateRoom, CanWrite, CycleFollows, LockHeld,
       NoCycle, RoomsInv
<1>6. OnlyAskedSave' BY DEF CreateRoom, Start, CanWrite, OnlyAskedSave, Asked,
       LockHeld, NoCycle, RoomsInv
<1>7. UsersJoined' BY DEF CreateRoom, Start, Held, UsersJoined, Waits,
       RoomsInv, Gone
<1>8. MailTrue' BY DEF CreateRoom, Start, MailTrue, Waits, RoomsInv
<1>9. ChansKnown' BY DEF CreateRoom, Start, Held, Registered, ChansKnown,
       RoomsInv
<1>10. TasksSound' BY DEF CreateRoom, Start, TasksSound, RoomsInv, TypeOK,
       Gone
<1>. QED BY <1>1, <1>2, <1>3, <1>4, <1>5, <1>6, <1>7, <1>8, <1>9, <1>10,
       Frames DEF RoomsInv, CreateRoom, Start, registry, tasks, tables

LEMMA LookupInv ==
  ASSUME RoomsInv, NEW c \in Conn, NEW b \in Board, Lookup(c, b)
  PROVE  RoomsInv'
<1>1. TypeOK' BY DEF Lookup, TypeOK, RoomsInv, registry, tasks, tables
<1>2. UsersJoined' BY DEF Lookup, UsersJoined, Inside, Waits, RoomsInv, Gone,
       tasks
<1>3. MailTrue' BY DEF Lookup, MailTrue, Inside, Waits, RoomsInv, tasks
<1>4. ChansKnown' BY DEF Lookup, ChansKnown, Inside, Registered, RoomsInv,
       TypeOK, registry, tasks
<1>. QED BY <1>1, <1>2, <1>3, <1>4, Frames DEF RoomsInv, Lookup, registry,
       tasks, tables

LEMMA LoadRoomInv ==
  ASSUME RoomsInv, NEW c \in Conn, LoadRoom(c)
  PROVE  RoomsInv'
<1> DEFINE Begins(t) == /\ Start(t, conn[c].board)
                        /\ conn' = [conn EXCEPT ![c].pc = "inserting", ![c].chan = t]
<1>a. \/ /\ conn' = [conn EXCEPT ![c] = Offline] /\ UNCHANGED tasks
      \/ \E t \in Task : Begins(t)
  BY DEF LoadRoom
<1>b. ASSUME NEW t \in Task, Begins(t)
      PROVE  /\ conn'[c].pc = "inserting" /\ conn'[c].chan = t /\ conn'[c].board = conn[c].board
             /\ \A d \in Conn \ {c} : conn'[d] = conn[d]
             /\ Gone(t) /\ ~Held(t) /\ mailbox[t] = <<>>
             /\ status'[t] = "idle" /\ board'[t] = conn[c].board /\ mailbox'[t] = <<>>
             /\ \A u \in Task \ {t} : /\ status'[u] = status[u] /\ board'[u] = board[u]
                                      /\ mailbox'[u] = mailbox[u] /\ users'[u] = users[u]
  BY <1>b DEF RoomsInv, TypeOK, Start, TasksSound
<1>c. ASSUME conn' = [conn EXCEPT ![c] = Offline]
      PROVE  /\ conn'[c].pc = "offline" /\ conn'[c].chan = None
             /\ \A d \in Conn \ {c} : conn'[d] = conn[d]
  BY <1>c, WentOffline DEF RoomsInv
<1>d. conn[c].pc = "loading" BY DEF LoadRoom
<1> HIDE DEF Begins
<1>1. TypeOK'
  <2>0. /\ TypeOK /\ conn[c] \in ConnState
        /\ UNCHANGED <<rooms, readers, writer, del, cleanup, exists, created, saved, failed, accepted>>
    BY DEF RoomsInv, TypeOK, ConnState, ConnPc, LoadRoom, registry, tables
  <2>1. ASSUME NEW t \in Task, Start(t, conn[c].board), conn[c].board \in Board
        PROVE  /\ status' \in [Task -> Status] /\ board' \in [Task -> Board \cup {None}]
               /\ mailbox' \in [Task -> {<<>>} \cup {<<m>> : m \in Msg}]
               /\ users' \in [Task -> SUBSET Conn] /\ unsaved' \in [Task -> SUBSET Edit]
    BY <2>0, <2>1 DEF Start, TypeOK, Status
  <2>2. conn[c].board \in Board BY <1>d DEF RoomsInv, ChansKnown
  <2>3. \A t \in Task :
          [conn EXCEPT ![c] = [conn[c] EXCEPT !.pc = "inserting", !.chan = t]] \in [Conn -> ConnState]
    BY <2>0 DEF TypeOK, ConnState, ConnPc
  <2>4. [conn EXCEPT ![c] = Offline] \in [Conn -> ConnState]
    BY <2>0 DEF TypeOK, ConnState, ConnPc, Offline
  <2>5. CASE \E t \in Task : Begins(t)
    <3>1. PICK t \in Task : Begins(t) BY <2>5
    <3>2. conn' \in [Conn -> ConnState] BY <2>3, <3>1 DEF Begins
    <3>. QED BY <2>0, <2>1, <2>2, <3>1, <3>2 DEF Begins, TypeOK, ConnState, ConnPc
  <2>6. CASE conn' = [conn EXCEPT ![c] = Offline] /\ UNCHANGED tasks
    <3>1. conn' \in [Conn -> ConnState] BY <2>4, <2>6
    <3>. QED BY <2>0, <2>6, <3>1 DEF tasks, TypeOK, ConnState, ConnPc
  <2>. QED BY <1>a, <2>5, <2>6
<1>2. RegistryLive' BY DEF LoadRoom, Start, Held, RegistryLive, RoomsInv,
       TypeOK, registry, tasks
<1>3. OnlyJoinsDropped' BY DEF LoadRoom, Start, OnlyJoinsDropped, RoomsInv,
       TypeOK, tasks
<1>4. CycleFollows' BY DEF LoadRoom, Start, Held, CycleFollows, RoomsInv,
       TypeOK, registry, tasks
<1>5. OnlyAskedSave' BY SMTT(20) DEF LoadRoom, Start, OnlyAskedSave, Asked, RoomsInv,
       TypeOK, registry, tasks
<1>6. UsersJoined'
  <2>1. ASSUME NEW t \in Task, Begins(t)
        PROVE  UsersJoined'
    <3>1. \A d \in Conn : conn[d].chan # t BY <1>b, <2>1 DEF Held
    <3>0. \A u \in Task \ {t} : /\ status'[u] = status[u] /\ mailbox'[u] = mailbox[u]
                                /\ users'[u] = users[u]
      BY <1>b, <2>1
    <3>2. ASSUME NEW u \in Task, NEW d \in Conn, conn'[d].chan = u, conn'[d].pc \in Inside
          PROVE  /\ conn'[d] = conn[d] /\ status'[u] = status[u]
                 /\ mailbox'[u] = mailbox[u] /\ users'[u] = users[u]
      <4>1. d # c BY <1>b, <2>1, <3>2 DEF Inside
      <4>2. conn'[d] = conn[d] BY <1>b, <2>1, <4>1
      <4>3. u # t BY <3>1, <3>2, <4>2
      <4>. QED BY <3>0, <4>2, <4>3
    <3>. QED BY <3>2 DEF RoomsInv, UsersJoined, Waits, Gone
  <2>2. CASE conn' = [conn EXCEPT ![c] = Offline] /\ UNCHANGED tasks
    BY <1>c, <2>2 DEF RoomsInv, UsersJoined, Waits, Gone, Inside, tasks
  <2>. QED BY <1>a, <2>1, <2>2
<1>7. MailTrue'
  <2>1. \A t \in Task : mailbox'[t] = mailbox[t] BY <1>a, <1>b DEF tasks
  <2>2. \A d \in Conn \ {c} : conn'[d] = conn[d] BY <1>a, <1>b, <1>c
  <2>3. conn'[c].pc \notin Inside BY <1>a, <1>b, <1>c DEF Inside
  <2>4. UNCHANGED del BY DEF LoadRoom
  <2>. QED BY <1>d, <2>1, <2>2, <2>3, <2>4 DEF RoomsInv, MailTrue, Waits
<1>8. ChansKnown'
  <2>1. ASSUME NEW t \in Task, Begins(t)
        PROVE  ChansKnown'
    <3>1. /\ \A d \in Conn : conn[d].chan # t
          /\ \A b \in Board : rooms[b] # t
      BY <1>b, <2>1 DEF Held, Registered
    <3>2. conn[c].board \in Board BY <1>d DEF RoomsInv, ChansKnown
    <3>3. UNCHANGED <<rooms, del, readers>> BY DEF LoadRoom, registry
    <3>4. /\ conn'[c].pc = "inserting" /\ conn'[c].chan = t /\ conn'[c].board \in Board
          /\ status'[t] = "idle" /\ board'[t] = conn'[c].board
          /\ \A d \in Conn \ {c} : conn'[d] = conn[d]
          /\ \A u \in Task \ {t} : status'[u] = status[u] /\ board'[u] = board[u]
      <4>1. /\ conn'[c].pc = "inserting" /\ conn'[c].chan = t /\ conn'[c].board = conn[c].board
            /\ status'[t] = "idle" /\ board'[t] = conn[c].board
        BY <1>b, <2>1
      <4>2. /\ \A d \in Conn \ {c} : conn'[d] = conn[d]
            /\ \A u \in Task \ {t} : status'[u] = status[u] /\ board'[u] = board[u]
        BY <1>b, <2>1
      <4>. QED BY <3>2, <4>1, <4>2
    <3>5. ASSUME NEW d \in Conn
          PROVE  /\ conn'[d].pc \in {"inserting", "joining"} \cup Inside => conn'[d].chan \in Task
                 /\ conn'[d].pc \in {"loading", "inserting"} => conn'[d].board \in Board
      BY <3>4 DEF RoomsInv, ChansKnown
    <3>6. ASSUME NEW d \in Conn, conn'[d].pc = "inserting"
          PROVE  /\ \A b \in Board : rooms'[b] # conn'[d].chan
                 /\ \A x \in Conn \ {d} : conn'[x].chan # conn'[d].chan
                 /\ \/ status'[conn'[d].chan] = "idle" /\ board'[conn'[d].chan] = conn'[d].board
                    \/ status'[conn'[d].chan] = "panicked"
      <4>1. CASE d = c BY <3>1, <3>3, <3>4, <4>1
      <4>2. CASE d # c
        <5>1. conn'[d] = conn[d] /\ conn[d].chan \in Task /\ conn[d].chan # t
          BY <3>1, <3>4, <3>6, <4>2 DEF RoomsInv, ChansKnown
        <5>. QED BY <3>3, <3>4, <3>6, <5>1 DEF RoomsInv, ChansKnown, Registered
      <4>. QED BY <4>1, <4>2
    <3>. QED BY <3>3, <3>5, <3>6 DEF RoomsInv, ChansKnown, Registered
  <2>2. CASE conn' = [conn EXCEPT ![c] = Offline] /\ UNCHANGED tasks
    BY <1>c, <2>2, StillKnown DEF LoadRoom, registry, tasks
  <2>. QED BY <1>a, <2>1, <2>2
<1>9. TasksSound'
  <2>1. ASSUME NEW t \in Task, Begins(t) PROVE TasksSound'
    <3>1. conn[c].board \in Board BY <1>d DEF RoomsInv, ChansKnown
    <3>2. /\ UNCHANGED accepted /\ unsaved' = [unsaved EXCEPT ![t] = {}]
          /\ unsaved \in [Task -> SUBSET Edit]
      BY <2>1 DEF Begins, Start, LoadRoom, RoomsInv, TypeOK
    <3>3. unsaved'[t] = {} /\ \A u \in Task \ {t} : unsaved'[u] = unsaved[u] BY <3>2
    <3>4. status'[t] = "idle" /\ board'[t] = conn[c].board BY <1>b, <2>1
    <3>. QED BY <1>b, <2>1, <3>1, <3>2, <3>3, <3>4 DEF RoomsInv, TasksSound, Gone
  <2>2. CASE UNCHANGED tasks BY <2>2 DEF LoadRoom, RoomsInv, TasksSound, Gone, tasks
  <2>. QED BY <1>a, <2>1, <2>2
<1>. QED BY <1>1, <1>2, <1>3, <1>4, <1>5, <1>6, <1>7, <1>8, <1>9, Frames DEF
       RoomsInv, LoadRoom, Start, registry, tasks, tables

LEMMA InsertRoomInv ==
  ASSUME RoomsInv, NEW c \in Conn, InsertRoom(c)
  PROVE  RoomsInv'
<1>1. TypeOK'
  <2>1. conn' \in [Conn -> ConnState] BY Moved DEF RoomsInv, InsertRoom, ConnPc
  <2>2. rooms' \in [Board -> Task \cup {None}]
    BY DEF RoomsInv, InsertRoom, TypeOK, ChansKnown
  <2>. QED BY <2>1, <2>2 DEF RoomsInv, TypeOK, ConnState, ConnPc, InsertRoom, tasks, tables
<1>2. RegistryLive' BY DEF InsertRoom, RegistryLive, ChansKnown, RoomsInv,
       tasks
<1>3. LockHeld' BY DEF InsertRoom, CanWrite, LockHeld, NoCycle, RoomsInv
<1>4. CycleFollows' BY DEF InsertRoom, CanWrite, CycleFollows, LockHeld,
       NoCycle, RoomsInv
<1>5. OnlyAskedSave' BY DEF InsertRoom, CanWrite, OnlyAskedSave, Asked,
       LockHeld, NoCycle, RoomsInv, tasks
<1>6. UsersJoined' BY DEF InsertRoom, Goto, UsersJoined, Inside, Waits,
       RoomsInv, Gone, tasks
<1>7. MailTrue' BY DEF InsertRoom, Goto, MailTrue, Inside, Waits, RoomsInv,
       tasks
<1>8. ChansKnown' BY DEF InsertRoom, Goto, ChansKnown, Registered, RoomsInv,
       TypeOK, tasks
<1>. QED BY <1>1, <1>2, <1>3, <1>4, <1>5, <1>6, <1>7, <1>8, Frames DEF
       RoomsInv, InsertRoom, Goto, registry, tasks, tables

LEMMA SendJoinInv ==
  ASSUME RoomsInv, NEW c \in Conn, SendJoin(c)
  PROVE  RoomsInv'
<1>1. TypeOK'
  <2>1. conn' \in [Conn -> ConnState] BY Moved DEF RoomsInv, SendJoin, ConnPc, TypeOK, ConnState
  <2>2. conn[c].chan \in Task BY DEF RoomsInv, ChansKnown, Inside, SendJoin
  <2>3. /\ mailbox' \in [Task -> {<<>>} \cup {<<m>> : m \in Msg}]
        /\ UNCHANGED <<status, board, users, unsaved>>
    <3>1. CASE Send(conn[c].chan, [kind |-> "join", from |-> c])
      BY <2>2, <3>1, Sent, Messages DEF RoomsInv
    <3>2. CASE UNCHANGED tasks BY <3>2 DEF RoomsInv, TypeOK, tasks
    <3>. QED BY <3>1, <3>2 DEF SendJoin
  <2>. QED BY <2>1, <2>3 DEF RoomsInv, TypeOK, ConnState, ConnPc, SendJoin, registry, tables
<1>2. OnlyJoinsDropped' BY DEF SendJoin, Send, OnlyJoinsDropped, RoomsInv,
       TypeOK, tasks
<1>3. OnlyAskedSave'
  <2>1. conn[c].chan \in Task BY DEF RoomsInv, ChansKnown, Inside, SendJoin
  <2>2. CASE Send(conn[c].chan, [kind |-> "join", from |-> c])
    BY <2>1, <2>2, SentByOthers, Messages DEF SendJoin, registry
  <2>3. CASE UNCHANGED tasks BY <2>3, Frames DEF SendJoin, registry, tasks
  <2>. QED BY <2>2, <2>3 DEF SendJoin
<1>4. UsersJoined' BY DEF SendJoin, Send, Goto, UsersJoined, Waits, RoomsInv,
       TypeOK, Gone, tasks
<1>5. MailTrue' BY DEF SendJoin, Send, Goto, MailTrue, Waits, TasksSound,
       RoomsInv, TypeOK, tasks
<1>6. ChansKnown' BY DEF SendJoin, Send, Goto, ChansKnown, Registered,
       RoomsInv, registry, tasks
<1>7. TasksSound' BY DEF SendJoin, Send, TasksSound, RoomsInv, TypeOK, Gone,
       tasks
<1>. QED BY <1>1, <1>2, <1>3, <1>4, <1>5, <1>6, <1>7, Frames DEF RoomsInv,
       SendJoin, Send, Goto, registry, tasks, tables

LEMMA SendAuthInv ==
  ASSUME RoomsInv, NEW c \in Conn, SendAuth(c)
  PROVE  RoomsInv'
<1>1. TypeOK'
  <2>1. conn' \in [Conn -> ConnState]
    BY Moved, WentOffline DEF RoomsInv, SendAuth, Disconnect, ConnPc, TypeOK, ConnState
  <2>2. conn[c].chan \in Task BY DEF RoomsInv, ChansKnown, Inside, SendAuth, Disconnect
  <2>3. /\ mailbox' \in [Task -> {<<>>} \cup {<<m>> : m \in Msg}]
        /\ UNCHANGED <<status, board, users, unsaved>>
    <3>1. CASE Send(conn[c].chan, [kind |-> "auth", from |-> c])
      BY <2>2, <3>1, Sent, Messages DEF RoomsInv
    <3>2. CASE UNCHANGED tasks BY <3>2 DEF RoomsInv, TypeOK, tasks
    <3>. QED BY <3>1, <3>2 DEF SendAuth, Disconnect
  <2>. QED
    BY <2>1, <2>3 DEF RoomsInv, TypeOK, ConnState, ConnPc, SendAuth, Disconnect, registry, tables
<1>2. OnlyJoinsDropped' BY DEF SendAuth, Send, Disconnect, OnlyJoinsDropped,
       UsersJoined, Waits, TasksSound, Inside, RoomsInv, TypeOK, tasks
<1>3. OnlyAskedSave'
  <2>1. conn[c].chan \in Task BY DEF RoomsInv, ChansKnown, Inside, SendAuth, Disconnect
  <2>2. CASE Send(conn[c].chan, [kind |-> "auth", from |-> c])
    BY <2>1, <2>2, SentByOthers, Messages DEF SendAuth, Disconnect, registry
  <2>3. CASE UNCHANGED tasks BY <2>3, Frames DEF SendAuth, Disconnect, registry, tasks
  <2>. QED BY <2>2, <2>3 DEF SendAuth, Disconnect
<1>4. UsersJoined' BY DEF SendAuth, Send, Goto, Disconnect, UsersJoined,
       Inside, Offline, Waits, RoomsInv, TypeOK, Gone, tasks
<1>5. MailTrue'
  <2>. DEFINE t == conn[c].chan
  <2>1. t \in Task BY DEF RoomsInv, ChansKnown, Inside, SendAuth
  <2>2. CASE Send(t, [kind |-> "auth", from |-> c]) /\ Goto(c, "authing")
    <3>1. /\ conn'[c].pc = "authing" /\ conn'[c].chan = t
          /\ \A d \in Conn \ {c} : conn'[d] = conn[d]
      BY <2>2, Moved DEF RoomsInv, ConnPc
    <3>2. /\ mailbox[t] = <<>> /\ mailbox'[t][1] = [kind |-> "auth", from |-> c]
          /\ \A u \in Task \ {t} : mailbox'[u] = mailbox[u]
      BY <2>1, <2>2, Sent, Messages DEF RoomsInv
    <3>. HIDE DEF t
    <3>. QED BY <2>1, <3>1, <3>2 DEF SendAuth, RoomsInv, MailTrue, Waits, Inside
  <2>3. CASE Disconnect(c) BY <2>3, LeftMailTrue DEF SendAuth
  <2>. QED BY <2>2, <2>3 DEF SendAuth
<1>6. ChansKnown'
  <2>1. \A d \in Conn : \/ conn'[d] = conn[d]
                        \/ /\ conn[d].pc \in {"joining"} \cup Inside /\ conn'[d].pc \in Inside
                           /\ conn'[d].chan = conn[d].chan
                        \/ conn'[d].pc = "offline" /\ conn'[d].chan = None
    BY Moved, WentOffline DEF RoomsInv, SendAuth, Disconnect, ConnPc, Inside
  <2>. QED BY <2>1, StillKnown DEF SendAuth, Send, Disconnect, registry, tasks
<1>7. TasksSound' BY DEF SendAuth, Send, Disconnect, TasksSound, RoomsInv,
       TypeOK, Gone, tasks
<1>. QED BY <1>1, <1>2, <1>3, <1>4, <1>5, <1>6, <1>7, Frames DEF RoomsInv,
       SendAuth, Send, Goto, Disconnect, registry, tasks, tables

LEMMA AuthDroppedInv ==
  ASSUME RoomsInv, NEW c \in Conn, AuthDropped(c)
  PROVE  RoomsInv'
<1>1. TypeOK'
  <2>1. conn' \in [Conn -> ConnState] BY Moved DEF RoomsInv, AuthDropped, ConnPc
  <2>. QED BY <2>1 DEF RoomsInv, TypeOK, ConnState, ConnPc, AuthDropped, registry, tasks, tables
<1>2. UsersJoined' BY DEF AuthDropped, Goto, UsersJoined, Waits, RoomsInv,
       Gone, tasks
<1>3. MailTrue' BY DEF AuthDropped, Goto, MailTrue, Waits, TasksSound,
       RoomsInv, tasks
<1>4. ChansKnown' BY DEF AuthDropped, Goto, ChansKnown, Inside, Registered,
       RoomsInv, registry, tasks
<1>. QED BY <1>1, <1>2, <1>3, <1>4, Frames DEF RoomsInv, AuthDropped, Goto,
       registry, tasks, tables

LEMMA SendPushInv ==
  ASSUME RoomsInv, NEW c \in Conn, NEW e \in Edit, SendPush(c, e)
  PROVE  RoomsInv'
<1>1. TypeOK'
  <2>1. conn' \in [Conn -> ConnState]
    BY WentOffline DEF RoomsInv, SendPush, Disconnect, ConnPc, TypeOK, ConnState
  <2>2. conn[c].chan \in Task BY DEF RoomsInv, ChansKnown, Inside, SendPush, Disconnect
  <2>3. /\ mailbox' \in [Task -> {<<>>} \cup {<<m>> : m \in Msg}]
        /\ UNCHANGED <<status, board, users, unsaved>>
    <3>1. CASE Send(conn[c].chan, [kind |-> "push", from |-> c, edit |-> e])
      BY <2>2, <3>1, Sent, Messages DEF RoomsInv
    <3>2. CASE UNCHANGED tasks BY <3>2 DEF RoomsInv, TypeOK, tasks
    <3>. QED BY <3>1, <3>2 DEF SendPush, Disconnect
  <2>. QED
    BY <2>1, <2>3 DEF RoomsInv, TypeOK, ConnState, ConnPc, SendPush, Disconnect, registry, tables
<1>2. OnlyJoinsDropped' BY DEF SendPush, Send, Disconnect, OnlyJoinsDropped,
       UsersJoined, Waits, TasksSound, Inside, RoomsInv, TypeOK, tasks
<1>3. OnlyAskedSave'
  <2>1. conn[c].chan \in Task BY DEF RoomsInv, ChansKnown, Inside, SendPush, Disconnect
  <2>2. CASE Send(conn[c].chan, [kind |-> "push", from |-> c, edit |-> e])
    BY <2>1, <2>2, SentByOthers, Messages DEF SendPush, Disconnect, registry
  <2>3. CASE UNCHANGED tasks BY <2>3, Frames DEF SendPush, Disconnect, registry, tasks
  <2>. QED BY <2>2, <2>3 DEF SendPush, Disconnect
<1>4. UsersJoined'
  <2>. DEFINE t == conn[c].chan
  <2>1. t \in Task BY DEF RoomsInv, ChansKnown, Inside, SendPush
  <2>2. CASE Send(t, [kind |-> "push", from |-> c, edit |-> e]) /\ UNCHANGED conn
    <3>1. /\ mailbox[t] = <<>> /\ \A u \in Task \ {t} : mailbox'[u] = mailbox[u]
          /\ UNCHANGED <<status, users>>
      BY <2>1, <2>2, Sent, Messages DEF RoomsInv
    <3>2. UNCHANGED conn BY <2>2
    <3>. HIDE DEF t
    <3>3. \A u \in Task, d \in Conn : Waits(u, "join", d) => Waits(u, "join", d)'
      BY <2>1, <3>1 DEF Waits
    <3>. QED BY <3>1, <3>2, <3>3 DEF RoomsInv, UsersJoined, Gone
  <2>3. CASE Disconnect(c)
    <3>1. conn'[c].pc = "offline" /\ \A d \in Conn \ {c} : conn'[d] = conn[d]
      BY <2>3, WentOffline DEF Disconnect, RoomsInv
    <3>2. UNCHANGED <<status, mailbox, users>> BY <2>3 DEF Disconnect, tasks
    <3>3. ASSUME NEW d \in Conn, conn'[d].pc \in Inside PROVE conn'[d] = conn[d]
      BY <3>1, <3>3 DEF Inside
    <3>. QED BY <3>2, <3>3 DEF RoomsInv, UsersJoined, Waits, Gone
  <2>. QED BY <2>2, <2>3 DEF SendPush
<1>5. MailTrue'
  <2>. DEFINE t == conn[c].chan
  <2>1. t \in Task BY DEF RoomsInv, ChansKnown, Inside, SendPush
  <2>2. CASE Send(t, [kind |-> "push", from |-> c, edit |-> e]) /\ UNCHANGED conn
    <3>1. /\ mailbox'[t][1] = [kind |-> "push", from |-> c, edit |-> e]
          /\ \A u \in Task \ {t} : mailbox'[u] = mailbox[u]
      BY <2>1, <2>2, Sent, Messages DEF RoomsInv
    <3>. HIDE DEF t
    <3>. QED BY <2>1, <2>2, <3>1 DEF SendPush, RoomsInv, MailTrue, Waits, Inside
  <2>3. CASE Disconnect(c) BY <2>3, LeftMailTrue DEF SendPush
  <2>. QED BY <2>2, <2>3 DEF SendPush
<1>6. ChansKnown'
  <2>1. \A d \in Conn : \/ conn'[d] = conn[d]
                        \/ /\ conn[d].pc \in {"joining"} \cup Inside /\ conn'[d].pc \in Inside
                           /\ conn'[d].chan = conn[d].chan
                        \/ conn'[d].pc = "offline" /\ conn'[d].chan = None
    BY WentOffline DEF RoomsInv, SendPush, Disconnect, ConnPc, Inside
  <2>. QED BY <2>1, StillKnown DEF SendPush, Send, Disconnect, registry, tasks
<1>7. TasksSound' BY DEF SendPush, Send, Disconnect, TasksSound, RoomsInv,
       TypeOK, Gone, tasks
<1>. QED BY <1>1, <1>2, <1>3, <1>4, <1>5, <1>6, <1>7, Frames DEF RoomsInv,
       SendPush, Send, Disconnect, registry, tasks, tables

LEMMA LeaveInv ==
  ASSUME RoomsInv, NEW c \in Conn, Leave(c)
  PROVE  RoomsInv'
<1>1. TypeOK'
  <2>1. conn' \in [Conn -> ConnState] BY Moved DEF RoomsInv, Leave, ConnPc
  <2>. QED BY <2>1 DEF RoomsInv, TypeOK, ConnState, ConnPc, Leave, registry, tasks, tables
<1>2. UsersJoined' BY DEF Leave, Goto, UsersJoined, Inside, Waits, RoomsInv,
       Gone, tasks
<1>3. MailTrue' BY DEF Leave, Goto, MailTrue, Inside, Waits, RoomsInv, tasks
<1>4. ChansKnown' BY DEF Leave, Goto, ChansKnown, Inside, Registered,
       RoomsInv, registry, tasks
<1>. QED BY <1>1, <1>2, <1>3, <1>4, Frames DEF RoomsInv, Leave, Goto,
       registry, tasks, tables

LEMMA SendQuitInv ==
  ASSUME RoomsInv, NEW c \in Conn, SendQuit(c)
  PROVE  RoomsInv'
<1>1. TypeOK'
  <2>1. conn' \in [Conn -> ConnState]
    BY WentOffline DEF RoomsInv, SendQuit, Disconnect, ConnPc, TypeOK, ConnState
  <2>2. conn[c].chan \in Task BY DEF RoomsInv, ChansKnown, Inside, SendQuit, Disconnect
  <2>3. /\ mailbox' \in [Task -> {<<>>} \cup {<<m>> : m \in Msg}]
        /\ UNCHANGED <<status, board, users, unsaved>>
    <3>1. CASE Send(conn[c].chan, [kind |-> "quit", from |-> c])
      BY <2>2, <3>1, Sent, Messages DEF RoomsInv
    <3>2. CASE UNCHANGED tasks BY <3>2 DEF RoomsInv, TypeOK, tasks
    <3>. QED BY <3>1, <3>2 DEF SendQuit, Disconnect
  <2>. QED
    BY <2>1, <2>3 DEF RoomsInv, TypeOK, ConnState, ConnPc, SendQuit, Disconnect, registry, tables
<1>2. OnlyJoinsDropped' BY DEF SendQuit, Send, Disconnect, OnlyJoinsDropped,
       UsersJoined, Waits, TasksSound, Inside, RoomsInv, TypeOK, tasks
<1>3. OnlyAskedSave'
  <2>1. conn[c].chan \in Task BY DEF RoomsInv, ChansKnown, Inside, SendQuit, Disconnect
  <2>2. CASE Send(conn[c].chan, [kind |-> "quit", from |-> c])
    BY <2>1, <2>2, SentByOthers, Messages DEF SendQuit, Disconnect, registry
  <2>3. CASE UNCHANGED tasks BY <2>3, Frames DEF SendQuit, Disconnect, registry, tasks
  <2>. QED BY <2>2, <2>3 DEF SendQuit, Disconnect
<1>4. UsersJoined'
  <2>. DEFINE t == conn[c].chan
  <2>1. t \in Task BY DEF RoomsInv, ChansKnown, Inside, SendQuit
  <2>2. conn'[c].pc = "offline" /\ \A d \in Conn \ {c} : conn'[d] = conn[d]
    BY WentOffline DEF RoomsInv, SendQuit, Disconnect
  <2>3. UNCHANGED <<status, users>> BY DEF SendQuit, Send, Disconnect, tasks
  <2>4. \A u \in Task, d \in Conn : Waits(u, "join", d) => Waits(u, "join", d)'
    <3>1. CASE Send(t, [kind |-> "quit", from |-> c])
      <4>1. mailbox[t] = <<>> /\ \A u \in Task \ {t} : mailbox'[u] = mailbox[u]
        BY <2>1, <3>1, Sent, Messages DEF RoomsInv
      <4>. HIDE DEF t
      <4>. QED BY <2>1, <4>1 DEF Waits
    <3>2. CASE UNCHANGED tasks BY <3>2 DEF Waits, tasks
    <3>. QED BY <3>1, <3>2 DEF SendQuit, Disconnect
  <2>. HIDE DEF t
  <2>. QED BY <2>2, <2>3, <2>4 DEF RoomsInv, UsersJoined, Inside, Gone
<1>5. MailTrue'
  <2>. DEFINE t == conn[c].chan
  <2>1. t \in Task BY DEF RoomsInv, ChansKnown, Inside, SendQuit
  <2>2. CASE Send(t, [kind |-> "quit", from |-> c]) /\ conn' = [conn EXCEPT ![c] = Offline]
    <3>1. /\ conn'[c].pc = "offline" /\ \A d \in Conn \ {c} : conn'[d] = conn[d]
      BY <2>2, WentOffline DEF RoomsInv
    <3>2. /\ mailbox'[t][1] = [kind |-> "quit", from |-> c]
          /\ \A u \in Task \ {t} : mailbox'[u] = mailbox[u]
      BY <2>1, <2>2, Sent, Messages DEF RoomsInv
    <3>. HIDE DEF t
    <3>. QED BY <2>1, <3>1, <3>2 DEF SendQuit, RoomsInv, MailTrue, Waits, Inside
  <2>3. CASE Disconnect(c) BY <2>3, LeftMailTrue DEF SendQuit
  <2>. QED BY <2>2, <2>3 DEF SendQuit
<1>6. ChansKnown'
  <2>1. \A d \in Conn : \/ conn'[d] = conn[d]
                        \/ /\ conn[d].pc \in {"joining"} \cup Inside /\ conn'[d].pc \in Inside
                           /\ conn'[d].chan = conn[d].chan
                        \/ conn'[d].pc = "offline" /\ conn'[d].chan = None
    BY WentOffline DEF RoomsInv, SendQuit, Disconnect, ConnPc, Inside
  <2>. QED BY <2>1, StillKnown DEF SendQuit, Send, Disconnect, registry, tasks
<1>7. TasksSound' BY DEF SendQuit, Send, Disconnect, TasksSound, RoomsInv,
       TypeOK, Gone, tasks
<1>. QED BY <1>1, <1>2, <1>3, <1>4, <1>5, <1>6, <1>7, Frames DEF RoomsInv,
       SendQuit, Send, Disconnect, registry, tasks, tables

LEMMA HandleJoinInv ==
  ASSUME RoomsInv, NEW t \in Task, HandleJoin(t)
  PROVE  RoomsInv'
<1>1. TypeOK' BY DEF HandleJoin, Recv, TypeOK, Msg, RoomsInv, registry, tables
<1>2. OnlyJoinsDropped' BY DEF HandleJoin, Recv, OnlyJoinsDropped, RoomsInv
<1>3. OnlyAskedSave' BY DEF HandleJoin, Recv, OnlyAskedSave, Asked, RoomsInv,
       registry
<1>4. UsersJoined' BY DEF HandleJoin, Recv, UsersJoined, Waits, RoomsInv,
       TypeOK, Gone
<1>5. MailTrue' BY DEF HandleJoin, Recv, MailTrue, Waits, RoomsInv
<1>6. TasksSound' BY DEF HandleJoin, Recv, TasksSound, RoomsInv, Gone
<1>. QED BY <1>1, <1>2, <1>3, <1>4, <1>5, <1>6, Frames DEF RoomsInv,
       HandleJoin, Recv, registry, tasks, tables

LEMMA HandleQuitInv ==
  ASSUME RoomsInv, NEW t \in Task, HandleQuit(t)
  PROVE  RoomsInv'
<1>1. TypeOK' BY DEF HandleQuit, Recv, TypeOK, RoomsInv, registry, tables
<1>2. OnlyJoinsDropped' BY DEF HandleQuit, Recv, OnlyJoinsDropped, RoomsInv
<1>3. OnlyAskedSave' BY DEF HandleQuit, Recv, OnlyAskedSave, Asked, RoomsInv,
       registry
<1>4. UsersJoined' BY DEF HandleQuit, Recv, UsersJoined, Waits, MailTrue,
       RoomsInv, Gone
<1>5. MailTrue' BY DEF HandleQuit, Recv, MailTrue, Waits, RoomsInv
<1>6. TasksSound' BY DEF HandleQuit, Recv, TasksSound, RoomsInv, Gone
<1>. QED BY <1>1, <1>2, <1>3, <1>4, <1>5, <1>6, Frames DEF RoomsInv,
       HandleQuit, Recv, registry, tasks, tables

LEMMA HandleAuthInv ==
  ASSUME RoomsInv, NEW t \in Task, HandleAuth(t)
  PROVE  RoomsInv'
<1>1. TypeOK'
  <2>1. mailbox[t][1].from \in Conn BY Received DEF RoomsInv, HandleAuth, Recv
  <2>2. conn' \in [Conn -> ConnState] BY <2>1, Moved DEF RoomsInv, HandleAuth, ConnPc
  <2>3. mailbox' \in [Task -> {<<>>} \cup {<<m>> : m \in Msg}]
    BY DEF RoomsInv, TypeOK, HandleAuth, Recv
  <2>. QED BY <2>2, <2>3 DEF RoomsInv, TypeOK, ConnState, ConnPc, HandleAuth, registry, tables
<1>2. OnlyJoinsDropped' BY DEF HandleAuth, Recv, OnlyJoinsDropped, RoomsInv
<1>3. OnlyAskedSave' BY DEF HandleAuth, Recv, OnlyAskedSave, Asked, RoomsInv,
       registry
<1>4. UsersJoined' BY DEF HandleAuth, Recv, Goto, UsersJoined, Inside, Waits,
       MailTrue, RoomsInv, Gone
<1>5. MailTrue' BY DEF HandleAuth, Recv, Goto, MailTrue, Waits, RoomsInv,
       TypeOK
<1>6. ChansKnown'
  <2>. DEFINE c == mailbox[t][1].from
  <2>1. c \in Conn BY Received DEF RoomsInv, HandleAuth, Recv
  <2>2. PICK pc \in {"joined", "authed"} : Goto(c, pc) BY DEF HandleAuth
  <2>3. conn[c].pc = "authing" BY <2>1 DEF RoomsInv, MailTrue, Waits, HandleAuth, Recv
  <2>. HIDE DEF c
  <2>4. /\ conn'[c].pc = pc /\ conn'[c].chan = conn[c].chan
        /\ \A d \in Conn \ {c} : conn'[d] = conn[d]
    BY <2>1, <2>2, Moved DEF RoomsInv, ConnPc
  <2>5. UNCHANGED <<rooms, status, board, del, readers>> BY DEF HandleAuth, registry
  <2>6. \A d \in Conn : \/ conn'[d] = conn[d]
                       \/ /\ conn[d].pc \in {"joining"} \cup Inside /\ conn'[d].pc \in Inside
                          /\ conn'[d].chan = conn[d].chan
    BY <2>2, <2>3, <2>4 DEF Inside
  <2>. QED BY <2>5, <2>6, StillKnown
<1>7. TasksSound' BY DEF HandleAuth, Recv, TasksSound, RoomsInv, Gone
<1>. QED BY <1>1, <1>2, <1>3, <1>4, <1>5, <1>6, <1>7, Frames DEF RoomsInv,
       HandleAuth, Recv, Goto, registry, tasks, tables

(* What a flush leaves, whether its statements fail or not.                *)
LEMMA FlushTables ==
  ASSUME RoomsInv, NEW t \in Task, Flush(t)
  PROVE  /\ saved' \subseteq accepted /\ failed' \subseteq accepted
         /\ saved \subseteq saved' /\ failed \subseteq failed'
         /\ board[t] \in exists => {board[t]} \X unsaved[t] \subseteq saved' \cup failed'
<1>1. saved \subseteq accepted /\ failed \subseteq accepted BY DEF RoomsInv, TypeOK
<1>2. {board[t]} \X unsaved[t] \subseteq accepted BY DEF RoomsInv, TasksSound
<1>3. CASE /\ board[t] \in exists
           /\ saved' = saved \cup ({board[t]} \X unsaved[t]) /\ UNCHANGED failed
  BY <1>1, <1>2, <1>3
<1>4. CASE board[t] \notin exists /\ UNCHANGED <<saved, failed>> BY <1>1, <1>4
<1>5. CASE \E lost \in SUBSET unsaved[t] :
             /\ saved' = saved \cup ({board[t]} \X (unsaved[t] \ lost))
             /\ failed' = failed \cup ({board[t]} \X lost)
  BY <1>1, <1>2, <1>5
<1>. QED BY <1>3, <1>4, <1>5 DEF Flush

LEMMA HandlePushInv ==
  ASSUME RoomsInv, NEW t \in Task, HandlePush(t)
  PROVE  RoomsInv'
<1>1. TypeOK'
  <2>. DEFINE e == mailbox[t][1].edit
  <2>1. e \in Edit BY Received DEF RoomsInv, HandlePush, Recv
  <2>2. board[t] \in Board BY DEF RoomsInv, TasksSound, Gone, HandlePush, Recv
  <2>3. mailbox' \in [Task -> {<<>>} \cup {<<m>> : m \in Msg}]
    BY DEF RoomsInv, TypeOK, HandlePush, Recv
  <2>4. unsaved' \in [Task -> SUBSET Edit] BY <2>1 DEF RoomsInv, TypeOK, HandlePush
  <2>5. saved' \subseteq accepted /\ failed' \subseteq accepted
    BY FlushTables DEF RoomsInv, TypeOK, HandlePush
  <2>6. accepted' = accepted \cup {<<board[t], e>>} BY DEF HandlePush
  <2>. HIDE DEF e
  <2>. QED BY <2>1, <2>2, <2>3, <2>4, <2>5, <2>6 DEF RoomsInv, TypeOK, HandlePush, registry
<1>2. OnlyJoinsDropped' BY DEF HandlePush, Recv, OnlyJoinsDropped, RoomsInv
<1>3. OnlyAskedSave' BY DEF HandlePush, Recv, OnlyAskedSave, Asked, RoomsInv,
       registry
<1>4. UsersJoined' BY DEF HandlePush, Recv, UsersJoined, Waits, RoomsInv, Gone
<1>5. MailTrue' BY DEF HandlePush, Recv, MailTrue, Waits, RoomsInv
<1>6. TasksSound' BY DEF HandlePush, Recv, TasksSound, RoomsInv, TypeOK, Gone
<1>. QED BY <1>1, <1>2, <1>3, <1>4, <1>5, <1>6, Frames DEF RoomsInv,
       HandlePush, Recv, registry, tasks, tables

LEMMA HandleHasUsersInv ==
  ASSUME RoomsInv, NEW t \in Task, HandleHasUsers(t)
  PROVE  RoomsInv'
<1>1. TypeOK' BY SMTT(20) DEF HandleHasUsers, Recv, Answer, TypeOK, Status, RoomsInv,
       registry, tables
<1>2. RegistryLive' BY RoomsAssumption DEF HandleHasUsers, Recv, RegistryLive,
       OnlyAskedSave, Asked, RoomsInv, registry
<1>3. OnlyJoinsDropped' BY DEF HandleHasUsers, Recv, OnlyJoinsDropped,
       RoomsInv, TypeOK
<1>4. LockHeld' BY DEF HandleHasUsers, Answer, LockHeld, NoCycle, RoomsInv,
       TypeOK, registry
<1>5. CycleFollows' BY RoomsAssumption DEF HandleHasUsers, Recv, Answer,
       CycleFollows, OnlyAskedSave, Asked, LockHeld, RoomsInv, TypeOK,
       registry
<1>6. OnlyAskedSave' BY RoomsAssumption DEF HandleHasUsers, Recv, Answer,
       OnlyAskedSave, Asked, CycleFollows, LockHeld, RoomsInv, TypeOK,
       registry
<1>7. UsersJoined' BY DEF HandleHasUsers, Recv, UsersJoined, Waits, RoomsInv,
       TypeOK, Gone
<1>8. MailTrue' BY DEF HandleHasUsers, Recv, MailTrue, Waits, RoomsInv
<1>9. ChansKnown' BY DEF HandleHasUsers, Recv, ChansKnown, OnlyAskedSave,
       Asked, Registered, RoomsInv, TypeOK, registry
<1>10. TasksSound' BY DEF HandleHasUsers, Recv, TasksSound, RoomsInv, TypeOK,
       Gone
<1>. QED BY <1>1, <1>2, <1>3, <1>4, <1>5, <1>6, <1>7, <1>8, <1>9, <1>10,
       Frames DEF RoomsInv, HandleHasUsers, Recv, Answer, registry, tasks,
       tables

LEMMA FinishSaveInv ==
  ASSUME RoomsInv, NEW t \in Task, FinishSave(t)
  PROVE  RoomsInv'
<1>a. PICK b \in Board : rooms[b] = t /\ cleanup.answer[b] = "asked"
  BY DEF FinishSave, RoomsInv, OnlyAskedSave, Asked
<1>b. writer = cleaner /\ rooms[b] # None /\ b \in DOMAIN cleanup.answer /\ board[t] = b
  <2>1. writer = cleaner BY DEF FinishSave, RoomsInv, OnlyAskedSave, Asked
  <2>2. rooms[b] # None BY <1>a, RoomsAssumption
  <2>3. board[t] = b BY <1>a, <2>1, <2>2 DEF FinishSave, RoomsInv, CycleFollows
  <2>. QED BY <2>1, <2>2, <2>3 DEF RoomsInv, LockHeld
<1>c. /\ DOMAIN cleanup' = {"pc", "answer"} /\ cleanup'.pc = cleanup.pc
      /\ cleanup'.answer = [cleanup.answer EXCEPT ![b] = "unused"]
  BY <1>b DEF FinishSave, Answer, RoomsInv, TypeOK
<1>d. /\ cleanup'.answer[b] = "unused" /\ DOMAIN cleanup'.answer = DOMAIN cleanup.answer
      /\ \A x \in Board \ {b} : cleanup'.answer[x] = cleanup.answer[x]
  BY <1>b, <1>c DEF RoomsInv, TypeOK, LockHeld
<1>e. /\ status'[t] = "ended" /\ mailbox'[t] = <<>>
      /\ \A u \in Task \ {t} : /\ status'[u] = status[u] /\ board'[u] = board[u]
                               /\ mailbox'[u] = mailbox[u]
      /\ UNCHANGED <<rooms, writer>>
  BY DEF FinishSave, End, RoomsInv, TypeOK, registry
<1>1. TypeOK'
  <2>1. /\ status' \in [Task -> Status] /\ board' \in [Task -> Board \cup {None}]
        /\ mailbox' \in [Task -> {<<>>} \cup {<<m>> : m \in Msg}]
        /\ users' \in [Task -> SUBSET Conn] /\ unsaved' \in [Task -> SUBSET Edit]
    BY DEF RoomsInv, TypeOK, FinishSave, End, Status
  <2>2. saved' \subseteq accepted /\ failed' \subseteq accepted
    BY FlushTables DEF FinishSave
  <2>3. /\ DOMAIN cleanup' = {"pc", "answer"} /\ cleanup'.pc = cleanup.pc
        /\ cleanup'.answer \in [DOMAIN cleanup'.answer -> {"unasked", "asked", "used", "unused", "gone"}]
    BY DEF RoomsInv, TypeOK, FinishSave, Answer
  <2>. QED BY <2>1, <2>2, <2>3 DEF RoomsInv, TypeOK, FinishSave, registry
<1>2. RegistryLive' BY DEF FinishSave, End, RegistryLive, RoomsInv, registry
<1>3. OnlyJoinsDropped' BY DEF FinishSave, End, OnlyJoinsDropped, RoomsInv
<1>4. LockHeld' BY DEF FinishSave, Answer, LockHeld, NoCycle, RoomsInv,
       registry
<1>5. CycleFollows'
  <2>1. ASSUME NEW x \in Board, rooms[x] # None, x # b
        PROVE  rooms[x] \in Task \ {t}
    <3>1. rooms[x] \in Task BY <2>1 DEF RoomsInv, TypeOK
    <3>2. rooms[x] # t
      BY <1>b, <2>1 DEF FinishSave, RoomsInv, CycleFollows
    <3>. QED BY <3>1, <3>2
  <2>. QED BY <1>a, <1>b, <1>d, <1>e, <2>1 DEF RoomsInv, CycleFollows
<1>6. OnlyAskedSave'
  <2>1. ASSUME NEW u \in Task, NEW x \in Board, rooms[x] = u, u # t
        PROVE  x # b
    BY <1>a, <2>1
  <2>. QED BY <1>b, <1>d, <1>e, <2>1 DEF RoomsInv, OnlyAskedSave, Asked
<1>7. UsersJoined' BY DEF FinishSave, End, UsersJoined, Waits, RoomsInv,
       TypeOK, Gone
<1>8. MailTrue' BY DEF FinishSave, End, MailTrue, Waits, RoomsInv
<1>9. ChansKnown' BY DEF FinishSave, End, ChansKnown, Registered, RoomsInv,
       registry
<1>10. TasksSound' BY DEF FinishSave, End, TasksSound, RoomsInv, TypeOK, Gone
<1>. QED BY <1>1, <1>2, <1>3, <1>4, <1>5, <1>6, <1>7, <1>8, <1>9, <1>10,
       Frames DEF RoomsInv, FinishSave, End, Answer, registry, tasks,
       tables

LEMMA HandleDeleteInv ==
  ASSUME RoomsInv, NEW t \in Task, HandleDelete(t)
  PROVE  RoomsInv'
<1>1. TypeOK'
  <2>. DEFINE r == mailbox[t][1].from
  <2>1. r \in Deleter BY Received DEF RoomsInv, HandleDelete, Recv
  <2>2. del' \in [Deleter -> RequestState]
    <3>1. CASE del' = [del EXCEPT ![r] = [del[r] EXCEPT !.pc = "removing", !.chan = None]]
      BY <2>1, <3>1, Requested, RequestStates DEF RoomsInv
    <3>2. CASE del' = [del EXCEPT ![r] = Resting]
      BY <2>1, <3>2, Requested, RequestStates DEF RoomsInv
    <3>. QED BY <3>1, <3>2 DEF HandleDelete
  <2>3. mailbox' \in [Task -> {<<>>} \cup {<<m>> : m \in Msg}]
    BY DEF RoomsInv, TypeOK, HandleDelete, Recv
  <2>4. exists' \subseteq exists /\ saved' \subseteq saved /\ readers' \subseteq readers
    BY DEF HandleDelete
  <2>. QED BY <2>2, <2>3, <2>4 DEF RoomsInv, TypeOK, RequestState, HandleDelete
<1>2. OnlyJoinsDropped' BY DEF HandleDelete, Recv, OnlyJoinsDropped, RoomsInv
<1>3. LockHeld' BY DEF HandleDelete, LockHeld, RoomsInv
<1>4. OnlyAskedSave' BY DEF HandleDelete, Recv, OnlyAskedSave, Asked, RoomsInv
<1>5. UsersJoined' BY DEF HandleDelete, Recv, UsersJoined, Waits, RoomsInv,
       Gone
<1>6. MailTrue'
  <2>. DEFINE r == mailbox[t][1].from
  <2>1. /\ r \in Deleter /\ mailbox[t] # <<>> /\ mailbox[t][1].kind = "delete"
        /\ mailbox'[t] = <<>> /\ \A u \in Task \ {t} : mailbox'[u] = mailbox[u]
    BY Received DEF RoomsInv, TypeOK, HandleDelete, Recv
  <2>2. \A x \in Deleter \ {r} : del'[x] = del[x]
    BY <2>1 DEF RoomsInv, TypeOK, HandleDelete
  <2>3. del[r].chan = t BY <2>1 DEF RoomsInv, MailTrue, Waits
  <2>. HIDE DEF r
  <2>4. \A u \in Task \ {t}, x \in Deleter : Waits(u, "delete", x) => x # r
    BY <2>3 DEF RoomsInv, MailTrue
  <2>5. ASSUME NEW u \in Task, NEW x \in Deleter, mailbox'[u] # <<>>,
               mailbox'[u][1].kind = "delete", mailbox'[u][1].from = x
        PROVE  del'[x].pc = "waiting" /\ del'[x].chan = u
    <3>1. u # t /\ Waits(u, "delete", x) BY <2>1, <2>5 DEF Waits
    <3>. QED BY <2>2, <2>4, <3>1 DEF RoomsInv, MailTrue
  <2>6. UNCHANGED conn BY DEF HandleDelete
  <2>. QED BY <2>1, <2>5, <2>6 DEF RoomsInv, MailTrue, Waits
<1>7. ChansKnown' BY DEF HandleDelete, Recv, ChansKnown, Resting, Registered,
       MailTrue, Waits, RoomsInv, TypeOK
<1>8. TasksSound' BY DEF HandleDelete, Recv, TasksSound, RoomsInv, Gone
<1>. QED BY <1>1, <1>2, <1>3, <1>4, <1>5, <1>6, <1>7, <1>8, Frames DEF
       RoomsInv, HandleDelete, Recv, registry, tasks, tables

LEMMA PoolTimeoutInv ==
  ASSUME RoomsInv, NEW t \in Task, PoolTimeout(t)
  PROVE  RoomsInv'
<1>1. TypeOK' BY DEF PoolTimeout, End, Recv, TypeOK, Status, RoomsInv,
       registry, tables
<1>2. RegistryLive' BY DEF PoolTimeout, End, Recv, RegistryLive, RoomsInv,
       TypeOK, registry
<1>3. OnlyJoinsDropped' BY DEF PoolTimeout, End, Recv, OnlyJoinsDropped,
       RoomsInv
<1>4. CycleFollows' BY DEF PoolTimeout, End, Recv, CycleFollows, RoomsInv,
       TypeOK, registry
<1>5. OnlyAskedSave' BY DEF PoolTimeout, End, Recv, OnlyAskedSave, Asked,
       RoomsInv, registry
<1>6. UsersJoined' BY DEF PoolTimeout, End, Recv, UsersJoined, Waits,
       RoomsInv, TypeOK, Gone
<1>7. MailTrue' BY DEF PoolTimeout, End, Recv, MailTrue, Waits, RoomsInv
<1>8. ChansKnown' BY DEF PoolTimeout, End, Recv, ChansKnown, Registered,
       RoomsInv, TypeOK, registry
<1>9. TasksSound' BY DEF PoolTimeout, End, Recv, TasksSound, RoomsInv, TypeOK,
       Gone
<1>. QED BY <1>1, <1>2, <1>3, <1>4, <1>5, <1>6, <1>7, <1>8, <1>9, Frames DEF
       RoomsInv, PoolTimeout, End, Recv, registry, tasks, tables

LEMMA AbandonInv ==
  ASSUME RoomsInv, NEW t \in Task, Abandon(t)
  PROVE  RoomsInv'
<1>1. TypeOK' BY DEF Abandon, End, TypeOK, Status, RoomsInv, registry, tables
<1>2. RegistryLive' BY DEF Abandon, End, Held, Registered, RegistryLive,
       RoomsInv, registry
<1>3. OnlyJoinsDropped' BY DEF Abandon, End, OnlyJoinsDropped, RoomsInv
<1>4. CycleFollows' BY DEF Abandon, End, Held, Registered, CycleFollows,
       RoomsInv, registry
<1>5. OnlyAskedSave' BY DEF Abandon, End, OnlyAskedSave, Asked, RoomsInv,
       registry
<1>6. UsersJoined' BY DEF Abandon, End, UsersJoined, Waits, RoomsInv, TypeOK,
       Gone
<1>7. MailTrue' BY DEF Abandon, End, MailTrue, Waits, RoomsInv
<1>8. ChansKnown' BY DEF Abandon, End, Held, Registered, ChansKnown, RoomsInv,
       registry
<1>9. TasksSound' BY DEF Abandon, End, TasksSound, RoomsInv, TypeOK, Gone
<1>. QED BY <1>1, <1>2, <1>3, <1>4, <1>5, <1>6, <1>7, <1>8, <1>9, Frames DEF
       RoomsInv, Abandon, End, registry, tasks, tables

LEMMA PanicInv ==
  ASSUME RoomsInv, NEW t \in Task, Panic(t)
  PROVE  RoomsInv'
<1>1. TypeOK' BY DEF Panic, End, TypeOK, Status, RoomsInv, registry, tables
<1>2. RegistryLive' BY DEF Panic, End, RegistryLive, RoomsInv, TypeOK,
       registry
<1>3. OnlyJoinsDropped' BY DEF Panic, End, OnlyJoinsDropped, RoomsInv
<1>4. CycleFollows' BY DEF Panic, End, CycleFollows, RoomsInv, TypeOK,
       registry
<1>5. OnlyAskedSave' BY DEF Panic, End, OnlyAskedSave, Asked, RoomsInv,
       registry
<1>6. UsersJoined' BY DEF Panic, End, UsersJoined, Waits, RoomsInv, TypeOK,
       Gone
<1>7. MailTrue' BY DEF Panic, End, MailTrue, Waits, RoomsInv
<1>8. ChansKnown' BY DEF Panic, End, ChansKnown, Registered, RoomsInv, TypeOK,
       registry
<1>9. TasksSound' BY DEF Panic, End, TasksSound, RoomsInv, TypeOK, Gone
<1>. QED BY <1>1, <1>2, <1>3, <1>4, <1>5, <1>6, <1>7, <1>8, <1>9, Frames DEF
       RoomsInv, Panic, End, registry, tasks, tables

LEMMA TakeClientInv ==
  ASSUME RoomsInv, NEW r \in Deleter, NEW b \in Board, TakeClient(r, b)
  PROVE  RoomsInv'
<1>1. TypeOK'
  <2>1. del' \in [Deleter -> RequestState]
    BY Requested, RequestStates DEF RoomsInv, TakeClient
  <2>. QED BY <2>1 DEF RoomsInv, TypeOK, RequestState, TakeClient, registry, tasks, tables
<1>2. MailTrue' BY RoomsAssumption DEF TakeClient, MailTrue, ChansKnown,
       Inside, Offline, Waits, TasksSound, Resting, Msg, RoomsInv, TypeOK,
       Gone, registry, tasks, tables
<1>3. ChansKnown' BY RoomsAssumption DEF TakeClient, ChansKnown, Inside,
       Offline, Resting, OnlyAskedSave, Asked, Registered, TasksSound,
       MailTrue, Waits, RoomsInv, TypeOK, Gone, registry, tasks, tables
<1>. QED BY <1>1, <1>2, <1>3, Frames DEF RoomsInv, TakeClient, registry,
       tasks, tables

LEMMA StartDeleteInv ==
  ASSUME RoomsInv, NEW r \in Deleter, StartDelete(r)
  PROVE  RoomsInv'
<1>1. TypeOK'
  <2>. DEFINE b == del[r].board
  <2>1. b \in Board BY DEF RoomsInv, ChansKnown, StartDelete
  <2>2. del' \in [Deleter -> RequestState] /\ readers' \subseteq Deleter
    <3>1. CASE /\ rooms[b] # None /\ readers' = readers \cup {r}
               /\ del' = [del EXCEPT ![r] = [pc |-> "sending", board |-> b, chan |-> rooms[b]]]
      <4>1. rooms[b] \in Task BY <2>1, <3>1 DEF RoomsInv, TypeOK
      <4>2. [pc |-> "sending", board |-> b, chan |-> rooms[b]] \in RequestState
        BY <2>1, <4>1, RequestStates DEF RoomsInv
      <4>3. del' \in [Deleter -> RequestState] BY <3>1, <4>2, Requested DEF RoomsInv
      <4>. QED BY <3>1, <4>3 DEF RoomsInv, TypeOK
    <3>2. CASE UNCHANGED readers /\ del' = [del EXCEPT ![r] = Resting]
      BY <3>2, Requested, RequestStates DEF RoomsInv, TypeOK
    <3>. QED BY <3>1, <3>2 DEF StartDelete
  <2>3. exists' \subseteq exists /\ saved' \subseteq saved BY DEF StartDelete
  <2>. QED BY <2>2, <2>3 DEF RoomsInv, TypeOK, RequestState, StartDelete, tasks
<1>2. LockHeld' BY RoomsAssumption DEF StartDelete, CanRead, LockHeld,
       NoCycle, RoomsInv, TypeOK, Gone, registry, tasks, tables
<1>3. MailTrue'
  <2>1. \A x \in Deleter \ {r} : del'[x] = del[x] BY DEF RoomsInv, TypeOK, StartDelete
  <2>2. UNCHANGED <<mailbox, conn>> BY DEF StartDelete, tasks
  <2>3. \A t \in Task : ~Waits(t, "delete", r) BY DEF StartDelete, RoomsInv, MailTrue
  <2>. QED BY <2>1, <2>2, <2>3 DEF RoomsInv, MailTrue, Waits
<1>4. ChansKnown' BY RoomsAssumption DEF StartDelete, CanRead, ChansKnown,
       Inside, Offline, Resting, OnlyAskedSave, Asked, Registered, TasksSound,
       MailTrue, Waits, RoomsInv, TypeOK, Gone, registry, tasks, tables
<1>. QED BY <1>1, <1>2, <1>3, <1>4, Frames DEF RoomsInv, StartDelete,
       registry, tasks, tables

LEMMA SendDeleteInv ==
  ASSUME RoomsInv, NEW r \in Deleter, SendDelete(r)
  PROVE  RoomsInv'
<1>1. TypeOK'
  <2>1. del' \in [Deleter -> RequestState]
    BY Requested, RequestStates DEF RoomsInv, SendDelete
  <2>2. del[r].chan \in Task BY DEF RoomsInv, ChansKnown, SendDelete
  <2>3. /\ mailbox' \in [Task -> {<<>>} \cup {<<m>> : m \in Msg}]
        /\ UNCHANGED <<status, board, users, unsaved>>
    BY <2>2, Sent, Messages DEF RoomsInv, SendDelete
  <2>. QED BY <2>1, <2>3 DEF RoomsInv, TypeOK, RequestState, SendDelete, registry, tables
<1>2. OnlyJoinsDropped' BY RoomsAssumption DEF SendDelete, Send,
       OnlyJoinsDropped, ChansKnown, OnlyAskedSave, LockHeld, Asked, RoomsInv
<1>3. OnlyAskedSave'
  <2>1. del[r].chan \in Task BY DEF RoomsInv, ChansKnown, SendDelete
  <2>. QED BY <2>1, SentByOthers, Messages DEF SendDelete, registry
<1>4. UsersJoined' BY DEF SendDelete, Send, UsersJoined, Waits, RoomsInv, Gone
<1>5. MailTrue' BY DEF SendDelete, Send, MailTrue, Waits, RoomsInv, TypeOK
<1>6. ChansKnown' BY DEF SendDelete, Send, ChansKnown, Registered, RoomsInv,
       registry
<1>7. TasksSound' BY DEF SendDelete, Send, TasksSound, RoomsInv, Gone
<1>. QED BY <1>1, <1>2, <1>3, <1>4, <1>5, <1>6, <1>7, Frames DEF RoomsInv,
       SendDelete, Send, registry, tasks, tables

LEMMA DeleteDroppedInv ==
  ASSUME RoomsInv, NEW r \in Deleter, DeleteDropped(r)
  PROVE  RoomsInv'
<1>1. TypeOK' BY DEF DeleteDropped, TypeOK, Resting, RoomsInv, tasks, tables
<1>2. LockHeld' BY DEF DeleteDropped, LockHeld, RoomsInv
<1>3. MailTrue' BY DEF DeleteDropped, MailTrue, Waits, TasksSound, RoomsInv,
       tasks
<1>4. ChansKnown' BY DEF DeleteDropped, ChansKnown, Resting, Registered,
       RoomsInv, TypeOK, tasks
<1>. QED BY <1>1, <1>2, <1>3, <1>4, Frames DEF RoomsInv, DeleteDropped,
       registry, tasks, tables

LEMMA RemoveRoomInv ==
  ASSUME RoomsInv, NEW r \in Deleter, RemoveRoom(r)
  PROVE  RoomsInv'
<1>1. TypeOK' BY DEF RemoveRoom, TypeOK, Resting, ChansKnown, RoomsInv, tasks
<1>2. RegistryLive' BY DEF RemoveRoom, RegistryLive, RoomsInv, tasks
<1>3. LockHeld' BY DEF RemoveRoom, CanWrite, LockHeld, NoCycle, RoomsInv
<1>4. CycleFollows' BY DEF RemoveRoom, CycleFollows, RoomsInv, tasks
<1>5. OnlyAskedSave' BY DEF RemoveRoom, CanWrite, OnlyAskedSave, Asked,
       LockHeld, NoCycle, RoomsInv, tasks
<1>6. MailTrue' BY DEF RemoveRoom, MailTrue, Waits, RoomsInv, tasks
<1>7. ChansKnown' BY RoomsAssumption DEF RemoveRoom, ChansKnown, Resting,
       Registered, RoomsInv, tasks
<1>. QED BY <1>1, <1>2, <1>3, <1>4, <1>5, <1>6, <1>7, Frames DEF RoomsInv,
       RemoveRoom, registry, tasks, tables

LEMMA StartCycleInv ==
  ASSUME RoomsInv, StartCycle
  PROVE  RoomsInv'
<1>1. TypeOK' BY DEF StartCycle, TypeOK, RoomsInv, tasks, tables
<1>2. RegistryLive' BY DEF StartCycle, RegistryLive, RoomsInv, TypeOK, tasks
<1>3. LockHeld' BY DEF StartCycle, CanWrite, LockHeld, RoomsInv
<1>4. CycleFollows'
  <2>1. \A b \in Board : rooms'[b] # None => cleanup'.answer[b] = "unasked"
    BY DEF StartCycle
  <2>. QED
    BY <2>1, RoomsAssumption DEF RoomsInv, StartCycle, CanWrite, RegistryLive, CycleFollows, tasks
<1>5. OnlyAskedSave' BY DEF StartCycle, OnlyAskedSave, Asked, LockHeld,
       RoomsInv, tasks
<1>. QED BY <1>1, <1>2, <1>3, <1>4, <1>5, Frames DEF RoomsInv, StartCycle,
       registry, tasks, tables

LEMMA AskRoomInv ==
  ASSUME RoomsInv, NEW b \in Board, AskRoom(b)
  PROVE  RoomsInv'
<1>1. TypeOK'
  <2>1. rooms[b] \in Task BY RoomsAssumption DEF RoomsInv, TypeOK, LockHeld, AskRoom, NoCycle
  <2>2. /\ mailbox' \in [Task -> {<<>>} \cup {<<m>> : m \in Msg}]
        /\ UNCHANGED <<status, board, users, unsaved>>
    <3>1. CASE Send(rooms[b], [kind |-> "has_users"])
      BY <2>1, <3>1, Sent, Messages DEF RoomsInv
    <3>2. CASE UNCHANGED tasks BY <3>2 DEF RoomsInv, TypeOK, tasks
    <3>. QED BY <3>1, <3>2 DEF AskRoom
  <2>3. /\ DOMAIN cleanup' = {"pc", "answer"} /\ cleanup'.pc = cleanup.pc
        /\ cleanup'.answer \in [DOMAIN cleanup'.answer -> {"unasked", "asked", "used", "unused", "gone"}]
    BY DEF RoomsInv, TypeOK, AskRoom
  <2>. QED BY <2>2, <2>3 DEF RoomsInv, TypeOK, AskRoom, registry, tables
<1>2. OnlyJoinsDropped' BY DEF AskRoom, Send, OnlyJoinsDropped, OnlyAskedSave,
       CycleFollows, LockHeld, Asked, RoomsInv, TypeOK, tasks
<1>3. LockHeld' BY DEF AskRoom, LockHeld, NoCycle, RoomsInv, registry
<1>4. CycleFollows' BY DEF AskRoom, Send, CycleFollows, RoomsInv, registry,
       tasks
<1>5. OnlyAskedSave' BY DEF AskRoom, Send, OnlyAskedSave, Asked, LockHeld,
       NoCycle, RoomsInv, TypeOK, registry, tasks
<1>6. UsersJoined' BY DEF AskRoom, Send, UsersJoined, Waits, MailTrue,
       RoomsInv, TypeOK, Gone, tasks
<1>7. MailTrue' BY DEF AskRoom, Send, MailTrue, Waits, RoomsInv, TypeOK, tasks
<1>8. TasksSound' BY DEF AskRoom, Send, TasksSound, RoomsInv, TypeOK, Gone,
       tasks
<1>. QED BY <1>1, <1>2, <1>3, <1>4, <1>5, <1>6, <1>7, <1>8, Frames DEF
       RoomsInv, AskRoom, Send, registry, tasks, tables

LEMMA StartCollectInv ==
  ASSUME RoomsInv, StartCollect
  PROVE  RoomsInv'
<1>1. TypeOK' BY DEF StartCollect, TypeOK, RoomsInv, registry, tasks, tables
<1>2. LockHeld' BY DEF StartCollect, LockHeld, NoCycle, RoomsInv, registry
<1>3. CycleFollows' BY DEF StartCollect, CycleFollows, RoomsInv, registry,
       tasks
<1>4. OnlyAskedSave' BY DEF StartCollect, OnlyAskedSave, Asked, RoomsInv,
       registry, tasks
<1>. QED BY <1>1, <1>2, <1>3, <1>4, Frames DEF RoomsInv, StartCollect,
       registry, tasks, tables

LEMMA AnswerDroppedInv ==
  ASSUME RoomsInv, NEW b \in Board, AnswerDropped(b)
  PROVE  RoomsInv'
<1>1. TypeOK' BY DEF AnswerDropped, TypeOK, RoomsInv, registry, tasks, tables
<1>2. LockHeld' BY DEF AnswerDropped, LockHeld, NoCycle, RoomsInv, registry
<1>3. CycleFollows' BY DEF AnswerDropped, CycleFollows, RoomsInv, Gone,
       registry, tasks
<1>4. OnlyAskedSave' BY DEF AnswerDropped, OnlyAskedSave, Asked, TasksSound,
       RoomsInv, Gone, registry, tasks
<1>. QED BY <1>1, <1>2, <1>3, <1>4, Frames DEF RoomsInv, AnswerDropped,
       registry, tasks, tables

LEMMA EndCycleInv ==
  ASSUME RoomsInv, EndCycle
  PROVE  RoomsInv'
<1>1. TypeOK' BY DEF EndCycle, TypeOK, NoCycle, RoomsInv, tasks, tables
<1>2. RegistryLive'
  <2>1. ASSUME NEW b \in Board, rooms'[b] # None
        PROVE  /\ rooms'[b] = rooms[b]
               /\ \/ status[rooms[b]] = "idle" /\ board[rooms[b]] = b
                  \/ status[rooms[b]] = "panicked"
    <3>1. writer = cleaner BY DEF EndCycle, RoomsInv, TypeOK, LockHeld, NoCycle
    <3>2. rooms[b] # None /\ rooms'[b] = rooms[b] BY <2>1 DEF EndCycle
    <3>3. b \in DOMAIN cleanup.answer BY <3>1, <3>2 DEF RoomsInv, LockHeld
    <3>4. cleanup.answer[b] = "used" BY <2>1, <3>3 DEF EndCycle
    <3>. QED BY <3>1, <3>2, <3>4 DEF RoomsInv, CycleFollows
  <2>. QED BY <2>1 DEF EndCycle, RegistryLive, tasks
<1>3. LockHeld' BY DEF EndCycle, LockHeld, NoCycle, RoomsInv, TypeOK
<1>4. CycleFollows' BY DEF EndCycle, CycleFollows, LockHeld, RoomsInv, TypeOK,
       tasks
<1>5. OnlyAskedSave' BY RoomsAssumption DEF EndCycle, OnlyAskedSave, Asked,
       LockHeld, RoomsInv, tasks
<1>6. ChansKnown' BY RoomsAssumption DEF EndCycle, ChansKnown, Registered,
       RoomsInv, tasks
<1>. QED BY <1>1, <1>2, <1>3, <1>4, <1>5, <1>6, Frames DEF RoomsInv, EndCycle,
       registry, tasks, tables

LEMMA ShutdownInv ==
  ASSUME RoomsInv, Shutdown
  PROVE  RoomsInv'
<1>1. TypeOK' BY DEF Shutdown, TypeOK, Status, Offline, Resting, NoCycle,
       RoomsInv, tables
<1>2. RegistryLive' BY DEF Shutdown, RegistryLive
<1>3. OnlyJoinsDropped' BY DEF Shutdown, OnlyJoinsDropped
<1>4. LockHeld' BY DEF Shutdown, CanRead, LockHeld, NoCycle, RoomsInv
<1>5. CycleFollows' BY DEF Shutdown, CycleFollows
<1>6. OnlyAskedSave' BY DEF Shutdown, OnlyAskedSave
<1>7. UsersJoined' BY DEF Shutdown, UsersJoined, Gone
<1>8. MailTrue' BY DEF Shutdown, MailTrue, Waits
<1>9. ChansKnown' BY DEF Shutdown, ChansKnown, Inside, Offline, Resting
<1>10. TasksSound' BY DEF Shutdown, TasksSound, Gone
<1>. QED BY <1>1, <1>2, <1>3, <1>4, <1>5, <1>6, <1>7, <1>8, <1>9, <1>10,
       Frames DEF RoomsInv, Shutdown, registry, tasks, tables

----------------------------------------------------------------------------
(* The invariant.                                                          *)

LEMMA InitInv == Init => RoomsInv
<1>. SUFFICES ASSUME Init PROVE RoomsInv OBVIOUS
<1>. USE RoomsAssumption DEF Init
<1>1. TypeOK BY DEF TypeOK, Status, Offline, Resting, NoCycle
<1>2. RegistryLive /\ LockHeld /\ CycleFollows BY DEF RegistryLive, LockHeld, CycleFollows, NoCycle
<1>3. OnlyJoinsDropped /\ OnlyAskedSave /\ TasksSound
  BY DEF OnlyJoinsDropped, OnlyAskedSave, TasksSound, Gone
<1>4. UsersJoined /\ MailTrue BY DEF UsersJoined, MailTrue, Waits, Gone
<1>5. ChansKnown BY DEF ChansKnown, Offline, Resting, Inside
<1>. QED BY <1>1, <1>2, <1>3, <1>4, <1>5 DEF RoomsInv

LEMMA NextInv == RoomsInv /\ [Next]_vars => RoomsInv'
<1>. SUFFICES ASSUME RoomsInv, [Next]_vars PROVE RoomsInv' OBVIOUS
<1>1. ASSUME NEW c \in Conn, ConnStep(c) PROVE RoomsInv'
  BY <1>1, LookupInv, LoadRoomInv, InsertRoomInv, SendJoinInv, SendAuthInv, AuthDroppedInv,
     SendPushInv, LeaveInv, SendQuitInv DEF ConnStep
<1>2. ASSUME NEW t \in Task, TaskStep(t) \/ Panic(t) PROVE RoomsInv'
  BY <1>2, HandleJoinInv, HandleQuitInv, HandleAuthInv, HandlePushInv, HandleHasUsersInv,
     FinishSaveInv, HandleDeleteInv, PoolTimeoutInv, AbandonInv, PanicInv DEF TaskStep
<1>3. ASSUME NEW r \in Deleter, DeleteStep(r) PROVE RoomsInv'
  BY <1>3, TakeClientInv, StartDeleteInv, SendDeleteInv, DeleteDroppedInv, RemoveRoomInv
     DEF DeleteStep
<1>4. ASSUME CleanupStep PROVE RoomsInv'
  BY <1>4, StartCycleInv, AskRoomInv, StartCollectInv, AnswerDroppedInv, EndCycleInv
     DEF CleanupStep
<1>5. CASE UNCHANGED vars
  <2>1. TypeOK' BY <1>5 DEF RoomsInv, TypeOK, vars
  <2>. QED BY <1>5, <2>1, Frames DEF RoomsInv, vars
<1>. QED BY <1>1, <1>2, <1>3, <1>4, <1>5, CreateRoomInv, ShutdownInv DEF Next

(* The invariant of the registry, its lock, its cleanup and the mailboxes. *)
THEOREM RoomsInvariant == Spec => []RoomsInv
BY InitInv, NextInv, PTL DEF Spec

(* A room found in the registry reads its mailbox or died of a panic, for  *)
(* any number of connections, requests and rooms (retrive_room_channel).   *)
THEOREM RegistryStaysLive == Spec => []RegistryLive
<1>1. RoomsInv => RegistryLive BY DEF RoomsInv
<1>. QED BY <1>1, RoomsInvariant, PTL

(* A room that leaves its loop drops nothing but a Join (room::task).      *)
THEOREM NothingButJoinsDropped == Spec => []OnlyJoinsDropped
<1>1. RoomsInv => OnlyJoinsDropped BY DEF RoomsInv
<1>. QED BY <1>1, RoomsInvariant, PTL

----------------------------------------------------------------------------
(* What steps may not do.                                                  *)

(* The cleanup removes no room that somebody may use (cleanup.rs).         *)
THEOREM CleanupSpares == Spec => CleanupKeepsUsed
<1>1. ASSUME RoomsInv, EndCycle, NEW b \in Board, rooms[b] # None, Live(rooms[b])
      PROVE  rooms'[b] = rooms[b]
  <2>1. writer = cleaner BY <1>1 DEF EndCycle, RoomsInv, TypeOK, LockHeld, NoCycle
  <2>2. b \in DOMAIN cleanup.answer BY <1>1, <2>1 DEF RoomsInv, LockHeld
  <2>3. cleanup.answer[b] \in {"unasked", "asked", "used"}
    BY <1>1, <2>1 DEF RoomsInv, CycleFollows, Live
  <2>4. cleanup.answer[b] = "used" BY <1>1, <2>1, <2>2, <2>3 DEF EndCycle, RoomsInv, LockHeld
  <2>. QED BY <1>1, <2>4 DEF EndCycle
<1>2. RoomsInv /\ [Next]_vars =>
        [EndCycle => \A b \in Board :
           rooms[b] # None /\ Live(rooms[b]) => rooms'[b] = rooms[b]]_vars
  BY <1>1
<1>. QED BY <1>2, RoomsInvariant, PTL DEF Spec, CleanupKeepsUsed

(* A task that goes on with what it has not saved.                         *)
GoesOn(t) == /\ status'[t] \in {"idle", "saving"} /\ board'[t] = board[t]
             /\ unsaved[t] \subseteq unsaved'[t]

LEMMA SavedStays ==
  ASSUME RoomsInv, Next, ~Shutdown, NEW p \in saved, p[1] \in exists'
  PROVE  p \in saved'
<1>1. ASSUME NEW c \in Conn, ConnStep(c) PROVE saved' = saved
  BY <1>1 DEF ConnStep, Lookup, LoadRoom, InsertRoom, SendJoin, SendAuth, AuthDropped, SendPush,
              Leave, SendQuit, tables
<1>2. ASSUME NEW t \in Task, TaskStep(t) \/ Panic(t) PROVE p \in saved'
  <2>1. CASE HandlePush(t) \/ FinishSave(t) BY <2>1, FlushTables DEF HandlePush, FinishSave
  <2>2. CASE ~(HandlePush(t) \/ FinishSave(t))
    BY <1>2, <2>2 DEF TaskStep, HandleJoin, HandleQuit, HandleAuth, HandleHasUsers,
                      HandleDelete, PoolTimeout, Abandon, Panic, tables
  <2>. QED BY <2>1, <2>2
<1>3. ASSUME NEW r \in Deleter, DeleteStep(r) PROVE p \in saved'
  BY <1>3 DEF DeleteStep, TakeClient, StartDelete, SendDelete, DeleteDropped, RemoveRoom, tables
<1>4. ASSUME CleanupStep PROVE saved' = saved
  BY <1>4 DEF CleanupStep, StartCycle, AskRoom, StartCollect, AnswerDropped, EndCycle, tables
<1>5. ASSUME NEW b \in Board, CreateRoom(b) PROVE saved' = saved BY <1>5 DEF CreateRoom
<1>. QED BY <1>1, <1>2, <1>3, <1>4, <1>5 DEF Next

LEMMA UnsavedStays ==
  ASSUME RoomsInv, Next, ~Shutdown, NEW t \in Task, Live(t), ~Died(t)
  PROVE  \/ GoesOn(t)
         \/ board[t] \in exists' => {board[t]} \X unsaved[t] \subseteq saved' \cup failed'
<1>. DEFINE Same == UNCHANGED <<status, board, unsaved>>
<1>. USE DEF Live
<1>0. Same => GoesOn(t) BY DEF GoesOn
<1>1. ASSUME NEW u \in Task, NEW b \in Board, Start(u, b) PROVE GoesOn(t)
  BY <1>1 DEF Start, Gone, GoesOn, RoomsInv, TypeOK
<1>2. ASSUME NEW c \in Conn, ConnStep(c) PROVE Same \/ GoesOn(t)
  <2>1. CASE LoadRoom(c)
    BY <1>1, <2>1 DEF LoadRoom, RoomsInv, ChansKnown, tasks
  <2>2. CASE ~LoadRoom(c)
    BY <1>2, <2>2 DEF ConnStep, Lookup, InsertRoom, SendJoin, SendAuth, AuthDropped, SendPush,
                      Leave, SendQuit, Send, Disconnect, tasks
  <2>. QED BY <2>1, <2>2
<1>3. ASSUME NEW u \in Task, NEW how \in Status, u # t, End(u, how) PROVE GoesOn(t)
  BY <1>3 DEF End, GoesOn, RoomsInv, TypeOK
<1>4. ASSUME NEW u \in Task, HandlePush(u)
      PROVE  \/ GoesOn(t)
             \/ board[t] \in exists' => {board[t]} \X unsaved[t] \subseteq saved' \cup failed'
  <2>1. CASE u # t BY <1>4, <2>1 DEF HandlePush, GoesOn, RoomsInv, TypeOK
  <2>2. CASE u = t BY <1>4, <2>2, FlushTables DEF HandlePush, GoesOn, RoomsInv, TypeOK
  <2>. QED BY <2>1, <2>2
<1>5. ASSUME NEW u \in Task, FinishSave(u)
      PROVE  \/ GoesOn(t)
             \/ board[t] \in exists' => {board[t]} \X unsaved[t] \subseteq saved' \cup failed'
  <2>1. CASE u # t BY <1>3, <1>5, <2>1 DEF FinishSave, Status
  <2>2. CASE u = t BY <1>5, <2>2, FlushTables DEF FinishSave
  <2>. QED BY <2>1, <2>2
<1>6. ASSUME NEW u \in Task, HandleHasUsers(u) PROVE GoesOn(t)
  BY <1>6 DEF HandleHasUsers, GoesOn, RoomsInv, TypeOK
<1>7. ASSUME NEW u \in Task, Died(u) PROVE GoesOn(t)
  BY <1>3, <1>7 DEF Died, Abandon, PoolTimeout, Panic, Status
<1>8. ASSUME NEW u \in Task, HandleJoin(u) \/ HandleQuit(u) \/ HandleAuth(u) \/ HandleDelete(u)
      PROVE  Same
  BY <1>8 DEF HandleJoin, HandleQuit, HandleAuth, HandleDelete
<1>9. ASSUME NEW r \in Deleter, DeleteStep(r) PROVE Same
  BY <1>9 DEF DeleteStep, TakeClient, StartDelete, SendDelete, DeleteDropped, RemoveRoom, Send,
              tasks
<1>10. ASSUME CleanupStep PROVE Same
  BY <1>10 DEF CleanupStep, StartCycle, AskRoom, StartCollect, AnswerDropped, EndCycle, Send, tasks
<1>11. ASSUME NEW b \in Board, CreateRoom(b) PROVE GoesOn(t) BY <1>1, <1>11 DEF CreateRoom
<1>. QED BY <1>0, <1>2, <1>4, <1>5, <1>6, <1>7, <1>8, <1>9, <1>10, <1>11 DEF Next, TaskStep, Died

(* An accepted edit is lost only by a statement that carried it and failed *)
(* (edit.rs), a panic, a task that nobody reaches, or a stop (room.rs,     *)
(* lifecycle).                                                             *)
THEOREM LossesExplained == Spec => LossExplained
<1>1. ASSUME RoomsInv, Next, ~Shutdown, NEW p \in accepted, p \in Kept, p[1] \in exists',
             p \notin failed', \A t \in Task : board[t] = p[1] => ~Died(t)
      PROVE  p \in Kept'
  <2>1. CASE p \in saved BY <1>1, <2>1, SavedStays DEF Kept
  <2>2. CASE p \notin saved
    <3>1. PICK t \in Task : Live(t) /\ p \in {board[t]} \X unsaved[t] BY <1>1, <2>2 DEF Kept
    <3>2. board[t] = p[1] BY <3>1
    <3>3. CASE GoesOn(t)
      <4>1. Live(t)' /\ p \in {board'[t]} \X unsaved'[t] BY <3>1, <3>3 DEF GoesOn, Live
      <4>. QED BY <4>1 DEF Kept
    <3>4. CASE {board[t]} \X unsaved[t] \subseteq saved' \cup failed'
      BY <1>1, <3>1, <3>4 DEF Kept
    <3>. QED BY <1>1, <3>1, <3>2, <3>3, <3>4, UnsavedStays
  <2>. QED BY <2>1, <2>2
<1>2. RoomsInv /\ [Next]_vars =>
        [\A p \in accepted : p \in Kept /\ p[1] \in exists' /\ ~(p \in Kept')
           => \/ p \in failed'
              \/ Shutdown
              \/ \E t \in Task : board[t] = p[1] /\ Died(t)]_vars
  BY <1>1
<1>. QED BY <1>2, RoomsInvariant, PTL DEF Spec, LossExplained
=============================================================================
