---------------------------- MODULE SessionProofs ----------------------------
(***************************************************************************)
(* For any number of pages, tokens and requests under way: who may edit a  *)
(* board knows it and is known to the room, the author's link is good, a   *)
(* board of the user's own is not lost, nor is the author's key.           *)
(***************************************************************************)
EXTENDS Session, TLAPS

Messages == {"pulled", "bad", "update", "quit"}

----------------------------------------------------------------------------
(* Requests and answers.                                                   *)

(* What a request asks for does not change.                                *)
SameRequest(a, c) == c.do = a.do /\ c.key = a.key /\ c.invited = a.invited

(* The fields of a request.                                                *)
LEMMA AskFields ==
  ASSUME NEW a \in Ask
  PROVE  /\ a.do \in {"create", "read", "check", "rotate", "ids"} /\ a.key \in Key
         /\ a.invited \in BOOLEAN /\ a.here \in BOOLEAN
         /\ a.answer \in {<<>>, <<FALSE>>} \cup {<<TRUE, k>> : k \in Key}
BY DEF Ask

(* A request as it is sent.                                                *)
LEMMA RequestIs ==
  ASSUME NEW do \in {"create", "read", "check", "rotate", "ids"}, NEW k \in Key, NEW i
  PROVE  /\ Request(do, k, i) \in Ask
         /\ Request(do, k, i).do = do /\ Request(do, k, i).key = k
         /\ Request(do, k, i).invited = (i # None) /\ Request(do, k, i).here = TRUE
         /\ Request(do, k, i).answer = <<>>
BY DEF Request, Ask

(* What an answer may be.                                                  *)
LEMMA Answers ==
  ASSUME NEW a \in Ask, a.answer # <<>>
  PROVE  /\ a.answer[1] = FALSE => a.answer = <<FALSE>>
         /\ a.answer[1] = TRUE => /\ a.answer = <<TRUE, a.answer[2]>>
                                  /\ a.answer[2] \in Key
         /\ a.answer[1] = TRUE \/ a.answer[1] = FALSE
<1>1. CASE a.answer = <<FALSE>> BY <1>1
<1>2. ASSUME NEW k \in Key, a.answer = <<TRUE, k>> PROVE a.answer[1] = TRUE /\ a.answer[2] = k
  BY <1>2
<1>. QED BY <1>1, <1>2, AskFields

(* An answered request.                                                    *)
LEMMA AnsweredIs ==
  ASSUME NEW a \in Ask, NEW w \in {<<>>, <<FALSE>>} \cup {<<TRUE, k>> : k \in Key}
  PROVE  /\ [a EXCEPT !.answer = w] \in Ask /\ SameRequest(a, [a EXCEPT !.answer = w])
         /\ [a EXCEPT !.answer = w].here = a.here /\ [a EXCEPT !.answer = w].answer = w
BY DEF Ask, SameRequest

(* A request whose page has gone elsewhere.                                *)
LeftFrom(as, c) == c.here = FALSE /\ \E a \in as :
  c = [a EXCEPT !.here = FALSE] /\ SameRequest(a, c) /\ c.answer = a.answer

(* Requests that were left are asked for the same and answered the same.   *)
LEMMA LeftIs ==
  ASSUME NEW as \in SUBSET Ask
  PROVE  /\ Left(as) \in SUBSET Ask
         /\ \A c \in Left(as) : LeftFrom(as, c)
         /\ \A a \in as : \E c \in Left(as) : SameRequest(a, c) /\ c.answer = a.answer
<1>1. ASSUME NEW a \in as
      PROVE  /\ [a EXCEPT !.here = FALSE] \in Ask /\ SameRequest(a, [a EXCEPT !.here = FALSE])
             /\ [a EXCEPT !.here = FALSE].here = FALSE
             /\ [a EXCEPT !.here = FALSE].answer = a.answer
  BY DEF Ask, SameRequest
<1>. QED BY <1>1 DEF Left, LeftFrom

----------------------------------------------------------------------------
(* Types.                                                                  *)

(* Tokens and keys are numbers of their own.                               *)
LEMMA Tokens ==
  ASSUME SessionAssumption
  PROVE  /\ None \in Key /\ Owner \in Key /\ Token \subseteq Key /\ Owner \notin Token
         /\ None \notin Token /\ Owner # None /\ 1 \in Token
         /\ \A k \in Token : k < MaxToken => k + 1 \in Token
BY DEF SessionAssumption, None, Owner, Key, Token

(* An array with one entry changed.                                        *)
LEMMA SetType ==
  ASSUME NEW S, NEW f \in [Page -> S], NEW p \in Page, NEW v \in S
  PROVE  /\ Set(f, p, v) \in [Page -> S] /\ Set(f, p, v)[p] = v
         /\ \A q \in Page : q # p => Set(f, p, v)[q] = f[q]
BY DEF Set

(* The program starts in a state of its type.                              *)
LEMMA InitType == ASSUME SessionAssumption PROVE Init => TypeOK
<1> SUFFICES ASSUME Init PROVE TypeOK OBVIOUS
<1>1. tabs \in BOOLEAN /\ account \subseteq Page BY DEF Init, SessionAssumption
<1>2. room \in [state : {"none", "there", "deleted"}, live : BOOLEAN, owned : BOOLEAN, co : Token]
  BY Tokens DEF Init
<1>3. storage \in [Page -> Key] /\ keys \in [Page -> Key] BY Tokens DEF Init
<1>4. asks \in [Page -> SUBSET Ask]
  <2>1. Request("ids", None, None) \in Ask BY Tokens, RequestIs
  <2>. QED BY <2>1 DEF Init, Launched
<1>. QED BY <1>1, <1>2, <1>3, <1>4, Tokens DEF Init, TypeOK

(* What a page is shown, and its connection.                               *)
ViewType ==
  /\ at \in [Page -> {"home", "new", "board"}] /\ invite \in [Page -> {None} \cup Token]
  /\ mode \in [Page -> {"local", "author", "coop", "viewer"}]
  /\ drawn \in [Page -> BOOLEAN] /\ loading \in [Page -> BOOLEAN] /\ exists \in [Page -> BOOLEAN]
WireType ==
  /\ conn \in [Page -> {"none", "connecting", "open", "lost"}]
  /\ authed \in [Page -> Key] /\ up \in [Page -> {<<>>} \cup {<<k>> : k \in Key}]
  /\ down \in [Page -> Seq(Messages)]

RoomType ==
  room \in [state : {"none", "there", "deleted"}, live : BOOLEAN, owned : BOOLEAN, co : Token]
PenType == tool \in [Page -> {"pen", "move"}] /\ link \in [Page -> Key]
StoreType == keys \in [Page -> Key] /\ storage \in [Page -> Key]
WhoType == tabs \in BOOLEAN /\ account \subseteq Page /\ user \subseteq Page
AsksType == asks \in [Page -> SUBSET Ask]
OddType == odd \subseteq Reason

(* The type of the state is that of its parts.                             *)
LEMMA TypeParts ==
  TypeOK <=> ViewType /\ WireType /\ RoomType /\ PenType /\ StoreType /\ WhoType /\ AsksType /\ OddType
BY DEF TypeOK, ViewType, WireType, RoomType, PenType, StoreType, WhoType, AsksType, OddType,
   Messages

(* A page that changes its key keeps the types of what it changes.         *)
LEMMA SetKeyType ==
  ASSUME TypeOK, SessionAssumption, NEW p \in Page, NEW k \in Key, NEW R \in SUBSET Reason,
         SetKey(p, k, R)
  PROVE  keys' \in [Page -> Key] /\ storage' \in [Page -> Key] /\ odd' \subseteq Reason
<1>1. keys' \in [Page -> Key] BY TypeParts DEF SetKey, Set, StoreType
<1>2. storage' \in [Page -> Key] BY TypeParts DEF SetKey, StoreType
<1>3. odd' \subseteq Reason BY TypeParts DEF SetKey, Blame, If, Reason, OddType
<1>. QED BY <1>1, <1>2, <1>3

(* A page that closes its connection keeps the type of the connections.    *)
LEMMA DisconnectType ==
  ASSUME TypeOK, SessionAssumption, NEW p \in Page, Disconnect(p),
         conn' \in [Page -> {"none", "connecting", "open", "lost"}]
  PROVE  WireType'
BY TypeParts, Tokens DEF Disconnect, Set, WireType

(* A page that arrives somewhere keeps the types of what it changes.       *)
LEMMA ArriveType ==
  ASSUME TypeOK, SessionAssumption, NEW p \in Page, NEW place \in {"home", "new", "board"},
         NEW i \in {None} \cup Token, NEW k \in Key, Arrive(p, place, i, k)
  PROVE  ViewType' /\ WireType'
<1>1. ViewType'
  <2>. ViewType BY TypeParts
  <2>1. ModeOf(k, i) \in {"local", "author", "coop", "viewer"} BY DEF ModeOf
  <2>2. mode' \in [Page -> {"local", "author", "coop", "viewer"}]
    BY <2>1 DEF Arrive, Set, ViewType
  <2>3. loading' \in [Page -> BOOLEAN] BY DEF Arrive, Set, ViewType
  <2>4. exists' \in [Page -> BOOLEAN] /\ drawn' \in [Page -> BOOLEAN]
    BY DEF Arrive, Set, ViewType
  <2>5. at' \in [Page -> {"home", "new", "board"}] BY DEF Arrive, Set, ViewType
  <2>6. invite' \in [Page -> {None} \cup Token] BY DEF Arrive, Set, ViewType
  <2>. QED BY <2>2, <2>3, <2>4, <2>5, <2>6 DEF ViewType
<1>2. conn' \in [Page -> {"none", "connecting", "open", "lost"}]
  BY TypeParts DEF Arrive, Set, WireType
<1>. QED BY <1>1, <1>2, DisconnectType DEF Arrive

(* A page that is done with a request keeps the types of what it changes.  *)
LEMMA DoneType ==
  ASSUME TypeOK, SessionAssumption, NEW p \in Page, NEW a \in asks[p], NEW k \in Key, Done(p, a, k)
  PROVE  ViewType' /\ WireType' /\ asks' \in [Page -> SUBSET Ask]
<1>1. Rest(p, a) \subseteq Ask BY TypeParts DEF Rest, AsksType
<1>2. CASE a.invited
  <2>1. Left(Rest(p, a)) \in SUBSET Ask BY <1>1, LeftIs
  <2>. QED BY <1>2, <2>1, ArriveType, Tokens, TypeParts DEF Done, Set, AsksType
<1>3. CASE ~a.invited
  <2>1. ViewType /\ WireType /\ asks \in [Page -> SUBSET Ask] BY TypeParts DEF AsksType
  <2>2. asks' = Set(asks, p, Rest(p, a)) /\ UNCHANGED <<at, invite, exists, drawn, mode, loading>>
    BY <1>3 DEF Done
  <2>3. UNCHANGED wire BY <1>3 DEF Done
  <2>4. ViewType' BY <2>1, <2>2 DEF ViewType
  <2>5. WireType' BY <2>1, <2>3 DEF WireType, wire
  <2>6. asks' \in [Page -> SUBSET Ask] BY <2>1, <2>2, <1>1 DEF Set
  <2>. QED BY <2>4, <2>5, <2>6
<1>. QED BY <1>2, <1>3

(* A request that is answered is still one.                                *)
LEMMA ServedType ==
  ASSUME TypeOK, NEW p \in Page, NEW a \in asks[p],
         NEW w \in {<<>>, <<FALSE>>} \cup {<<TRUE, k>> : k \in Key}, Served(p, a, w)
  PROVE  asks' \in [Page -> SUBSET Ask]
<1>1. a \in Ask BY TypeParts DEF AsksType
<1>2. [a EXCEPT !.answer = w] \in Ask BY <1>1, AnsweredIs
<1>. QED BY <1>2, TypeParts DEF Served, Set, AsksType

(* The same, in the parts of the type.                                     *)
LEMMA SetKeyTypes ==
  ASSUME TypeOK, SessionAssumption, NEW p \in Page, NEW k \in Key, NEW R, R \subseteq Reason,
         SetKey(p, k, R)
  PROVE  StoreType' /\ OddType'
BY SetKeyType DEF StoreType, OddType

(* A request that is sent is one.                                          *)
LEMMA SendType ==
  ASSUME TypeOK, NEW p \in Page, NEW b \in Ask, Send(p, b)
  PROVE  AsksType'
<1>1. asks[p] \cup {b} \in SUBSET Ask BY TypeParts DEF AsksType
<1>. QED BY <1>1, TypeParts DEF Send, Set, AsksType

(* A message to all users of the room is one.                              *)
LEMMA TellType ==
  ASSUME TypeOK, NEW msg \in Messages
  PROVE  Tell(msg) \in [Page -> Seq(Messages)]
BY TypeParts DEF WireType, Tell

(* The token a page sends when its connection opens.                       *)
FirstToken(p) ==
  CASE mode[p] = "author" -> keys[p] [] mode[p] = "coop" -> IdToCheck(p) [] OTHER -> None

(* The token is the author's key, the invitation or a co-editor's key.     *)
LEMMA FirstTokenIs ==
  ASSUME TypeOK, SessionAssumption, NEW p \in Page
  PROVE  /\ FirstToken(p) \in Key
         /\ mode[p] = "author" => FirstToken(p) = keys[p]
         /\ mode[p] = "coop" => FirstToken(p) = IdToCheck(p)
         /\ mode[p] \notin {"author", "coop"} => FirstToken(p) = None
<1>1. keys[p] \in Key /\ IdToCheck(p) \in Key
  BY TypeParts, Tokens DEF StoreType, ViewType, IdToCheck
<1>2. CASE mode[p] = "author" BY <1>1, <1>2 DEF FirstToken
<1>3. CASE mode[p] = "coop" BY <1>1, <1>3 DEF FirstToken
<1>4. CASE mode[p] \notin {"author", "coop"} BY <1>4, Tokens DEF FirstToken
<1>. QED BY <1>2, <1>3, <1>4

(* What is sent when the connection opens.                                 *)
LEMMA OpenSends ==
  ASSUME NEW p \in Page, Open(p)
  PROVE  /\ up' = Set(up, p, IF There THEN <<FirstToken(p)>> ELSE <<>>)
         /\ mode[p] = "viewer" => link' = Set(link, p, None) /\ tool' = Set(tool, p, "move") /\ UNCHANGED asks
         /\ mode[p] # "viewer" =>
              /\ Send(p, Request(IF mode[p] = "author" THEN "read" ELSE "check", FirstToken(p), invite[p]))
              /\ UNCHANGED <<link, tool>>
BY Zenon DEF Open, FirstToken

(* Nobody signs in, and pages stay in one browser or not.                  *)
LEMMA Users == ASSUME [Next]_vars, WhoType PROVE WhoType' /\ tabs' = tabs
<1>1. ASSUME NEW p \in Page, Reload(p) PROVE WhoType' /\ tabs' = tabs BY <1>1 DEF Reload, WhoType
<1>2. ASSUME NEW p \in Page, NEW a \in asks[p], IdsDone(p, a) PROVE WhoType' /\ tabs' = tabs
  BY <1>2 DEF IdsDone, WhoType
<1>3. ASSUME NEW p \in Page, LogOut(p) PROVE WhoType' /\ tabs' = tabs
  <2>1. account' \subseteq account /\ user' \subseteq user /\ tabs' = tabs BY <1>3, Zenon DEF LogOut
  <2>. QED BY <2>1 DEF WhoType
<1>4. ASSUME UNCHANGED who PROVE WhoType' /\ tabs' = tabs BY <1>4 DEF who, WhoType
<1>5. \/ UNCHANGED who \/ \E p \in Page : Reload(p) \/ LogOut(p) \/ \E a \in asks[p] : IdsDone(p, a)
  BY DEF Next, vars, Go, Open, Lost, Reconnected, HandleUp, Unload, Pulled, AuthBad,
   UpdateCoEditor, Quit, ReadCoEditors, CheckCoEditor, UpdateCoEditorToken, PrivateIds,
   CreateRoom, ReadDone, CheckValid, CheckInvalid, RequestFailed, RotateDone, Created,
   CreateFailed, Draw, ChooseTool, Share, ExpireCoEditors, Delete
<1>. QED BY <1>1, <1>2, <1>3, <1>4, <1>5

(* The next state has its type if its parts have.                          *)
LEMMA TypePrimed ==
  ASSUME ViewType', WireType', RoomType', PenType', StoreType', WhoType', AsksType', OddType'
  PROVE  TypeOK'
BY DEF TypeOK, ViewType, WireType, RoomType, PenType, StoreType, WhoType, AsksType, OddType,
   Messages

(* What a page that signs its user out is blamed for.                      *)
SignedOut(p) == If("tabs", tabs /\ storage[p] = Owner) \cup If("unheard", p \in account')

(* Every step keeps the type.                                              *)
LEMMA TypeStep == ASSUME SessionAssumption, TypeOK, [Next]_vars PROVE TypeOK'
<1>. ViewType /\ WireType /\ RoomType /\ PenType /\ StoreType /\ WhoType /\ AsksType /\ OddType
  BY TypeParts
<1>0. WhoType' BY Users
<1>1. ASSUME NEW p \in Page, NEW place \in {"home", "new", "board"},
             NEW i \in {None} \cup Token, Go(p, place, i) PROVE TypeOK'
  <2>1. RoomType' /\ PenType' /\ StoreType'
    BY <1>1 DEF Go, RoomType, PenType, StoreType
  <2>2. AsksType'
    <3>1. Left(asks[p]) \in SUBSET Ask BY LeftIs DEF AsksType
    <3>. QED BY <1>1, <3>1 DEF Go, AsksType, Set
  <2>3. ViewType' /\ WireType'
    BY <1>1, ArriveType, Tokens DEF Go, StoreType
  <2>4. OddType'
    BY <1>1 DEF Go, Blame, If, Reason, OddType
  <2>. QED BY <2>1, <2>2, <2>3, <2>4, <1>0, TypePrimed
<1>2. ASSUME NEW p \in Page, Reload(p) PROVE TypeOK'
  <2>1. RoomType' /\ OddType'
    BY <1>2 DEF Reload, RoomType, OddType
  <2>2. ViewType'
    BY <1>2 DEF Reload, ViewType, Set, GiveUp
  <2>3. WireType'
    BY <1>2, DisconnectType DEF Reload, WireType, Set
  <2>4. PenType'
    BY <1>2, Tokens DEF Reload, PenType, Set
  <2>5. StoreType'
    BY <1>2 DEF Reload, StoreType, Set
  <2>6. AsksType'
    <3>1. Request("ids", None, None) \in Ask BY RequestIs, Tokens
    <3>2. Launched(p) \in SUBSET Ask BY <3>1 DEF Launched
    <3>. QED BY <1>2, <3>2 DEF Reload, AsksType, Set
  <2>. QED BY <2>1, <2>2, <2>3, <2>4, <2>5, <2>6, <1>0, TypePrimed
<1>3. ASSUME NEW p \in Page, Open(p) PROVE TypeOK'
  <2>1. StoreType' /\ OddType'
    BY <1>3 DEF Open, StoreType, OddType
  <2>2. ViewType'
    BY <1>3 DEF Open, ViewType, Set, GiveUp
  <2>3. WireType'
    <3>1. conn' \in [Page -> {"none", "connecting", "open", "lost"}]
      BY <1>3 DEF Open, WireType, Set
    <3>2. up' \in [Page -> {<<>>} \cup {<<k>> : k \in Key}]
      BY <1>3, OpenSends, FirstTokenIs DEF WireType, Set
    <3>. QED BY <1>3, <3>1, <3>2 DEF Open, WireType
  <2>4. RoomType'
    BY <1>3 DEF Open, RoomType, There
  <2>5. PenType'
    BY <1>3, OpenSends, Tokens DEF PenType, Set
  <2>6. AsksType'
    <3>1. Request(IF mode[p] = "author" THEN "read" ELSE "check", FirstToken(p), invite[p]) \in Ask
      BY FirstTokenIs, RequestIs
    <3>. QED BY <1>3, <3>1, OpenSends, SendType DEF AsksType
  <2>. QED BY <2>1, <2>2, <2>3, <2>4, <2>5, <2>6, <1>0, TypePrimed
<1>4. ASSUME NEW p \in Page, Lost(p) PROVE TypeOK'
  <2>1. RoomType' /\ PenType' /\ StoreType' /\ AsksType' /\ OddType'
    BY <1>4 DEF Lost, RoomType, PenType, StoreType, AsksType, OddType
  <2>2. ViewType'
    <3>1. UNCHANGED <<at, invite, mode, drawn>> /\ loading' = [loading EXCEPT ![p] = TRUE]
      BY <1>4 DEF Lost, Set
    <3>2. PICK e \in {exists[p], FALSE} : exists' = [exists EXCEPT ![p] = e]
      BY <1>4 DEF Lost, Set
    <3>3. exists' \in [Page -> BOOLEAN] BY <3>2 DEF ViewType
    <3>4. loading' \in [Page -> BOOLEAN] BY <3>1 DEF ViewType
    <3>. QED BY <3>1, <3>3, <3>4 DEF ViewType
  <2>3. WireType'
    BY <1>4, DisconnectType DEF Lost, WireType, Set
  <2>. QED BY <2>1, <2>2, <2>3, <1>0, TypePrimed
<1>5. ASSUME NEW p \in Page, Reconnected(p) PROVE TypeOK'
  <2>1. PenType' /\ StoreType' /\ AsksType'
    BY <1>5 DEF Reconnected, PenType, StoreType, AsksType
  <2>2. ViewType'
    BY <1>5 DEF Reconnected, ViewType, Set, GiveUp
  <2>3. WireType'
    BY <1>5 DEF Reconnected, WireType, Msg, Set, Disconnect
  <2>4. RoomType'
    BY <1>5 DEF Reconnected, RoomType
  <2>5. OddType'
    BY <1>5 DEF Reconnected, OddType, Blame, If, Reason, SetKey, GiveUp, Late
  <2>. QED BY <2>1, <2>2, <2>3, <2>4, <2>5, <1>0, TypePrimed
<1>6. ASSUME NEW p \in Page, HandleUp(p) PROVE TypeOK'
  <2>1. ViewType' /\ RoomType' /\ PenType' /\ StoreType' /\ AsksType' /\ OddType'
    BY <1>6 DEF HandleUp, view, ViewType, RoomType, PenType, StoreType, AsksType, OddType
  <2>2. WireType'
    <3>1. authed' \in [Page -> Key] /\ up' \in [Page -> {<<>>} \cup {<<k>> : k \in Key}]
      <4>1. up[p][1] \in Key BY <1>6 DEF HandleUp, WireType
      <4>. QED BY <1>6, <4>1, Tokens DEF HandleUp, WireType, Set
    <3>2. down' \in [Page -> Seq(Messages)]
      <4>1. <<"pulled">> \in Seq(Messages) /\ <<"pulled", "bad">> \in Seq(Messages) BY DEF Messages
      <4>2. down[p] \in Seq(Messages) BY DEF WireType
      <4>3. down[p] \o <<"pulled">> \in Seq(Messages) /\ down[p] \o <<"pulled", "bad">> \in Seq(Messages)
        BY <4>1, <4>2
      <4>4. PICK s \in Seq(Messages) : down' = Set(down, p, s) BY <1>6, <4>3 DEF HandleUp
      <4>. QED BY <4>4 DEF WireType, Set
    <3>. QED BY <1>6, <3>1, <3>2 DEF HandleUp, WireType
  <2>. QED BY <2>1, <2>2, <1>0, TypePrimed
<1>7. ASSUME Unload PROVE TypeOK'
  <2>1. ViewType' /\ WireType' /\ PenType' /\ StoreType' /\ AsksType'
    BY <1>7 DEF Unload, view, ViewType, wire, WireType, PenType, StoreType, AsksType
  <2>2. RoomType'
    <3>1. room.co \in Token /\ room.co + 1 \in Token BY <1>7, Tokens DEF Unload, RoomType
    <3>. QED BY <1>7, <3>1 DEF Unload, RoomType
  <2>3. OddType'
    BY <1>7 DEF Unload, OddType, Blame, If, Reason, SetKey, GiveUp, Late
  <2>. QED BY <2>1, <2>2, <2>3, <1>0, TypePrimed
<1>8. ASSUME NEW p \in Page, Pulled(p) PROVE TypeOK'
  <2>1. RoomType' /\ PenType' /\ StoreType' /\ AsksType' /\ OddType'
    BY <1>8 DEF Pulled, RoomType, PenType, StoreType, AsksType, OddType
  <2>2. ViewType'
    BY <1>8 DEF Pulled, ViewType, Set, GiveUp
  <2>3. WireType'
    BY <1>8 DEF Pulled, WireType, Msg, Set, Disconnect
  <2>. QED BY <2>1, <2>2, <2>3, <1>0, TypePrimed
<1>9. ASSUME NEW p \in Page, AuthBad(p) PROVE TypeOK'
  <2>1. RoomType' /\ AsksType'
    BY <1>9 DEF AuthBad, RoomType, AsksType
  <2>2. ViewType'
    <3>1. mode' = Set(mode, p, "viewer") BY <1>9 DEF AuthBad, GiveUp
    <3>. QED BY <1>9, <3>1 DEF AuthBad, ViewType, Set
  <2>3. WireType'
    BY <1>9 DEF AuthBad, WireType, Msg, Set, Disconnect
  <2>4. PenType'
    BY <1>9 DEF AuthBad, PenType, Set, GiveUp
  <2>5. StoreType' /\ OddType'
    BY <1>9, SetKeyTypes, Tokens DEF AuthBad, GiveUp
  <2>. QED BY <2>1, <2>2, <2>3, <2>4, <2>5, <1>0, TypePrimed
<1>10. ASSUME NEW p \in Page, UpdateCoEditor(p) PROVE TypeOK'
  <2>1. RoomType' /\ AsksType'
    BY <1>10 DEF UpdateCoEditor, RoomType, AsksType
  <2>2. ViewType'
    <3>1. CASE UNCHANGED mode BY <1>10, <3>1 DEF UpdateCoEditor, ViewType
    <3>2. CASE mode' = Set(mode, p, "viewer") BY <1>10, <3>2 DEF UpdateCoEditor, ViewType, Set
    <3>. QED BY <1>10, <3>1, <3>2 DEF UpdateCoEditor, GiveUp
  <2>3. WireType'
    BY <1>10 DEF UpdateCoEditor, WireType, Msg, Set, Disconnect
  <2>4. PenType'
    <3>1. CASE UNCHANGED tool BY <1>10, <3>1 DEF UpdateCoEditor, PenType
    <3>2. CASE tool' = Set(tool, p, "move") BY <1>10, <3>2 DEF UpdateCoEditor, PenType, Set
    <3>. QED BY <1>10, <3>1, <3>2 DEF UpdateCoEditor, GiveUp
  <2>5. StoreType' /\ OddType'
    <3>1. If("crossed", Waits(p, "check")) \subseteq Reason BY DEF If, Reason
    <3>2. CASE SetKey(p, None, If("crossed", Waits(p, "check")))
      BY <3>1, <3>2, SetKeyTypes, Tokens
    <3>3. CASE Blame(If("crossed", Waits(p, "check"))) /\ UNCHANGED <<keys, storage>>
      BY <3>1, <3>3 DEF StoreType, OddType, Blame
    <3>. QED BY <1>10, <3>2, <3>3 DEF UpdateCoEditor, GiveUp
  <2>. QED BY <2>1, <2>2, <2>3, <2>4, <2>5, <1>0, TypePrimed
<1>11. ASSUME NEW p \in Page, Quit(p) PROVE TypeOK'
  <2>1. RoomType' /\ PenType' /\ StoreType' /\ AsksType' /\ OddType'
    BY <1>11 DEF Quit, RoomType, PenType, StoreType, AsksType, OddType
  <2>2. ViewType'
    BY <1>11 DEF Quit, ViewType, Set, GiveUp
  <2>3. WireType'
    BY <1>11 DEF Quit, WireType, Msg, Set, Disconnect
  <2>. QED BY <2>1, <2>2, <2>3, <1>0, TypePrimed
<1>12. ASSUME NEW p \in Page, NEW a \in asks[p], ReadCoEditors(p, a) PROVE TypeOK'
  <2>1. ViewType' /\ WireType' /\ RoomType' /\ PenType' /\ StoreType' /\ OddType'
    BY <1>12 DEF ReadCoEditors, view, ViewType, wire, WireType, RoomType, PenType, StoreType,
       OddType
  <2>2. AsksType'
    BY <1>12, ServedType, Tokens DEF ReadCoEditors, AsksType, RoomType
  <2>. QED BY <2>1, <2>2, <1>0, TypePrimed
<1>13. ASSUME NEW p \in Page, NEW a \in asks[p], CheckCoEditor(p, a) PROVE TypeOK'
  <2>1. ViewType' /\ WireType' /\ RoomType' /\ PenType' /\ StoreType' /\ OddType'
    BY <1>13 DEF CheckCoEditor, view, ViewType, wire, WireType, RoomType, PenType, StoreType,
       OddType
  <2>2. AsksType'
    BY <1>13, ServedType, Tokens DEF CheckCoEditor, AsksType, RoomType
  <2>. QED BY <2>1, <2>2, <1>0, TypePrimed
<1>14. ASSUME NEW p \in Page, NEW a \in asks[p], UpdateCoEditorToken(p, a) PROVE TypeOK'
  <2>1. ViewType' /\ PenType' /\ StoreType'
    BY <1>14 DEF UpdateCoEditorToken, view, ViewType, PenType, StoreType
  <2>2. AsksType'
    BY <1>14, ServedType, Tokens DEF UpdateCoEditorToken, AsksType, RoomType
  <2>3. RoomType'
    <3>1. CASE UNCHANGED room BY <3>1 DEF RoomType
    <3>2. CASE room.co < MaxToken /\ room' = [room EXCEPT !.co = room.co + 1]
      <4>1. room.co \in Token /\ room.co + 1 \in Token BY <3>2, Tokens DEF RoomType
      <4>. QED BY <3>2, <4>1 DEF RoomType
    <3>. QED BY <1>14, <3>1, <3>2 DEF UpdateCoEditorToken
  <2>4. WireType'
    <3>1. CASE UNCHANGED down BY <1>14, <3>1 DEF UpdateCoEditorToken, WireType
    <3>2. CASE down' = Tell("update")
      BY <1>14, <3>2, TellType DEF UpdateCoEditorToken, WireType, Messages
    <3>. QED BY <1>14, <3>1, <3>2 DEF UpdateCoEditorToken
  <2>5. OddType'
    BY <1>14 DEF UpdateCoEditorToken, OddType, Blame, If, Reason, SetKey, GiveUp, Late
  <2>. QED BY <2>1, <2>2, <2>3, <2>4, <2>5, <1>0, TypePrimed
<1>15. ASSUME NEW p \in Page, NEW a \in asks[p], PrivateIds(p, a) PROVE TypeOK'
  <2>1. ViewType' /\ WireType' /\ RoomType' /\ PenType' /\ StoreType' /\ OddType'
    BY <1>15 DEF PrivateIds, view, ViewType, wire, WireType, RoomType, PenType, StoreType, OddType
  <2>2. AsksType'
    BY <1>15, ServedType, Tokens DEF PrivateIds, AsksType, RoomType
  <2>. QED BY <2>1, <2>2, <1>0, TypePrimed
<1>16. ASSUME NEW p \in Page, NEW a \in asks[p], CreateRoom(p, a) PROVE TypeOK'
  <2>1. ViewType' /\ WireType' /\ PenType' /\ StoreType'
    BY <1>16 DEF CreateRoom, view, ViewType, wire, WireType, PenType, StoreType
  <2>2. AsksType'
    BY <1>16, ServedType, Tokens DEF CreateRoom, AsksType, RoomType
  <2>3. RoomType'
    <3>1. CASE UNCHANGED room BY <3>1 DEF RoomType
    <3>2. CASE room' = [room EXCEPT !.state = "there", !.live = TRUE, !.owned = p \in account]
      <4>1. (p \in account) \in BOOLEAN OBVIOUS
      <4>. QED BY <3>2, <4>1 DEF RoomType
    <3>. QED BY <1>16, <3>1, <3>2 DEF CreateRoom
  <2>4. OddType'
    BY <1>16 DEF CreateRoom, OddType, Blame, If, Reason, SetKey, GiveUp, Late
  <2>. QED BY <2>1, <2>2, <2>3, <2>4, <1>0, TypePrimed
<1>17. ASSUME NEW p \in Page, NEW a \in asks[p], ReadDone(p, a) PROVE TypeOK'
  <2>1. RoomType' /\ StoreType'
    BY <1>17 DEF ReadDone, RoomType, StoreType
  <2>2. ViewType' /\ WireType' /\ AsksType'
    <3>1. keys[p] \in Key BY DEF StoreType
    <3>2. Done(p, a, keys[p]) BY <1>17 DEF ReadDone
    <3>. QED BY <3>1, <3>2, DoneType DEF AsksType
  <2>3. PenType'
    <3>1. a.answer[2] \in Key BY <1>17, Answers DEF ReadDone, Answered, AsksType
    <3>. QED BY <1>17, <3>1 DEF ReadDone, PenType, Set
  <2>4. OddType'
    BY <1>17 DEF ReadDone, OddType, Blame, If, Reason, SetKey, GiveUp, Late
  <2>. QED BY <2>1, <2>2, <2>3, <2>4, <1>0, TypePrimed
<1>18. ASSUME NEW p \in Page, NEW a \in asks[p], CheckValid(p, a) PROVE TypeOK'
  <2>1. RoomType'
    BY <1>18 DEF CheckValid, RoomType
  <2>2. ViewType' /\ WireType' /\ AsksType'
    <3>1. a.key \in Key BY AskFields DEF AsksType
    <3>2. Done(p, a, a.key) BY <1>18 DEF CheckValid
    <3>. QED BY <3>1, <3>2, DoneType DEF AsksType
  <2>3. PenType'
    BY <1>18 DEF CheckValid, PenType, Set, GiveUp
  <2>4. StoreType' /\ OddType'
    <3>1. a.key \in Key BY AskFields DEF AsksType
    <3>2. SetKey(p, a.key, Late(a)) BY <1>18 DEF CheckValid
    <3>. QED BY <3>1, <3>2, SetKeyTypes DEF Late, If, Reason
  <2>. QED BY <2>1, <2>2, <2>3, <2>4, <1>0, TypePrimed
<1>19. ASSUME NEW p \in Page, NEW a \in asks[p], CheckInvalid(p, a) PROVE TypeOK'
  <2>1. RoomType'
    BY <1>19 DEF CheckInvalid, RoomType
  <2>2. ViewType' /\ WireType' /\ AsksType'
    <3>1. CASE a.invited
      <4>1. Done(p, a, None) BY <1>19, <3>1 DEF CheckInvalid
      <4>. QED BY <4>1, DoneType, Tokens DEF AsksType
    <3>2. CASE ~a.invited
      <4>1. ViewType'
        <5>1. mode' \in [Page -> {"local", "author", "coop", "viewer"}]
          BY <1>19, <3>2 DEF CheckInvalid, ViewType, Set
        <5>2. drawn' \in [Page -> BOOLEAN] BY <1>19, <3>2 DEF CheckInvalid, ViewType, Set
        <5>. QED BY <1>19, <3>2, <5>1, <5>2 DEF CheckInvalid, ViewType
      <4>2. WireType' BY <1>19, <3>2 DEF CheckInvalid, WireType, wire
      <4>3. AsksType' BY <1>19, <3>2 DEF CheckInvalid, AsksType, Rest, Set
      <4>. QED BY <4>1, <4>2, <4>3
    <3>. QED BY <3>1, <3>2
  <2>3. PenType'
    BY <1>19 DEF CheckInvalid, PenType, Set, GiveUp
  <2>4. StoreType' /\ OddType'
    <3>1. SetKey(p, None, Late(a)) BY <1>19 DEF CheckInvalid
    <3>. QED BY <3>1, SetKeyTypes, Tokens DEF Late, If, Reason
  <2>. QED BY <2>1, <2>2, <2>3, <2>4, <1>0, TypePrimed
<1>20. ASSUME NEW p \in Page, NEW a \in asks[p], RequestFailed(p, a) PROVE TypeOK'
  <2>1. RoomType' /\ PenType' /\ StoreType'
    BY <1>20 DEF RequestFailed, RoomType, PenType, StoreType
  <2>2. ViewType' /\ WireType' /\ AsksType'
    <3>1. CASE a.invited
      <4>1. Done(p, a, keys[p]) /\ keys[p] \in Key BY <1>20, <3>1 DEF RequestFailed, StoreType
      <4>. QED BY <4>1, DoneType DEF AsksType
    <3>2. CASE ~a.invited
      <4>1. exists' \in [Page -> BOOLEAN]
        BY <1>20, <3>2 DEF RequestFailed, NoSuchRoom, ViewType, Set
      <4>2. ViewType' BY <1>20, <3>2, <4>1 DEF RequestFailed, ViewType
      <4>3. WireType' BY <1>20, <3>2 DEF RequestFailed, WireType, wire
      <4>4. AsksType' BY <1>20, <3>2 DEF RequestFailed, AsksType, Rest, Set
      <4>. QED BY <4>2, <4>3, <4>4
    <3>. QED BY <3>1, <3>2
  <2>3. OddType'
    BY <1>20 DEF RequestFailed, OddType, Blame, If, Reason, SetKey, GiveUp, Late
  <2>. QED BY <2>1, <2>2, <2>3, <1>0, TypePrimed
<1>21. ASSUME NEW p \in Page, NEW a \in asks[p], RotateDone(p, a) PROVE TypeOK'
  <2>1. ViewType' /\ WireType' /\ RoomType' /\ StoreType'
    BY <1>21 DEF RotateDone, view, ViewType, wire, WireType, RoomType, StoreType
  <2>2. AsksType'
    BY <1>21 DEF RotateDone, AsksType, Set, Rest, Send
  <2>3. PenType'
    <3>1. CASE ~a.answer[1] BY <1>21, <3>1 DEF RotateDone, PenType
    <3>2. CASE a.answer[1]
      <4>1. a.answer[2] \in Key BY <1>21, <3>2, Answers DEF RotateDone, AsksType
      <4>. QED BY <1>21, <3>2, <4>1 DEF RotateDone, PenType, Set
    <3>. QED BY <3>1, <3>2
  <2>4. OddType'
    BY <1>21 DEF RotateDone, OddType, Blame, If, Reason, SetKey, GiveUp, Late
  <2>. QED BY <2>1, <2>2, <2>3, <2>4, <1>0, TypePrimed
<1>22. ASSUME NEW p \in Page, NEW a \in asks[p], IdsDone(p, a) PROVE TypeOK'
  <2>1. ViewType' /\ WireType' /\ RoomType' /\ PenType'
    BY <1>22 DEF IdsDone, view, ViewType, wire, WireType, RoomType, PenType
  <2>2. AsksType'
    BY <1>22 DEF IdsDone, AsksType, Set, Rest, Send
  <2>3. StoreType' /\ OddType'
    <3>1. CASE SetKey(p, Owner, {}) BY <3>1, SetKeyTypes, Tokens
    <3>2. CASE UNCHANGED <<keys, storage, odd>> BY <3>2 DEF StoreType, OddType
    <3>. QED BY <1>22, <3>1, <3>2 DEF IdsDone
  <2>. QED BY <2>1, <2>2, <2>3, <1>0, TypePrimed
<1>23. ASSUME NEW p \in Page, NEW a \in asks[p], Created(p, a) PROVE TypeOK'
  <2>1. RoomType'
    BY <1>23 DEF Created, RoomType
  <2>2. ViewType' /\ WireType'
    BY <1>23, ArriveType, Tokens DEF Created, StoreType
  <2>3. AsksType'
    <3>1. Left(Rest(p, a)) \in SUBSET Ask BY LeftIs DEF Rest, AsksType
    <3>. QED BY <1>23, <3>1 DEF Created, AsksType, Set
  <2>4. PenType'
    BY <1>23 DEF Created, PenType, Set, GiveUp
  <2>5. StoreType' /\ OddType'
    <3>1. SetKey(p, Owner, Late(a)) BY <1>23 DEF Created
    <3>. QED BY <3>1, SetKeyTypes, Tokens DEF Late, If, Reason
  <2>. QED BY <2>1, <2>2, <2>3, <2>4, <2>5, <1>0, TypePrimed
<1>24. ASSUME NEW p \in Page, NEW a \in asks[p], CreateFailed(p, a) PROVE TypeOK'
  <2>1. ViewType' /\ WireType' /\ RoomType' /\ PenType' /\ StoreType' /\ OddType'
    BY <1>24 DEF CreateFailed, view, ViewType, wire, WireType, RoomType, PenType, StoreType, OddType
  <2>2. AsksType'
    BY <1>24 DEF CreateFailed, AsksType, Set, Rest, Send
  <2>. QED BY <2>1, <2>2, <1>0, TypePrimed
<1>25. ASSUME NEW p \in Page, Draw(p) PROVE TypeOK'
  <2>1. WireType' /\ RoomType' /\ PenType' /\ AsksType'
    BY <1>25 DEF Draw, wire, WireType, RoomType, PenType, AsksType
  <2>2. ViewType'
    BY <1>25 DEF Draw, ViewType, Set, GiveUp
  <2>3. StoreType' /\ OddType'
    <3>1. keys[p] \in Key /\ SetKey(p, keys[p], {}) BY <1>25 DEF Draw, StoreType
    <3>. QED BY <3>1, SetKeyTypes
  <2>. QED BY <2>1, <2>2, <2>3, <1>0, TypePrimed
<1>26. ASSUME NEW p \in Page, ChooseTool(p) PROVE TypeOK'
  <2>1. ViewType' /\ WireType' /\ RoomType' /\ StoreType' /\ AsksType' /\ OddType'
    BY <1>26 DEF ChooseTool, view, ViewType, wire, WireType, RoomType, StoreType, AsksType, OddType
  <2>2. PenType'
    BY <1>26 DEF ChooseTool, PenType, Set, GiveUp
  <2>. QED BY <2>1, <2>2, <1>0, TypePrimed
<1>27. ASSUME NEW p \in Page, Share(p) PROVE TypeOK'
  <2>1. WireType' /\ RoomType' /\ PenType' /\ StoreType' /\ OddType'
    BY <1>27 DEF Share, wire, WireType, RoomType, PenType, StoreType, OddType
  <2>2. ViewType'
    BY <1>27 DEF Share, ViewType, Set, GiveUp
  <2>3. AsksType'
    <3>1. Request("create", None, None) \in Ask BY RequestIs, Tokens
    <3>. QED BY <1>27, <3>1, SendType DEF Share
  <2>. QED BY <2>1, <2>2, <2>3, <1>0, TypePrimed
<1>28. ASSUME NEW p \in Page, ExpireCoEditors(p) PROVE TypeOK'
  <2>1. ViewType' /\ WireType' /\ RoomType' /\ PenType' /\ StoreType' /\ OddType'
    BY <1>28 DEF ExpireCoEditors, view, ViewType, wire, WireType, RoomType, PenType, StoreType,
       OddType
  <2>2. AsksType'
    <3>1. keys[p] \in Key BY DEF StoreType
    <3>2. Request("rotate", keys[p], None) \in Ask BY <3>1, RequestIs
    <3>. QED BY <1>28, <3>2, SendType DEF ExpireCoEditors
  <2>. QED BY <2>1, <2>2, <1>0, TypePrimed
<1>29. ASSUME NEW p \in Page, Delete(p) PROVE TypeOK'
  <2>1. ViewType' /\ PenType' /\ StoreType' /\ AsksType' /\ OddType'
    BY <1>29 DEF Delete, view, ViewType, PenType, StoreType, AsksType, OddType
  <2>2. RoomType'
    BY <1>29 DEF Delete, RoomType
  <2>3. WireType'
    BY <1>29, TellType DEF Delete, WireType, Messages
  <2>. QED BY <2>1, <2>2, <2>3, <1>0, TypePrimed
<1>30. ASSUME NEW p \in Page, LogOut(p) PROVE TypeOK'
  <2>1. SetKey(p, None, SignedOut(p)) /\ Arrive(p, "home", None, None)
    BY <1>30 DEF LogOut, SignedOut
  <2>2. RoomType' /\ PenType' BY <1>30 DEF LogOut, RoomType, PenType
  <2>3. AsksType'
    <3>1. Left(asks[p]) \in SUBSET Ask BY LeftIs DEF AsksType
    <3>. QED BY <1>30, <3>1 DEF LogOut, AsksType, Set
  <2>4. ViewType' /\ WireType' BY <2>1, ArriveType, Tokens
  <2>5. SignedOut(p) \in SUBSET Reason BY DEF SignedOut, If, Reason
  <2>6. StoreType' /\ OddType' BY <2>1, <2>5, SetKeyTypes, Tokens
  <2>. QED BY <2>2, <2>3, <2>4, <2>6, <1>0, TypePrimed
<1>40. CASE UNCHANGED vars
  BY <1>40 DEF vars, view, wire, who, ViewType, WireType, RoomType, PenType, StoreType, AsksType,
     OddType, WhoType, TypeOK, Messages
<1>. QED BY <1>1, <1>2, <1>3, <1>4, <1>5, <1>6, <1>7, <1>8, <1>9, <1>10, <1>11, <1>12, <1>13,
            <1>14, <1>15, <1>16, <1>17, <1>18, <1>19, <1>20, <1>21, <1>22, <1>23, <1>24, <1>25,
            <1>26, <1>27, <1>28, <1>29, <1>30, <1>40 DEF Next

----------------------------------------------------------------------------
(* The invariant.  What happened to the pages (odd) ends some promises.    *)

Free(reasons) == odd \cap reasons = {}
Keys == 0 .. room.co \cup {Owner}
Valid(a) == a.answer # <<>> /\ a.answer[1] /\ a.answer[2] # None
Hopeful(a) == a.do = "check" /\ a.here /\ (Valid(a) \/ (a.answer = <<>> /\ a.key = room.co))
Ours(a) == a.here /\ a.do \in {"read", "check"}

Says(s, m) == \E i \in DOMAIN s : s[i] = m
Warned(s) == \A i \in DOMAIN s : s[i] = "bad" => \E j \in 1 .. i - 1 : s[j] = "update"

(* Only a page that is at the board is connected, or was; it is connected  *)
(* to a room, and knows no keys that were never given.                     *)
Wired(p) ==
  /\ conn[p] # "none" <=> at[p] = "board"
  /\ conn[p] # "open" => up[p] = <<>> /\ down[p] = <<>>
  /\ conn[p] = "open" /\ There => room.live
  /\ conn[p] # "none" => room.state # "none"
  /\ invite[p] # None => at[p] = "board"
  /\ invite[p] <= room.co
  /\ drawn[p] => at[p] = "new"
  /\ keys[p] \in Keys /\ storage[p] \in Keys
  /\ up[p] # <<>> => up[p][1] \in Keys

(* A request whose page has not gone elsewhere is about what the page      *)
(* shows; the check of a token and its Auth are about the same token.      *)
Fits(p, a) ==
  /\ Ours(a) => conn[p] \in {"open", "lost"} /\ (a.invited <=> invite[p] # None)
  /\ a.do = "create" /\ a.here => at[p] = "new" /\ loading[p] /\ ~drawn[p]
  /\ a.do = "create" /\ a.answer = <<FALSE>> => "failed" \in odd
  /\ a.do = "create" /\ a.answer \notin {<<>>, <<FALSE>>} => room.state # "none"
  /\ a.do \in {"read", "check"} => room.state # "none"
  /\ a.do = "check" => a.key \in Keys /\ (Valid(a) => a.key \in Token)
  /\ a.do = "check" /\ a.here /\ up[p] # <<>> => up[p][1] = a.key
Asked(p) == \A a \in asks[p] : Fits(p, a)
Alone(p) == \A a, c \in asks[p] : (Ours(a) /\ Ours(c)) \/ (a.do = "rotate" /\ c.do = "rotate") => a = c

(* While an author is at the board, nothing takes the board's key away.    *)
Author(p) == Free({"late"}) =>
  /\ mode[p] # "local" <=> at[p] = "board"
  /\ mode[p] = "coop" /\ conn[p] = "connecting" => invite[p] # None \/ keys[p] # None
  /\ mode[p] = "author" =>
       /\ keys[p] = Owner
       /\ \A a \in asks[p] : a.here => a.do # "check"
       /\ up[p] # <<>> => up[p][1] = Owner
       /\ ~Says(down[p], "bad")
       /\ up[p] = <<>> /\ conn[p] = "open" /\ Free({"reconnected"}) => authed[p] = Owner

(* A page whose check may yet succeed is a co-editor's, and stays one      *)
(* until it hears that the token is void.                                  *)
Trusting(p) ==
  /\ mode[p] = "coop" /\ Warned(down[p])
  /\ up[p] # <<>> => up[p][1] = room.co \/ Says(down[p], "update")
Pen(p) == Free({"crossed", "late", "reconnected"}) /\ conn[p] = "open" =>
  /\ mode[p] = "viewer" => tool[p] = "move"
  /\ (\E a \in asks[p] : Hopeful(a)) => Trusting(p)

(* Who edits is authenticated, or is on the way to be, or to be told not.  *)
Editor(p) == Free({"late", "reconnected"}) /\ conn[p] = "open" /\ mode[p] \in {"author", "coop"} =>
  \/ up[p] # <<>> /\ up[p][1] # None
  \/ up[p] = <<>> /\ Grants(authed[p])
  \/ Says(down[p], "bad")
  \/ mode[p] = "coop" /\ Says(down[p], "update")

(* An author's page shows the room's token, or is about to.                *)
Undisturbed == Free({"reconnected", "restarted", "elsewhere", "crossed", "late"})
NewLink(a) == (a.do = "read" /\ a.here) \/ (a.do = "rotate" /\ a.answer = <<TRUE, room.co>>)
Linked(p) == mode[p] = "author" /\ conn[p] = "open" /\ There =>
  link[p] = room.co \/ \E a \in asks[p] : NewLink(a)
LinkRight(p, a) ==
  /\ a.do = "read" =>
       /\ mode[p] = "author" /\ a.key = Owner /\ a.answer \in {<<>>, <<FALSE>>, <<TRUE, room.co>>}
       /\ conn[p] = "open" /\ There => a.answer # <<FALSE>>
  /\ a.do = "rotate" =>
       mode[p] = "author" /\ (a.answer # <<>> /\ a.answer[1] => a.answer[2] = room.co)
LinkToCome(p) == \A a \in asks[p] : a.here => LinkRight(p, a)
Shares(p) == Undisturbed => Linked(p) /\ LinkToCome(p)

(* What is at /board is not covered, but for the answer to its sharing.    *)
Local(p) ==
  /\ Free({"late"}) /\ at[p] = "home" => ~loading[p]
  /\ Free({"failed", "hidden", "late"}) /\ at[p] = "new" => ~loading[p] \/ Waits(p, "create")

(* Who is at the board with its key is its author, and no answer to come   *)
(* makes one.                                                              *)
Known(p) == Free({"early", "late"}) /\ at[p] = "board" =>
  /\ keys[p] = Owner => mode[p] = "author"
  /\ Waits(p, "ids") => keys[p] = Owner

Good(p) ==
  /\ Wired(p) /\ Asked(p) /\ Alone(p) /\ Author(p) /\ Pen(p)
  /\ Editor(p) /\ Shares(p) /\ Local(p) /\ Known(p)

(* What a page's store has the browser's has, but for other tabs.          *)
Kept ==
  /\ \A p, q \in Page : tabs => storage[p] = storage[q]
  /\ \A p \in Page : Free({"tabs", "early", "late"}) /\ keys[p] = Owner => storage[p] = Owner

Inv == TypeOK /\ Kept /\ \A p \in Page : Good(p)

----------------------------------------------------------------------------
(* Messages on their way.                                                  *)

(* No message is on its way.                                               *)
LEMMA NothingSaid == Warned(<<>>) /\ \A m : ~Says(<<>>, m)
BY DEF Warned, Says

(* One more message is on its way.                                         *)
LEMMA AppendSays ==
  ASSUME NEW s \in Seq(Messages), NEW n \in Messages
  PROVE  /\ Append(s, n) \in Seq(Messages)
         /\ \A m : Says(Append(s, n), m) <=> Says(s, m) \/ m = n
         /\ Warned(s) /\ (n = "bad" => Says(s, "update")) => Warned(Append(s, n))
<1>1. /\ Append(s, n) \in Seq(Messages) /\ Len(Append(s, n)) = Len(s) + 1
      /\ \A i \in 1 .. Len(s) : Append(s, n)[i] = s[i]
      /\ Append(s, n)[Len(s) + 1] = n
  OBVIOUS
<1>2. Len(s) \in Nat /\ DOMAIN s = 1 .. Len(s) /\ DOMAIN Append(s, n) = 1 .. Len(s) + 1
  BY <1>1
<1>3. ASSUME NEW m PROVE Says(Append(s, n), m) <=> Says(s, m) \/ m = n
  <2>1. ASSUME Says(s, m) PROVE Says(Append(s, n), m)
    <3>1. PICK i \in 1 .. Len(s) : s[i] = m BY <1>2, <2>1 DEF Says
    <3>2. i \in 1 .. Len(s) + 1 /\ Append(s, n)[i] = m BY <1>1, <1>2, <3>1
    <3>. QED BY <1>2, <3>2 DEF Says
  <2>2. ASSUME m = n PROVE Says(Append(s, n), m)
    <3>1. Len(s) + 1 \in 1 .. Len(s) + 1 /\ Append(s, n)[Len(s) + 1] = m BY <1>1, <1>2, <2>2
    <3>. QED BY <1>2, <3>1 DEF Says
  <2>3. ASSUME Says(Append(s, n), m), m # n PROVE Says(s, m)
    <3>1. PICK i \in 1 .. Len(s) + 1 : Append(s, n)[i] = m BY <1>2, <2>3 DEF Says
    <3>2. i \in 1 .. Len(s) /\ s[i] = m BY <1>1, <1>2, <2>3, <3>1
    <3>. QED BY <1>2, <3>2 DEF Says
  <2>. QED BY <2>1, <2>2, <2>3
<1>4. ASSUME Warned(s), n = "bad" => Says(s, "update") PROVE Warned(Append(s, n))
  <2> SUFFICES ASSUME NEW i \in 1 .. Len(s) + 1, Append(s, n)[i] = "bad"
               PROVE  \E j \in 1 .. i - 1 : Append(s, n)[j] = "update"
    BY <1>2 DEF Warned
  <2>1. CASE i \in 1 .. Len(s)
    <3>1. s[i] = "bad" BY <1>1, <2>1
    <3>2. PICK j \in 1 .. i - 1 : s[j] = "update" BY <1>2, <1>4, <2>1, <3>1 DEF Warned
    <3>3. j \in 1 .. Len(s) BY <1>2, <2>1
    <3>. QED BY <1>1, <3>2, <3>3
  <2>2. CASE i = Len(s) + 1
    <3>1. Says(s, "update") BY <1>1, <1>4, <2>2
    <3>2. PICK j \in 1 .. Len(s) : s[j] = "update" BY <1>2, <3>1 DEF Says
    <3>3. j \in 1 .. i - 1 BY <1>2, <2>2
    <3>. QED BY <1>1, <3>2, <3>3
  <2>. QED BY <1>2, <2>1, <2>2
<1>. QED BY <1>1, <1>3, <1>4

(* The first message has arrived.                                          *)
LEMMA TailSays ==
  ASSUME NEW s \in Seq(Messages), s # <<>>
  PROVE  /\ Tail(s) \in Seq(Messages)
         /\ \A m : Says(s, m) <=> Head(s) = m \/ Says(Tail(s), m)
         /\ Warned(s) /\ Head(s) # "update" => Warned(Tail(s))
         /\ Warned(s) => Head(s) # "bad"
<1>1. /\ Tail(s) \in Seq(Messages) /\ Len(Tail(s)) = Len(s) - 1 /\ Len(s) \in Nat \ {0}
      /\ \A i \in 1 .. Len(s) - 1 : Tail(s)[i] = s[i + 1]
      /\ Head(s) = s[1]
  OBVIOUS
<1>2. DOMAIN s = 1 .. Len(s) /\ DOMAIN Tail(s) = 1 .. Len(s) - 1
  BY <1>1
<1>3. ASSUME NEW m PROVE Says(s, m) <=> Head(s) = m \/ Says(Tail(s), m)
  <2>1. ASSUME Head(s) = m PROVE Says(s, m)
    <3>1. 1 \in DOMAIN s /\ s[1] = m BY <1>1, <1>2, <2>1
    <3>. QED BY <3>1 DEF Says
  <2>2. ASSUME Says(Tail(s), m) PROVE Says(s, m)
    <3>1. PICK i \in 1 .. Len(s) - 1 : Tail(s)[i] = m BY <1>2, <2>2 DEF Says
    <3>2. i + 1 \in 1 .. Len(s) /\ s[i + 1] = m BY <1>1, <3>1
    <3>. QED BY <1>2, <3>2 DEF Says
  <2>3. ASSUME Says(s, m), Head(s) # m PROVE Says(Tail(s), m)
    <3>1. PICK i \in 1 .. Len(s) : s[i] = m BY <1>2, <2>3 DEF Says
    <3>2. i - 1 \in 1 .. Len(s) - 1 /\ s[(i - 1) + 1] = m BY <1>1, <2>3, <3>1
    <3>3. Tail(s)[i - 1] = m BY <1>1, <3>2
    <3>. QED BY <1>2, <3>2, <3>3 DEF Says
  <2>. QED BY <2>1, <2>2, <2>3
<1>4. ASSUME Warned(s), Head(s) # "update" PROVE Warned(Tail(s))
  <2> SUFFICES ASSUME NEW i \in 1 .. Len(s) - 1, Tail(s)[i] = "bad"
               PROVE  \E j \in 1 .. i - 1 : Tail(s)[j] = "update"
    BY <1>2 DEF Warned
  <2>1. i + 1 \in 1 .. Len(s) /\ s[i + 1] = "bad" BY <1>1
  <2>2. PICK j \in 1 .. (i + 1) - 1 : s[j] = "update" BY <1>2, <1>4, <2>1 DEF Warned
  <2>3. j - 1 \in 1 .. i - 1 /\ j - 1 \in 1 .. Len(s) - 1 /\ s[(j - 1) + 1] = "update"
    BY <1>1, <1>4, <2>2
  <2>4. Tail(s)[j - 1] = "update" BY <1>1, <2>3
  <2>. QED BY <2>3, <2>4
<1>5. ASSUME Warned(s) PROVE Head(s) # "bad"
  <2>1. 1 \in DOMAIN s /\ (s[1] = "bad" => \E j \in 1 .. 0 : s[j] = "update")
    BY <1>1, <1>2, <1>5 DEF Warned
  <2>. QED BY <1>1, <2>1
<1>. QED BY <1>1, <1>3, <1>4, <1>5

(* What HandleUp sends.                                                    *)
LEMMA ConcatIs ==
  ASSUME NEW s \in Seq(Messages)
  PROVE  /\ s \o <<"pulled">> = Append(s, "pulled")
         /\ s \o <<"pulled", "bad">> = Append(Append(s, "pulled"), "bad")
OBVIOUS

----------------------------------------------------------------------------
(* A page that does not act.                                               *)

PageTypes(p) ==
  /\ at[p] \in {"home", "new", "board"} /\ invite[p] \in {None} \cup Token
  /\ mode[p] \in {"local", "author", "coop", "viewer"} /\ tool[p] \in {"pen", "move"}
  /\ keys[p] \in Key /\ storage[p] \in Key /\ link[p] \in Key
  /\ drawn[p] \in BOOLEAN /\ loading[p] \in BOOLEAN
  /\ conn[p] \in {"none", "connecting", "open", "lost"} /\ authed[p] \in Key
  /\ up[p] \in {<<>>} \cup {<<k>> : k \in Key} /\ down[p] \in Seq(Messages)
  /\ asks[p] \subseteq Ask
RoomTypes ==
  /\ room.state \in {"none", "there", "deleted"} /\ room.live \in BOOLEAN /\ room.owned \in BOOLEAN
  /\ room.co \in Token /\ Keys = 0 .. room.co \cup {Owner}

(* What the type says of one page, and of the room.                        *)
LEMMA Typed == ASSUME TypeOK PROVE RoomTypes /\ \A p \in Page : PageTypes(p)
<1>1. RoomTypes BY TypeParts DEF RoomTypes, RoomType, Keys
<1>2. ASSUME NEW p \in Page PROVE PageTypes(p)
  BY TypeParts DEF PageTypes, ViewType, WireType, PenType, StoreType, AsksType
<1>. QED BY <1>1, <1>2

(* The same in the next state.                                             *)
LEMMA TypedNext == ASSUME TypeOK' PROVE RoomTypes' /\ \A p \in Page : PageTypes(p)'
<1>1. RoomTypes' BY DEF TypeOK, RoomTypes, Keys
<1>2. ASSUME NEW p \in Page PROVE PageTypes(p)'
  BY DEF TypeOK, PageTypes, Messages
<1>. QED BY <1>1, <1>2

(* The room does not get a new token; it is not unloaded while it is there.*)
RoomKept ==
  /\ room'.co = room.co /\ odd \subseteq odd'
  /\ room'.state = room.state \/ (room.state = "none" /\ There' /\ room'.live) \/ (There /\ ~There')
  /\ room'.state = "none" => room.state = "none"
  /\ There' /\ room.live => room'.live

Still(p) ==
  /\ at'[p] = at[p] /\ invite'[p] = invite[p] /\ mode'[p] = mode[p] /\ tool'[p] = tool[p]
  /\ link'[p] = link[p] /\ drawn'[p] = drawn[p] /\ loading'[p] = loading[p] /\ keys'[p] = keys[p]
  /\ conn'[p] = conn[p] /\ authed'[p] = authed[p] /\ up'[p] = up[p]

(* A page that does not act keeps its part of the invariant while the room *)
(* has its token.                                                          *)
LEMMA CalmStep ==
  ASSUME SessionAssumption, TypeOK, TypeOK', NEW p \in Page, Good(p), RoomKept, Still(p),
         asks'[p] = asks[p],
         down'[p] = down[p] \/ (conn[p] = "open" /\ down'[p] = Append(down[p], "quit")),
         storage'[p] = storage[p] \/ storage'[p] \in Keys
  PROVE  Good(p)'
<1>. RoomTypes /\ PageTypes(p) BY Typed
<1>1. /\ down[p] = <<>> /\ conn[p] # "open" => down'[p] = <<>>
      /\ \A m \in {"bad", "update"} : Says(down'[p], m) <=> Says(down[p], m)
      /\ Warned(down[p]) => Warned(down'[p])
  <2>1. CASE down'[p] = down[p] BY <2>1
  <2>2. CASE conn[p] = "open" /\ down'[p] = Append(down[p], "quit")
    <3>1. down[p] \in Seq(Messages) /\ "quit" \in Messages BY DEF PageTypes, Messages
    <3>. QED BY <2>2, <3>1, AppendSays
  <2>. QED BY <2>1, <2>2
<1>2. Wired(p)'
  BY <1>1 DEF Good, Wired, RoomKept, Still, There, Keys
<1>3. Asked(p)'
  <2>1. ASSUME NEW a \in asks[p] PROVE Fits(p, a)'
    <3>1. Fits(p, a) BY DEF Good, Asked
    <3>2. /\ UNCHANGED <<at[p], invite[p], drawn[p], loading[p], conn[p], up[p]>>
          /\ odd \subseteq odd' /\ (room.state # "none" => room'.state # "none")
          /\ Keys' = Keys
      BY DEF RoomKept, Still, Keys
    <3>3. /\ Ours(a) => conn'[p] \in {"open", "lost"} /\ (a.invited <=> invite'[p] # None)
          /\ a.do = "create" /\ a.here => at'[p] = "new" /\ loading'[p] /\ ~drawn'[p]
          /\ a.do = "create" /\ a.answer = <<FALSE>> => "failed" \in odd'
      BY <3>1, <3>2 DEF Fits
    <3>4. /\ a.do = "create" /\ a.answer \notin {<<>>, <<FALSE>>} => room'.state # "none"
          /\ a.do \in {"read", "check"} => room'.state # "none"
      BY <3>1, <3>2 DEF Fits
    <3>5. /\ a.do = "check" => a.key \in Keys' /\ (Valid(a) => a.key \in Token)
          /\ a.do = "check" /\ a.here /\ up'[p] # <<>> => up'[p][1] = a.key
      BY <3>1, <3>2 DEF Fits
    <3>. QED BY <3>3, <3>4, <3>5 DEF Fits, Ours, Valid
  <2>. QED BY <2>1 DEF Asked
<1>4. Alone(p)'
  BY DEF Good, Alone, Ours
<1>5. Author(p)'
  BY <1>1 DEF Good, Author, RoomKept, Still, Free
<1>6. Pen(p)'
  BY <1>1 DEF Good, Pen, Trusting, RoomKept, Still, Free, Hopeful, Valid
<1>7. Editor(p)'
  BY <1>1 DEF Good, Editor, RoomKept, Still, Free, Grants
<1>8. Shares(p)'
  <2>1. conn[p] = "open" /\ There' => There BY DEF Good, Wired, RoomKept, There
  <2>2. <<TRUE, room'.co>> = <<TRUE, room.co>> BY DEF RoomKept
  <2>3. Undisturbed' => Undisturbed BY DEF Undisturbed, Free, RoomKept
  <2>4. \A a : NewLink(a) => NewLink(a)' BY <2>2 DEF NewLink
  <2>5. Linked(p) => Linked(p)' BY <2>1, <2>4 DEF Linked, RoomKept, Still
  <2>6. LinkToCome(p) => LinkToCome(p)' BY <2>1, <2>2 DEF LinkToCome, LinkRight, RoomKept, Still
  <2>. QED BY <2>3, <2>5, <2>6 DEF Good, Shares
<1>9. Local(p)'
  BY DEF Good, Local, RoomKept, Still, Free, Waits
<1>10. Known(p)'
  BY DEF Good, Known, RoomKept, Still, Free, Waits
<1>. QED BY <1>2, <1>3, <1>4, <1>5, <1>6, <1>7, <1>8, <1>9, <1>10 DEF Good

----------------------------------------------------------------------------
(* A request is served.                                                    *)

ServedRight(a, w) ==
  /\ a.do = "read" => w = IF room.live /\ a.key = Owner THEN <<TRUE, room.co>> ELSE <<FALSE>>
  /\ a.do = "check" => w = IF room.live THEN <<TRUE, IF a.key = room.co THEN a.key ELSE None>> ELSE <<FALSE>>
  /\ a.do = "rotate" => w = <<FALSE>>
  /\ a.do = "create" => IF w = <<FALSE>> THEN "failed" \in odd' ELSE room'.state # "none"

(* A page keeps its part of the invariant when its request is served as    *)
(* the room says.                                                          *)
LEMMA ServedStep ==
  ASSUME SessionAssumption, TypeOK, TypeOK', NEW p \in Page, Good(p), RoomKept, Still(p),
         down'[p] = down[p], storage'[p] = storage[p], NEW a \in asks[p], a.answer = <<>>,
         NEW w \in {<<>>, <<FALSE>>} \cup {<<TRUE, k>> : k \in Key}, ServedRight(a, w),
         Served(p, a, w), a.do \in {"read", "check", "rotate"} => UNCHANGED room, w # <<>>
  PROVE  Good(p)'
<1>. RoomTypes /\ PageTypes(p) BY Typed
<1>. DEFINE b == [a EXCEPT !.answer = w]
<1>1. asks'[p] = (asks[p] \ {a}) \cup {b} BY TypeParts DEF Served, Set, AsksType
<1>2. a \in Ask BY TypeParts DEF AsksType
<1>3. b \in Ask /\ b.do = a.do /\ b.key = a.key /\ b.invited = a.invited /\ b.here = a.here /\ b.answer = w
  BY <1>2, AnsweredIs DEF SameRequest
<1>. HIDE DEF b
<1>13. a.answer # <<TRUE, room.co>> /\ a.answer # <<FALSE>> /\ w # <<>> OBVIOUS
<1>14. a.do = "check" /\ Valid(b) => a.key = room.co
  <2> SUFFICES ASSUME a.do = "check", w[1], w[2] # None PROVE a.key = room.co
    BY <1>3 DEF Valid
  <2>1. CASE w = <<FALSE>> BY <2>1
  <2>2. CASE room.live /\ w = <<TRUE, IF a.key = room.co THEN a.key ELSE None>>
    BY <2>2
  <2>. QED BY <2>1, <2>2 DEF ServedRight
<1>4. Wired(p)'
  BY DEF Good, Wired, RoomKept, Still, There, Keys
<1>5. Asked(p)'
  <2>1. Fits(p, b)'
    <3>1. Fits(p, a) BY DEF Good, Asked
    <3>2. a.do = "check" /\ Valid(b) => b.key \in Token
      BY <1>3, <1>14 DEF RoomTypes
    <3>. QED BY <1>3, <3>1, <3>2 DEF Fits, Ours, RoomKept, Still, Keys, ServedRight
  <2>2. ASSUME NEW c \in asks[p] PROVE Fits(p, c)'
    BY DEF Good, Asked, Fits, Ours, Valid, RoomKept, Still, Keys
  <2>. QED BY <1>1, <2>1, <2>2 DEF Asked
<1>6. Alone(p)'
  BY <1>1, <1>3 DEF Good, Alone, Ours
<1>7. Author(p)'
  BY <1>1, <1>3 DEF Good, Author, RoomKept, Still, Free
<1>8. Pen(p)'
  <2>1. Hopeful(b)' => Hopeful(a)
    BY <1>3, <1>13, <1>14 DEF Hopeful, Valid
  <2>2. \A c : Hopeful(c)' => Hopeful(c) \/ c = b BY DEF Hopeful, RoomKept, Valid
  <2>3. Trusting(p) => Trusting(p)' BY DEF Trusting, RoomKept, Still
  <2>. QED BY <1>1, <2>1, <2>2, <2>3 DEF Good, Pen, RoomKept, Still, Free
<1>9. Editor(p)'
  BY DEF Good, Editor, RoomKept, Still, Free, Grants
<1>10. Shares(p)'
  <2>1. conn[p] = "open" /\ There' => There BY DEF Good, Wired, RoomKept, There
  <2>2. <<TRUE, room'.co>> = <<TRUE, room.co>> BY DEF RoomKept
  <2>3. Undisturbed' => Undisturbed BY DEF Undisturbed, Free, RoomKept
  <2>4. Linked(p) => Linked(p)'
    <3>1. \A c : NewLink(c) => NewLink(c)' BY <2>2 DEF NewLink
    <3>2. NewLink(a) => NewLink(b)' BY <1>3, <1>13 DEF NewLink
    <3>. QED BY <1>1, <2>1, <3>1, <3>2 DEF Linked, RoomKept, Still
  <2>5. LinkToCome(p) => LinkToCome(p)'
    <3>1. LinkRight(p, a) => LinkRight(p, b)'
      <4>1. a.do = "rotate" => ~w[1]
        <5>1. a.do = "rotate" => w = <<FALSE>> BY DEF ServedRight
        <5>2. w = <<FALSE>> => ~w[1] OBVIOUS
        <5>. QED BY <5>1, <5>2
      <4>2. a.do = "read" /\ a.key = Owner => w = IF room.live THEN <<TRUE, room.co>> ELSE <<FALSE>>
        BY DEF ServedRight
      <4>3. a.do = "read" /\ conn[p] = "open" /\ There' => room.live
        BY <2>1 DEF Good, Wired
      <4>4. <<TRUE, room.co>> # <<FALSE>> OBVIOUS
      <4>. QED BY <1>3, <2>2, <4>1, <4>2, <4>3, <4>4 DEF LinkRight, RoomKept, Still
    <3>2. \A c \in asks[p] : LinkRight(p, c) => LinkRight(p, c)'
      BY <2>1, <2>2 DEF LinkRight, RoomKept, Still
    <3>. QED BY <1>1, <1>3, <3>1, <3>2 DEF LinkToCome
  <2>. QED BY <2>3, <2>4, <2>5 DEF Good, Shares
<1>11. Local(p)'
  BY <1>1, <1>3 DEF Good, Local, RoomKept, Still, Free, Waits
<1>12. Known(p)'
  BY <1>1, <1>3 DEF Good, Known, RoomKept, Still, Free, Waits
<1>. QED BY <1>4, <1>5, <1>6, <1>7, <1>8, <1>9, <1>10, <1>11, <1>12 DEF Good

(* A step that serves a request keeps the invariant of all pages.          *)
LEMMA ServedAll ==
  ASSUME SessionAssumption, Inv, TypeOK', NEW p \in Page, NEW a \in asks[p], a.answer = <<>>,
         NEW w \in {<<FALSE>>} \cup {<<TRUE, k>> : k \in Key}, ServedRight(a, w), Served(p, a, w),
         UNCHANGED <<view, keys, storage, wire>>, RoomKept,
         a.do \in {"read", "check", "rotate"} => UNCHANGED room
  PROVE  \A q \in Page : Good(q)'
<1>. TypeOK /\ \A q \in Page : Good(q) BY DEF Inv
<1> SUFFICES ASSUME NEW q \in Page PROVE Good(q)' OBVIOUS
<1>1. Still(q) /\ down'[q] = down[q] /\ storage'[q] = storage[q] BY DEF Still, view, wire
<1>2. CASE q = p
  <2>1. w # <<>>
    <3>1. <<FALSE>> # <<>> /\ \A k \in Key : <<TRUE, k>> # <<>> OBVIOUS
    <3>. QED BY <3>1
  <2>. QED BY <1>1, <1>2, <2>1, ServedStep
<1>3. CASE q # p
  <2>1. asks'[q] = asks[q] BY <1>3, TypeParts DEF Served, Set, AsksType
  <2>. QED BY <1>1, <2>1, CalmStep
<1>. QED BY <1>2, <1>3

(* The room answers which token the co-editors have.                       *)
LEMMA ReadCoEditorsStep ==
  ASSUME SessionAssumption, Inv, TypeOK', NEW p \in Page, NEW a \in asks[p], ReadCoEditors(p, a)
  PROVE  \A q \in Page : Good(q)'
<1>. DEFINE w == IF room.live /\ a.key = Owner THEN <<TRUE, room.co>> ELSE <<FALSE>>
<1>1. w \in {<<FALSE>>} \cup {<<TRUE, k>> : k \in Key} BY Typed, Tokens DEF Inv, RoomTypes
<1>2. ServedRight(a, w) BY DEF ReadCoEditors, Unserved, ServedRight
<1>3. RoomKept BY DEF ReadCoEditors, RoomKept, There
<1>. HIDE DEF w
<1>. QED BY <1>1, <1>2, <1>3, ServedAll DEF ReadCoEditors, Unserved, w

(* The room answers whether a token is the co-editors'.                    *)
LEMMA CheckCoEditorStep ==
  ASSUME SessionAssumption, Inv, TypeOK', NEW p \in Page, NEW a \in asks[p], CheckCoEditor(p, a)
  PROVE  \A q \in Page : Good(q)'
<1>. DEFINE w == IF room.live THEN <<TRUE, IF a.key = room.co THEN a.key ELSE None>> ELSE <<FALSE>>
<1>1. w \in {<<FALSE>>} \cup {<<TRUE, k>> : k \in Key} BY Typed, Tokens DEF Inv, RoomTypes
<1>2. ServedRight(a, w) BY DEF CheckCoEditor, Unserved, ServedRight
<1>3. RoomKept BY DEF CheckCoEditor, RoomKept, There
<1>. HIDE DEF w
<1>. QED BY <1>1, <1>2, <1>3, ServedAll DEF CheckCoEditor, Unserved, w

(* The server answers which keys the user has.                             *)
LEMMA PrivateIdsStep ==
  ASSUME SessionAssumption, Inv, TypeOK', NEW p \in Page, NEW a \in asks[p], PrivateIds(p, a)
  PROVE  \A q \in Page : Good(q)'
<1>. DEFINE w == <<TRUE, IF There /\ room.owned THEN Owner ELSE None>>
<1>1. w \in {<<FALSE>>} \cup {<<TRUE, k>> : k \in Key} BY Tokens
<1>2. ServedRight(a, w) BY DEF PrivateIds, Unserved, ServedRight
<1>3. RoomKept BY DEF PrivateIds, RoomKept, There
<1>. HIDE DEF w
<1>. QED BY <1>1, <1>2, <1>3, ServedAll DEF PrivateIds, Unserved, w

(* The server makes a room, or fails.                                      *)
LEMMA CreateRoomStep ==
  ASSUME SessionAssumption, Inv, TypeOK', NEW p \in Page, NEW a \in asks[p], CreateRoom(p, a)
  PROVE  \A q \in Page : Good(q)'
<1>1. PICK w \in {<<TRUE, Owner>>, <<FALSE>>} :
        Served(p, a, w) /\ IF w = <<FALSE>> THEN "failed" \in odd' ELSE room'.state # "none"
  <2>1. CASE room' = [room EXCEPT !.state = "there", !.live = TRUE, !.owned = p \in account]
             /\ Served(p, a, <<TRUE, Owner>>)
    <3>1. room'.state = "there" /\ <<TRUE, Owner>> # <<FALSE>>
      BY <2>1, TypeParts DEF Inv, RoomType
    <3>. QED BY <2>1, <3>1
  <2>2. CASE Served(p, a, <<FALSE>>) /\ Blame({"failed"})
    BY <2>2 DEF Blame
  <2>. QED BY <2>1, <2>2 DEF CreateRoom
<1>2. w \in {<<FALSE>>} \cup {<<TRUE, k>> : k \in Key} BY <1>1, Tokens
<1>3. ServedRight(a, w) BY <1>1 DEF CreateRoom, Unserved, ServedRight
<1>4. RoomKept
  <2>1. odd \subseteq odd' BY DEF CreateRoom, Blame
  <2>2. CASE UNCHANGED room BY <2>1, <2>2 DEF RoomKept, There
  <2>3. CASE room' = [room EXCEPT !.state = "there", !.live = TRUE, !.owned = p \in account]
    <3>1. room'.co = room.co /\ room'.state = "there" /\ room'.live
      BY <2>3, TypeParts DEF Inv, RoomType
    <3>2. room.state = "none" BY DEF CreateRoom
    <3>. QED BY <2>1, <3>1, <3>2 DEF RoomKept, There
  <2>. QED BY <2>2, <2>3 DEF CreateRoom
<1>. QED BY <1>1, <1>2, <1>3, <1>4, ServedAll DEF CreateRoom, Unserved

----------------------------------------------------------------------------
(* One page acts, the room keeps its token.                                *)

OnlyPage(p) == \A q \in Page \ {p} :
  /\ Still(q) /\ asks'[q] = asks[q] /\ down'[q] = down[q]
  /\ storage'[q] = storage[q] \/ storage'[q] \in Keys

(* A step of one page keeps the invariant if that page does.               *)
LEMMA Others ==
  ASSUME SessionAssumption, Inv, TypeOK', NEW p \in Page, OnlyPage(p), RoomKept, Good(p)'
  PROVE  \A q \in Page : Good(q)'
<1>1. ASSUME NEW q \in Page \ {p} PROVE Good(q)'
  BY <1>1, CalmStep DEF OnlyPage, Inv
<1>. QED BY <1>1

(* A page that arrives at a place.                                         *)
Arriving(p, place, i, k) ==
  /\ at'[p] = place /\ invite'[p] = i /\ drawn'[p] = FALSE
  /\ authed'[p] = None /\ up'[p] = <<>> /\ down'[p] = <<>>
  /\ conn'[p] = IF place = "board" THEN "connecting" ELSE "none"
  /\ place = "board" => mode'[p] = ModeOf(k, i)
  /\ place # "board" => mode'[p] = IF at[p] = "home" THEN mode[p] ELSE "local"
  /\ place = "home" => loading'[p] = FALSE
  /\ place = "new" => loading'[p] = IF at[p] = "home" THEN mode[p] # "local" ELSE loading[p]

(* A page that does not move.                                              *)
Untouched(q) ==
  /\ at'[q] = at[q] /\ invite'[q] = invite[q] /\ mode'[q] = mode[q] /\ drawn'[q] = drawn[q]
  /\ loading'[q] = loading[q] /\ conn'[q] = conn[q] /\ authed'[q] = authed[q]
  /\ up'[q] = up[q] /\ down'[q] = down[q]

(* What Arrive does to its page; the others do not move.                   *)
LEMMA ArriveIs ==
  ASSUME TypeOK, NEW p \in Page, NEW place \in {"home", "new", "board"}, NEW i, NEW k,
         Arrive(p, place, i, k)
  PROVE  /\ Arriving(p, place, i, k)
         /\ \A q \in Page \ {p} : Untouched(q)
<1>. ViewType /\ WireType BY TypeParts
<1>. DEFINE covered == CASE place = "board" -> TRUE
                         [] place = "home" -> FALSE
                         [] place = "new" -> IF at[p] = "home" THEN mode[p] # "local" ELSE loading[p]
<1>1. loading' = Set(loading, p, covered) BY Zenon DEF Arrive
<1>2. /\ place = "home" => covered = FALSE
      /\ place = "new" => covered = IF at[p] = "home" THEN mode[p] # "local" ELSE loading[p]
  OBVIOUS
<1>. HIDE DEF covered
<1>3. \A q \in Page : loading'[q] = IF q = p THEN covered ELSE loading[q]
  BY <1>1 DEF ViewType, Set
<1>4. \A q \in Page : /\ at'[q] = IF q = p THEN place ELSE at[q]
                      /\ invite'[q] = IF q = p THEN i ELSE invite[q]
                      /\ drawn'[q] = IF q = p THEN FALSE ELSE drawn[q]
  BY DEF Arrive, ViewType, Set
<1>5. \A q \in Page : /\ authed'[q] = IF q = p THEN None ELSE authed[q]
                      /\ up'[q] = IF q = p THEN <<>> ELSE up[q]
                      /\ down'[q] = IF q = p THEN <<>> ELSE down[q]
  BY DEF Arrive, Disconnect, WireType, Set
<1>6. \A q \in Page : conn'[q] = IF q = p THEN IF place = "board" THEN "connecting" ELSE "none" ELSE conn[q]
  BY DEF Arrive, WireType, Set
<1>7. \A q \in Page : mode'[q] = IF q # p THEN mode[q]
                                 ELSE IF place = "board" THEN ModeOf(k, i)
                                 ELSE IF at[p] = "home" THEN mode[p] ELSE "local"
  BY DEF Arrive, ViewType, Set
<1>. QED BY <1>2, <1>3, <1>4, <1>5, <1>6, <1>7 DEF Arriving, Untouched

(* A page that arrives somewhere has its part of the invariant: nothing    *)
(* that it waits for is about where it is.                                 *)
LEMMA ArriveStep ==
  ASSUME SessionAssumption, Inv, TypeOK', RoomKept,
         NEW p \in Page, NEW place \in {"home", "new", "board"}, NEW i \in {None} \cup Token, NEW k,
         NEW as \in SUBSET asks[p], Arriving(p, place, i, k), asks'[p] = Left(as),
         keys'[p] \in Keys, storage'[p] \in Keys,
         i <= room.co, i # None => place = "board", place = "board" => keys'[p] = k,
         place = "board" => room.state # "none",
         place = "new" => as = asks[p] /\ (at[p] # "home" /\ loading[p] => "hidden" \in odd'),
         place = "board" /\ Free({"early", "late"})' /\ (\E a \in as : a.do = "ids") => k = Owner
  PROVE  Good(p)'
<1>. /\ RoomTypes /\ PageTypes(p) BY Typed DEF Inv
<1>. Good(p) /\ TypeOK BY DEF Inv
<1>1. as \in SUBSET Ask BY DEF PageTypes
<1>2. \A c \in asks'[p] : LeftFrom(as, c)
  BY <1>1, LeftIs
<1>3. \A a \in as : \E c \in asks'[p] : SameRequest(a, c)
  BY <1>1, LeftIs
<1>4. Wired(p)'
  BY DEF Arriving, Wired, Keys, RoomKept
<1>5. Asked(p)'
  <2> SUFFICES ASSUME NEW c \in asks'[p] PROVE Fits(p, c)' BY DEF Asked
  <2>1. PICK a \in as : SameRequest(a, c) /\ c.answer = a.answer BY <1>2 DEF LeftFrom
  <2>2. Fits(p, a) /\ c.here = FALSE BY <1>2 DEF LeftFrom, Good, Asked
  <2>. QED BY <2>1, <2>2 DEF Fits, SameRequest, Ours, Valid, Keys, RoomKept
<1>6. Alone(p)'
  <2> SUFFICES ASSUME NEW c \in asks'[p], NEW d \in asks'[p], c.do = "rotate", d.do = "rotate"
               PROVE  c = d
    BY <1>2 DEF Alone, Ours, LeftFrom
  <2>1. PICK a \in as : c = [a EXCEPT !.here = FALSE] /\ SameRequest(a, c) BY <1>2 DEF LeftFrom
  <2>2. PICK b \in as : d = [b EXCEPT !.here = FALSE] /\ SameRequest(b, d) BY <1>2 DEF LeftFrom
  <2>3. a = b BY <2>1, <2>2 DEF SameRequest, Good, Alone
  <2>. QED BY <2>1, <2>2, <2>3
<1>7. Author(p)'
  <2>1. ModeOf(k, i) # "local" /\ (ModeOf(k, i) = "author" <=> k = Owner)
        /\ (ModeOf(k, i) = "coop" => k # None \/ i # None)
    BY DEF ModeOf
  <2> SUFFICES ASSUME Free({"late"})' PROVE Author(p)' BY DEF Author
  <2>2. Free({"late"}) BY DEF Free, RoomKept
  <2>3. mode'[p] # "local" <=> place = "board" BY <2>1, <2>2 DEF Arriving, Good, Author
  <2>4. CASE place = "board"
    <3>1. /\ mode'[p] = ModeOf(k, i) /\ keys'[p] = k /\ invite'[p] = i /\ at'[p] = "board"
          /\ up'[p] = <<>> /\ down'[p] = <<>> /\ conn'[p] = "connecting"
      BY <2>4 DEF Arriving
    <3>2. \A c \in asks'[p] : ~c.here BY <1>2 DEF LeftFrom
    <3>. QED BY <2>1, <3>1, <3>2, NothingSaid DEF Author
  <2>5. CASE place # "board"
    <3>1. mode'[p] = "local" /\ at'[p] # "board" BY <2>3, <2>5 DEF Arriving
    <3>. QED BY <3>1 DEF Author
  <2>. QED BY <2>4, <2>5
<1>8. Pen(p)' /\ Editor(p)'
  BY DEF Arriving, Pen, Editor
<1>9. Shares(p)'
  BY <1>2 DEF LeftFrom, Arriving, Shares, Linked, LinkToCome
<1>10. Local(p)'
  <2>1. place = "home" => ~loading'[p] BY DEF Arriving
  <2>2. ASSUME place = "new", Free({"failed", "hidden", "late"})' PROVE ~loading'[p]
    BY <2>2 DEF Arriving, Good, Author, Free, RoomKept
  <2>. QED BY <2>1, <2>2 DEF Arriving, Local
<1>11. Known(p)'
  <2>1. Waits(p, "ids")' => \E a \in as : a.do = "ids"
    <3>1. ASSUME NEW c \in asks'[p], c.do = "ids" PROVE \E a \in as : a.do = "ids"
      <4>1. PICK a \in as : SameRequest(a, c) BY <1>2 DEF LeftFrom
      <4>. QED BY <3>1, <4>1 DEF SameRequest
    <3>. QED BY <3>1 DEF Waits
  <2>2. ModeOf(Owner, i) = "author" BY DEF ModeOf
  <2>. QED BY <2>1, <2>2 DEF Arriving, Known, Free
<1>. QED BY <1>4, <1>5, <1>6, <1>7, <1>8, <1>9, <1>10, <1>11 DEF Good

(* The user follows a link.                                                *)
LEMMA GoStep ==
  ASSUME SessionAssumption, Inv, TypeOK', NEW p \in Page, NEW place \in {"home", "new", "board"},
         NEW i \in {None} \cup Token, Go(p, place, i)
  PROVE  \A q \in Page : Good(q)'
<1>. /\ TypeOK /\ Good(p) /\ RoomTypes /\ PageTypes(p) BY Typed DEF Inv
<1>1. RoomKept BY DEF Go, Blame, RoomKept, There
<1>2. /\ Arriving(p, place, i, keys[p])
      /\ \A q \in Page \ {p} : Untouched(q)
  BY ArriveIs DEF Go
<1>3. asks'[p] = Left(asks[p]) /\ \A q \in Page \ {p} : asks'[q] = asks[q]
  BY TypeParts DEF Go, Set, AsksType
<1>4. UNCHANGED <<tool, keys, storage, link>> BY DEF Go
<1>5. OnlyPage(p) BY <1>2, <1>3, <1>4 DEF OnlyPage, Still, Untouched
<1>6. Good(p)'
  <2>1. i <= room.co /\ (i # None => place = "board") BY DEF Go, RoomTypes, Token, None
  <2>2. keys'[p] \in Keys /\ storage'[p] \in Keys /\ keys'[p] = keys[p] BY <1>4 DEF Good, Wired
  <2>3. place = "new" /\ at[p] # "home" /\ loading[p] => "hidden" \in odd' BY DEF Go, Blame, If
  <2>4. place = "board" /\ Waits(p, "ids") => "early" \in odd' BY DEF Go, Blame, If
  <2>5. place = "board" /\ Free({"early", "late"})' /\ (\E a \in asks[p] : a.do = "ids") => keys[p] = Owner
    BY <2>4 DEF Free, Waits
  <2>6. place = "board" => room.state # "none" BY DEF Go
  <2>. QED BY <1>1, <1>2, <1>3, <2>1, <2>2, <2>3, <2>5, <2>6, ArriveStep
<1>. QED BY <1>1, <1>5, <1>6, Others

(* The page is loaded again.                                               *)
LEMMA ReloadStep ==
  ASSUME SessionAssumption, Inv, TypeOK', NEW p \in Page, Reload(p)
  PROVE  \A q \in Page : Good(q)'
<1>. /\ TypeOK /\ Good(p) /\ RoomTypes /\ PageTypes(p) BY Typed DEF Inv
<1>1. RoomKept BY DEF Reload, RoomKept, There
<1>2. OnlyPage(p)
  <2>1. \A q \in Page \ {p} :
          /\ at'[q] = at[q] /\ invite'[q] = invite[q] /\ mode'[q] = mode[q] /\ drawn'[q] = drawn[q]
          /\ loading'[q] = loading[q]
    BY TypeParts DEF Reload, Set, ViewType
  <2>2. \A q \in Page \ {p} :
          conn'[q] = conn[q] /\ authed'[q] = authed[q] /\ up'[q] = up[q] /\ down'[q] = down[q]
    BY TypeParts DEF Reload, Disconnect, Set, WireType
  <2>3. \A q \in Page \ {p} :
          tool'[q] = tool[q] /\ link'[q] = link[q] /\ keys'[q] = keys[q] /\ asks'[q] = asks[q]
    BY TypeParts DEF Reload, Set, PenType, StoreType, AsksType
  <2>4. UNCHANGED storage BY DEF Reload
  <2>. QED BY <2>1, <2>2, <2>3, <2>4 DEF OnlyPage, Still
<1>3. Good(p)'
  <2>1. /\ at'[p] = "home" /\ invite'[p] = None /\ mode'[p] = "local" /\ drawn'[p] = FALSE
        /\ loading'[p] = FALSE
    BY TypeParts DEF Reload, Set, ViewType
  <2>2. conn'[p] = "none" /\ up'[p] = <<>> /\ down'[p] = <<>>
    BY TypeParts DEF Reload, Disconnect, Set, WireType
  <2>3. keys'[p] = storage[p] /\ storage'[p] = storage[p] /\ asks'[p] = Launched(p)
    BY TypeParts DEF Reload, Set, PenType, StoreType, AsksType
  <2>4. \A a \in asks'[p] : a = Request("ids", None, None) /\ a.do = "ids" /\ a.answer = <<>>
    <3>1. Request("ids", None, None).do = "ids" /\ Request("ids", None, None).answer = <<>>
      BY DEF Request
    <3>. QED BY <2>3, <3>1 DEF Launched
  <2>5. Wired(p)'
    <3>1. None <= room'.co BY <1>1 DEF RoomKept, RoomTypes, Token, None
    <3>2. Keys' = Keys BY <1>1 DEF Keys, RoomKept
    <3>. QED BY <2>1, <2>2, <2>3, <3>1, <3>2 DEF Wired, Good
  <2>6. Asked(p)' /\ Alone(p)' BY <2>4 DEF Asked, Fits, Ours, Alone
  <2>7. Author(p)' BY <2>1 DEF Author
  <2>8. Pen(p)' /\ Editor(p)' BY <2>2 DEF Pen, Editor
  <2>9. Shares(p)' BY <2>2, <2>4 DEF Shares, Linked, LinkToCome, LinkRight
  <2>10. Local(p)' /\ Known(p)' BY <2>1 DEF Local, Known
  <2>. QED BY <2>5, <2>6, <2>7, <2>8, <2>9, <2>10 DEF Good
<1>. QED BY <1>1, <1>2, <1>3, Others

----------------------------------------------------------------------------
(* A request is answered.                                                  *)

(* A late answer ends what the page was promised.                          *)
LEMMA LateEndsPromises ==
  ASSUME NEW p \in Page, "late" \in odd'
  PROVE  (Author(p) /\ Pen(p) /\ Editor(p) /\ Shares(p) /\ Local(p) /\ Known(p))'
BY DEF Author, Pen, Editor, Shares, Undisturbed, Local, Known, Free

(* The page stays where it is; the answered request is gone.               *)
Staying(p, a) ==
  /\ at'[p] = at[p] /\ invite'[p] = invite[p] /\ loading'[p] = loading[p] /\ conn'[p] = conn[p]
  /\ authed'[p] = authed[p] /\ up'[p] = up[p] /\ down'[p] = down[p] /\ drawn'[p] \in {drawn[p], FALSE}
  /\ asks'[p] = asks[p] \ {a}

(* A page that stays, with one request less, keeps most of its part of the *)
(* invariant.                                                              *)
LEMMA StayStep ==
  ASSUME SessionAssumption, Inv, TypeOK', RoomKept, NEW p \in Page, NEW a \in asks[p], Staying(p,
         a),
         keys'[p] \in Keys, storage'[p] \in Keys, UNCHANGED room
  PROVE  /\ Wired(p)' /\ Asked(p)' /\ Alone(p)'
         /\ mode'[p] = mode[p] =>
              /\ keys'[p] = keys[p] => Author(p)' /\ Known(p)'
              /\ tool'[p] = tool[p] => Pen(p)'
              /\ Editor(p)'
              /\ link'[p] = link[p] /\ (a.do = "read" /\ a.here => ~There \/ conn[p] # "open")
                   /\ a.answer # <<TRUE, room.co>>
                 => Shares(p)'
         /\ (a.do = "create" => "failed" \in odd') => Local(p)'
<1>. TypeOK /\ Good(p) /\ RoomTypes /\ PageTypes(p) BY Typed DEF Inv
<1>0. Keys' = Keys BY DEF Keys
<1>1. Wired(p)'
  BY <1>0, TypedNext DEF Wired, Good, Staying, There, PageTypes
<1>2. Asked(p)'
  <2> SUFFICES ASSUME NEW c \in asks[p] PROVE Fits(p, c)' BY DEF Asked, Staying
  <2>1. Fits(p, c) BY DEF Good, Asked
  <2>. QED BY <1>0, <2>1 DEF Fits, Staying, Ours, Valid, RoomKept
<1>3. Alone(p)' BY DEF Good, Alone, Staying, Ours
<1>4. mode'[p] = mode[p] /\ keys'[p] = keys[p] => Author(p)'
  BY DEF Good, Author, Staying, Free, RoomKept
<1>5. mode'[p] = mode[p] /\ keys'[p] = keys[p] => Known(p)'
  BY DEF Good, Known, Waits, Staying, Free, RoomKept
<1>6. mode'[p] = mode[p] /\ tool'[p] = tool[p] => Pen(p)'
  BY DEF Good, Pen, Trusting, Hopeful, Valid, Staying, Free, RoomKept
<1>7. mode'[p] = mode[p] => Editor(p)'
  BY DEF Good, Editor, Grants, Staying, Free, RoomKept
<1>8. ASSUME mode'[p] = mode[p], link'[p] = link[p],
             a.do = "read" /\ a.here => ~There \/ conn[p] # "open",
             a.answer # <<TRUE, room.co>>
      PROVE  Shares(p)'
  <2>1. Undisturbed' => Undisturbed BY DEF Undisturbed, Free, RoomKept
  <2>2. Linked(p) => Linked(p)' BY <1>8 DEF Linked, NewLink, Staying, There
  <2>3. LinkToCome(p) => LinkToCome(p)' BY <1>8 DEF LinkToCome, LinkRight, Staying, There
  <2>. QED BY <2>1, <2>2, <2>3 DEF Good, Shares
<1>9. (a.do = "create" => "failed" \in odd') => Local(p)'
  BY DEF Good, Local, Waits, Staying, Free, RoomKept
<1>. QED BY <1>1, <1>2, <1>3, <1>4, <1>5, <1>6, <1>7, <1>8, <1>9

(* The board could not be shared.                                          *)
LEMMA CreateFailedStep ==
  ASSUME SessionAssumption, Inv, TypeOK', NEW p \in Page, NEW a \in asks[p], CreateFailed(p, a)
  PROVE  \A q \in Page : Good(q)'
<1>. TypeOK /\ Good(p) /\ RoomTypes /\ PageTypes(p) BY Typed DEF Inv
<1>1. RoomKept BY DEF CreateFailed, RoomKept, There
<1>2. asks'[p] = asks[p] \ {a} /\ \A q \in Page \ {p} : asks'[q] = asks[q]
  BY TypeParts DEF CreateFailed, Set, Rest, AsksType
<1>3. UNCHANGED <<view, keys, storage, wire>> BY DEF CreateFailed
<1>4. OnlyPage(p) BY <1>2, <1>3 DEF OnlyPage, Still, view, wire
<1>5. Staying(p, a) /\ mode'[p] = mode[p] /\ keys'[p] = keys[p] /\ tool'[p] = tool[p] /\ link'[p] = link[p]
  BY <1>2, <1>3 DEF Staying, view, wire
<1>6. keys'[p] \in Keys /\ storage'[p] \in Keys BY <1>3 DEF Good, Wired
<1>7. a.do = "create" /\ a.answer = <<FALSE>>
  BY Answers DEF CreateFailed, Answered, PageTypes
<1>8. "failed" \in odd' BY <1>1, <1>7 DEF Good, Asked, Fits, RoomKept
<1>9. a.answer # <<TRUE, room.co>> BY <1>7
<1>10. Good(p)'
  BY <1>1, <1>5, <1>6, <1>7, <1>8, <1>9, StayStep DEF Good, CreateFailed
<1>. QED BY <1>1, <1>4, <1>10, Others

(* A request that the page waits for finds it at the board.                *)
LEMMA OursAt ==
  ASSUME Inv, NEW p \in Page, NEW a \in asks[p], Ours(a)
  PROVE  /\ at[p] = "board" /\ conn[p] \in {"open", "lost"} /\ (a.invited <=> invite[p] # None)
         /\ a.do = "check" /\ Free({"late"}) => mode[p] # "author"
         /\ Waits(p, "ids") /\ Free({"early", "late"}) => keys[p] = Owner /\ a.do # "check"
<1>. Good(p) BY DEF Inv
<1>1. at[p] = "board" /\ conn[p] \in {"open", "lost"} /\ (a.invited <=> invite[p] # None)
  BY DEF Good, Asked, Fits, Wired
<1>2. a.do = "check" /\ Free({"late"}) => mode[p] # "author"
  BY DEF Good, Author, Ours
<1>3. Waits(p, "ids") /\ Free({"early", "late"}) => keys[p] = Owner /\ a.do # "check"
  BY <1>1, <1>2 DEF Good, Known, Free
<1>. QED BY <1>1, <1>2, <1>3

(* The invitation is taken out of the route.                               *)
LEMMA InvitedStep ==
  ASSUME SessionAssumption, Inv, TypeOK', RoomKept, NEW p \in Page, NEW a \in asks[p], NEW k,
         a.do \in {"read", "check"}, a.invited, Done(p, a, k), ~a.here => "late" \in odd',
         keys'[p] = k, k \in Keys, storage'[p] \in Keys, k = keys[p] \/ a.do = "check"
  PROVE  /\ Good(p)'
         /\ \A q \in Page \ {p} : Untouched(q) /\ asks'[q] = asks[q]
<1>. TypeOK /\ Good(p) /\ RoomTypes /\ PageTypes(p) BY Typed DEF Inv
<1>1. Arrive(p, "board", None, k) /\ asks' = Set(asks, p, Left(Rest(p, a))) BY DEF Done
<1>2. /\ Arriving(p, "board", None, k)
      /\ \A q \in Page \ {p} : Untouched(q)
  BY <1>1, ArriveIs
<1>3. asks'[p] = Left(Rest(p, a)) /\ \A q \in Page \ {p} : asks'[q] = asks[q]
  BY <1>1, TypeParts DEF Set, AsksType
<1>4. Rest(p, a) \in SUBSET asks[p] BY DEF Rest
<1>5. Free({"early", "late"})' /\ (\E c \in Rest(p, a) : c.do = "ids") => k = Owner
  <2> SUFFICES ASSUME Free({"early", "late"})', NEW c \in Rest(p, a), c.do = "ids" PROVE k = Owner
    OBVIOUS
  <2>1. Ours(a) /\ Free({"early", "late"}) BY DEF Ours, Free, RoomKept
  <2>2. Waits(p, "ids") BY <1>4 DEF Waits
  <2>. QED BY <2>1, <2>2, OursAt
<1>6. None <= room.co BY DEF RoomTypes, Token, None
<1>7. None \in {None} \cup Token OBVIOUS
<1>8. room.state # "none" BY DEF Good, Asked, Fits
<1>9. Good(p)' BY <1>2, <1>3, <1>4, <1>5, <1>6, <1>7, <1>8, ArriveStep
<1>. QED BY <1>2, <1>3, <1>9

(* The page stays, without an invitation.                                  *)
LEMMA UninvitedIs ==
  ASSUME TypeOK, NEW p \in Page, NEW a \in asks[p], NEW k, ~a.invited, Done(p, a, k)
  PROVE  /\ Staying(p, a) /\ mode'[p] = mode[p]
         /\ UNCHANGED <<at, invite, exists, drawn, wire, mode, loading>>
         /\ \A q \in Page \ {p} : asks'[q] = asks[q]
<1>1. /\ asks' = Set(asks, p, Rest(p, a))
      /\ UNCHANGED <<at, invite, exists, drawn, wire, mode, loading>>
  BY DEF Done
<1>2. asks'[p] = asks[p] \ {a} /\ \A q \in Page \ {p} : asks'[q] = asks[q]
  BY <1>1, TypeParts DEF Set, Rest, AsksType
<1>. QED BY <1>1, <1>2 DEF Staying, wire

(* The author is told the co-editors' token.                               *)
LEMMA ReadDoneStep ==
  ASSUME SessionAssumption, Inv, TypeOK', NEW p \in Page, NEW a \in asks[p], ReadDone(p, a)
  PROVE  \A q \in Page : Good(q)'
<1>. TypeOK /\ Good(p) /\ RoomTypes /\ PageTypes(p) BY Typed DEF Inv
<1>1. RoomKept BY DEF ReadDone, RoomKept, There, Blame
<1>2. UNCHANGED <<tool, keys, storage>> /\ Done(p, a, keys[p]) BY DEF ReadDone
<1>3. keys'[p] \in Keys /\ storage'[p] \in Keys /\ keys'[p] = keys[p] BY <1>2 DEF Good, Wired
<1>4. a.do = "read" /\ (~a.here => "late" \in odd')
  BY DEF ReadDone, Answered, Blame, Late, If
<1>5. link'[p] = a.answer[2] /\ \A q \in Page \ {p} : link'[q] = link[q]
  BY TypeParts DEF ReadDone, Set, PenType
<1>6. CASE a.invited
  <2>1. /\ Good(p)'
        /\ \A q \in Page \ {p} : Untouched(q) /\ asks'[q] = asks[q]
    BY <1>1, <1>2, <1>3, <1>4, <1>6, InvitedStep
  <2>2. OnlyPage(p) BY <1>2, <1>5, <2>1 DEF OnlyPage, Still, Untouched
  <2>. QED BY <1>1, <2>1, <2>2, Others
<1>7. CASE ~a.invited
  <2>1. /\ Staying(p, a) /\ mode'[p] = mode[p]
        /\ UNCHANGED <<at, invite, exists, drawn, wire, mode, loading>>
        /\ \A q \in Page \ {p} : asks'[q] = asks[q]
    BY <1>2, <1>7, UninvitedIs
  <2>2. OnlyPage(p) BY <1>2, <1>5, <2>1 DEF OnlyPage, Still, Untouched, wire
  <2>3. UNCHANGED room BY DEF ReadDone
  <2>4. /\ Wired(p)' /\ Asked(p)' /\ Alone(p)' /\ Author(p)' /\ Known(p)' /\ Editor(p)' /\ Local(p)'
        /\ tool'[p] = tool[p] => Pen(p)'
    BY <1>1, <1>3, <1>4, <2>1, <2>3, StayStep
  <2>5. Pen(p)' BY <1>2, <2>4
  <2>6. Shares(p)'
    <3> SUFFICES ASSUME Undisturbed' PROVE Linked(p)' /\ LinkToCome(p)' BY DEF Shares
    <3>1. Undisturbed /\ a.here BY <1>1, <1>4 DEF Undisturbed, Free, RoomKept
    <3>2. LinkRight(p, a) /\ a.answer # <<>> /\ a.answer[1] = TRUE
      BY <3>1 DEF Good, Shares, LinkToCome, ReadDone, Answered
    <3>3. a.answer[2] = room.co
      <4>1. a.answer # <<FALSE>>
        <5>1. a.answer = <<FALSE>> => a.answer[1] = FALSE OBVIOUS
        <5>. QED BY <3>2, <5>1
      <4>2. a.answer = <<TRUE, room.co>> BY <1>4, <3>2, <4>1 DEF LinkRight
      <4>. QED BY <4>2
    <3>4. Linked(p)' BY <1>5, <2>3, <3>3 DEF Linked
    <3>5. LinkToCome(p)' BY <2>1, <2>3, <3>1 DEF Staying, Good, Shares, LinkToCome, LinkRight, There
    <3>. QED BY <3>4, <3>5
  <2>7. Good(p)' BY <2>4, <2>5, <2>6 DEF Good
  <2>. QED BY <1>1, <2>2, <2>7, Others
<1>. QED BY <1>6, <1>7

(* The page is told that there is no room.                                 *)
LEMMA RequestFailedStep ==
  ASSUME SessionAssumption, Inv, TypeOK', NEW p \in Page, NEW a \in asks[p], RequestFailed(p, a)
  PROVE  \A q \in Page : Good(q)'
<1>. TypeOK /\ Good(p) /\ RoomTypes /\ PageTypes(p) BY Typed DEF Inv
<1>1. RoomKept BY DEF RequestFailed, RoomKept, There, Blame
<1>2. UNCHANGED <<tool, link, keys, storage, room>> BY DEF RequestFailed
<1>3. keys'[p] \in Keys /\ storage'[p] \in Keys /\ keys'[p] = keys[p] BY <1>2 DEF Good, Wired
<1>4. /\ a.do \in {"read", "check"} /\ (~a.here => "late" \in odd')
      /\ a.answer # <<>> /\ a.answer[1] = FALSE
  BY DEF RequestFailed, Answered, Blame, Late, If
<1>5. a.answer = <<FALSE>> BY <1>4, Answers DEF PageTypes
<1>6. CASE a.invited
  <2>1. Done(p, a, keys[p]) BY <1>6 DEF RequestFailed
  <2>2. /\ Good(p)'
        /\ \A q \in Page \ {p} : Untouched(q) /\ asks'[q] = asks[q]
    BY <1>1, <1>3, <1>4, <1>6, <2>1, InvitedStep
  <2>3. OnlyPage(p) BY <1>2, <2>2 DEF OnlyPage, Still, Untouched
  <2>. QED BY <1>1, <2>2, <2>3, Others
<1>7. CASE ~a.invited
  <2>1. /\ UNCHANGED <<at, invite, mode, drawn, loading, wire>>
        /\ asks' = Set(asks, p, Rest(p, a))
    BY <1>7 DEF RequestFailed
  <2>2. asks'[p] = asks[p] \ {a} /\ \A q \in Page \ {p} : asks'[q] = asks[q]
    BY <2>1, TypeParts DEF Set, Rest, AsksType
  <2>3. Staying(p, a) /\ mode'[p] = mode[p] /\ tool'[p] = tool[p] /\ link'[p] = link[p]
    BY <1>2, <2>1, <2>2 DEF Staying, wire
  <2>4. OnlyPage(p) BY <1>2, <2>1, <2>2 DEF OnlyPage, Still, Untouched, wire
  <2>5. a.answer # <<TRUE, room.co>> BY <1>5
  <2>6. /\ Wired(p)' /\ Asked(p)' /\ Alone(p)' /\ Author(p)' /\ Known(p)' /\ Pen(p)' /\ Editor(p)' /\ Local(p)'
        /\ (a.do = "read" /\ a.here => ~There \/ conn[p] # "open") => Shares(p)'
    BY <1>1, <1>2, <1>3, <1>4, <2>3, <2>5, StayStep
  <2>7. Shares(p)'
    <3>1. CASE Undisturbed
      <4>1. a.do = "read" /\ a.here => ~There \/ conn[p] # "open"
        BY <1>5, <3>1 DEF Good, Shares, LinkToCome, LinkRight
      <4>. QED BY <2>6, <4>1
    <3>2. CASE ~Undisturbed BY <1>1, <3>2 DEF Undisturbed, Free, RoomKept, Shares
    <3>. QED BY <3>1, <3>2
  <2>8. Good(p)' BY <2>6, <2>7 DEF Good
  <2>. QED BY <1>1, <2>4, <2>8, Others
<1>. QED BY <1>6, <1>7

(* The author is told the new token.                                       *)
LEMMA RotateDoneStep ==
  ASSUME SessionAssumption, Inv, TypeOK', NEW p \in Page, NEW a \in asks[p], RotateDone(p, a)
  PROVE  \A q \in Page : Good(q)'
<1>. TypeOK /\ Good(p) /\ RoomTypes /\ PageTypes(p) BY Typed DEF Inv
<1>1. RoomKept BY DEF RotateDone, RoomKept, There, Blame
<1>2. UNCHANGED <<room, at, invite, mode, tool, drawn, loading, keys, storage, wire>>
  BY DEF RotateDone
<1>3. a.do = "rotate" /\ a.answer # <<>> /\ (~a.here => "late" \in odd')
  BY DEF RotateDone, Blame, Late, If
<1>4. asks'[p] = asks[p] \ {a} /\ \A q \in Page \ {p} : asks'[q] = asks[q]
  BY TypeParts DEF RotateDone, Set, Rest, AsksType
<1>5. /\ link'[p] = IF a.answer[1] THEN a.answer[2] ELSE link[p]
      /\ \A q \in Page \ {p} : link'[q] = link[q]
  BY TypeParts DEF RotateDone, Set, PenType
<1>6. Staying(p, a) /\ mode'[p] = mode[p] /\ tool'[p] = tool[p]
  BY <1>2, <1>4 DEF Staying, wire
<1>7. OnlyPage(p) BY <1>2, <1>4, <1>5 DEF OnlyPage, Still, wire
<1>8. keys'[p] \in Keys /\ storage'[p] \in Keys /\ keys'[p] = keys[p] BY <1>2 DEF Good, Wired
<1>9. Wired(p)' /\ Asked(p)' /\ Alone(p)' /\ Author(p)' /\ Known(p)' /\ Pen(p)' /\ Editor(p)' /\ Local(p)'
  BY <1>1, <1>2, <1>3, <1>6, <1>8, StayStep
<1>10. Shares(p)'
  <2> SUFFICES ASSUME Undisturbed' PROVE Linked(p)' /\ LinkToCome(p)' BY DEF Shares
  <2>1. Undisturbed /\ a.here BY <1>1, <1>3 DEF Undisturbed, Free, RoomKept
  <2>2. LinkToCome(p)' BY <1>2, <1>4, <2>1 DEF Good, Shares, LinkToCome, LinkRight, There, wire
  <2>3. CASE a.answer[1]
    <3>1. a.answer[2] = room.co BY <1>3, <2>1, <2>3 DEF Good, Shares, LinkToCome, LinkRight
    <3>. QED BY <1>2, <1>5, <2>2, <2>3, <3>1 DEF Linked
  <2>4. CASE ~a.answer[1]
    <3>1. a.answer # <<TRUE, room.co>>
      <4>1. a.answer = <<TRUE, room.co>> => a.answer[1] = TRUE OBVIOUS
      <4>. QED BY <2>4, <4>1
    <3>2. link'[p] = link[p] BY <1>5, <2>4
    <3>3. Linked(p)'
      BY <1>2, <1>3, <1>4, <2>1, <3>1, <3>2 DEF Good, Shares, Linked, NewLink, There, wire
    <3>. QED BY <2>2, <3>3
  <2>. QED BY <2>3, <2>4
<1>11. Good(p)' BY <1>9, <1>10 DEF Good
<1>. QED BY <1>1, <1>7, <1>11, Others

(* A page changes its key.                                                 *)
LEMMA SetKeyIs ==
  ASSUME TypeOK, NEW p \in Page, NEW k, NEW R, SetKey(p, k, R)
  PROVE  /\ keys'[p] = k /\ storage'[p] = k
         /\ \A q \in Page \ {p} : keys'[q] = keys[q] /\ storage'[q] = IF tabs THEN k ELSE storage[q]
         /\ odd \subseteq odd' /\ R \subseteq odd'
         /\ Owner \notin {keys[p], k} /\ storage[p] = Owner => "tabs" \in odd'
BY TypeParts DEF SetKey, Set, StoreType, Blame, If

(* The page is told the user's keys.                                       *)
LEMMA IdsDoneStep ==
  ASSUME SessionAssumption, Inv, TypeOK', NEW p \in Page, NEW a \in asks[p], IdsDone(p, a)
  PROVE  \A q \in Page : Good(q)'
<1>. TypeOK /\ Good(p) /\ RoomTypes /\ PageTypes(p) BY Typed DEF Inv
<1>1. UNCHANGED <<room, view, wire>> BY DEF IdsDone
<1>2. asks'[p] = asks[p] \ {a} /\ \A q \in Page \ {p} : asks'[q] = asks[q]
  BY TypeParts DEF IdsDone, Set, Rest, AsksType
<1>3. /\ keys'[p] \in {keys[p], Owner} /\ storage'[p] \in {storage[p], Owner} /\ odd \subseteq odd'
      /\ \A q \in Page \ {p} : keys'[q] = keys[q] /\ storage'[q] \in {storage[q], Owner}
  <2>1. CASE SetKey(p, Owner, {}) BY <2>1, SetKeyIs
  <2>2. CASE UNCHANGED <<keys, storage, odd>> BY <2>2
  <2>. QED BY <2>1, <2>2 DEF IdsDone
<1>4. RoomKept BY <1>1, <1>3 DEF RoomKept, There
<1>5. Owner \in Keys /\ keys'[p] \in Keys /\ storage'[p] \in Keys BY <1>3 DEF Good, Wired, Keys
<1>6. OnlyPage(p) BY <1>1, <1>2, <1>3, <1>5 DEF OnlyPage, Still, view, wire
<1>7. Staying(p, a) /\ mode'[p] = mode[p] /\ tool'[p] = tool[p] /\ link'[p] = link[p]
  BY <1>1, <1>2 DEF Staying, view, wire
<1>8. a.do = "ids" BY DEF IdsDone, Answered
<1>9. /\ Wired(p)' /\ Asked(p)' /\ Alone(p)' /\ Pen(p)' /\ Editor(p)' /\ Local(p)'
      /\ keys'[p] = keys[p] => Author(p)' /\ Known(p)'
      /\ a.answer # <<TRUE, room.co>> => Shares(p)'
  BY <1>1, <1>4, <1>5, <1>7, <1>8, StayStep
<1>10. Shares(p)'
  <2>1. Linked(p) => Linked(p)' BY <1>1, <1>2, <1>8 DEF Linked, NewLink, There, view, wire
  <2>2. LinkToCome(p) => LinkToCome(p)' BY <1>1, <1>2 DEF LinkToCome, LinkRight, There, view, wire
  <2>. QED BY <1>4, <2>1, <2>2 DEF Good, Shares, Undisturbed, Free, RoomKept
<1>11. Author(p)' BY <1>3, <1>4, <1>7, Tokens DEF Staying, Good, Author, Free, RoomKept
<1>12. Known(p)'
  <2>1. Waits(p, "ids") BY <1>8 DEF Waits
  <2>2. CASE at[p] = "board" /\ Free({"early", "late"})'
    <3>1. keys[p] = Owner BY <1>4, <2>1, <2>2 DEF Good, Known, Free, RoomKept
    <3>. QED BY <1>3, <1>9, <3>1
  <2>3. CASE ~(at[p] = "board" /\ Free({"early", "late"})')
    BY <1>7, <2>3 DEF Known, Staying
  <2>. QED BY <2>2, <2>3
<1>13. Good(p)' BY <1>9, <1>10, <1>11, <1>12 DEF Good
<1>. QED BY <1>4, <1>6, <1>13, Others

(* The page is told that its token is good.                                *)
LEMMA CheckValidStep ==
  ASSUME SessionAssumption, Inv, TypeOK', NEW p \in Page, NEW a \in asks[p], CheckValid(p, a)
  PROVE  \A q \in Page : Good(q)'
<1>. TypeOK /\ Good(p) /\ RoomTypes /\ PageTypes(p) BY Typed DEF Inv
<1>1. SetKey(p, a.key, Late(a)) /\ UNCHANGED <<room, link>> /\ Done(p, a, a.key) BY DEF CheckValid
<1>2. /\ keys'[p] = a.key /\ storage'[p] = a.key /\ odd \subseteq odd' /\ Late(a) \subseteq odd'
      /\ \A q \in Page \ {p} : keys'[q] = keys[q] /\ storage'[q] \in {storage[q], a.key}
  BY <1>1, SetKeyIs
<1>3. a.do = "check" /\ Valid(a) /\ (~a.here => "late" \in odd')
  BY <1>2 DEF CheckValid, Answered, Valid, Late, If
<1>4. a.key \in Keys /\ a.key \in Token BY <1>3 DEF Good, Asked, Fits
<1>5. RoomKept BY <1>1, <1>2 DEF RoomKept, There
<1>6. tool'[p] = "pen" /\ \A q \in Page \ {p} : tool'[q] = tool[q]
  BY TypeParts DEF CheckValid, Set, PenType
<1>7. CASE a.invited
  <2>1. /\ Good(p)'
        /\ \A q \in Page \ {p} : Untouched(q) /\ asks'[q] = asks[q]
    BY <1>1, <1>2, <1>3, <1>4, <1>5, <1>7, InvitedStep
  <2>2. OnlyPage(p) BY <1>1, <1>2, <1>4, <1>6, <2>1 DEF OnlyPage, Still, Untouched
  <2>. QED BY <1>5, <2>1, <2>2, Others
<1>8. CASE ~a.invited
  <2>1. /\ Staying(p, a) /\ mode'[p] = mode[p]
        /\ UNCHANGED <<at, invite, exists, drawn, wire, mode, loading>>
        /\ \A q \in Page \ {p} : asks'[q] = asks[q]
    BY <1>1, <1>8, UninvitedIs
  <2>2. OnlyPage(p) BY <1>1, <1>2, <1>4, <1>6, <2>1 DEF OnlyPage, Still, Untouched, wire
  <2>3. /\ Wired(p)' /\ Asked(p)' /\ Alone(p)' /\ Editor(p)' /\ Local(p)'
        /\ a.answer # <<TRUE, room.co>> => Shares(p)'
    BY <1>1, <1>2, <1>3, <1>4, <1>5, <2>1, StayStep
  <2>4. ASSUME ~a.here PROVE Good(p)'
    BY <1>3, <2>3, <2>4, LateEndsPromises DEF Good
  <2>5. ASSUME a.here PROVE Good(p)'
    <3>1. /\ conn[p] \in {"open", "lost"} /\ at[p] = "board"
          /\ Free({"late"}) => mode[p] # "author"
          /\ Free({"early", "late"}) => ~Waits(p, "ids")
      BY <1>3, <2>5, OursAt DEF Ours
    <3>2. Author(p)'
      BY <1>5, <2>1, <3>1 DEF Good, Author, Staying, Free, RoomKept
    <3>3. Known(p)'
      BY <1>2, <1>4, <1>5, <2>1, <3>1, Tokens DEF Known, Staying, Free, RoomKept, Waits
    <3>4. Pen(p)'
      <4>1. Hopeful(a) BY <1>3, <2>5 DEF Hopeful
      <4> SUFFICES ASSUME Free({"crossed", "late", "reconnected"})', conn'[p] = "open"
                   PROVE  /\ mode'[p] # "viewer"
                          /\ (\E c \in asks[p] : Hopeful(c)) => Trusting(p)'
        BY <1>1, <2>1 DEF Pen, Staying, Hopeful, Valid
      <4>2. Trusting(p)
        BY <1>5, <2>1, <4>1 DEF Good, Pen, Staying, Free, RoomKept
      <4>. QED BY <1>1, <2>1, <4>2 DEF Trusting, Staying
    <3>5. Shares(p)'
      <4>1. Linked(p) => Linked(p)' BY <1>1, <1>3, <2>1 DEF Linked, NewLink, There, Staying
      <4>2. LinkToCome(p) => LinkToCome(p)' BY <1>1, <2>1 DEF LinkToCome, LinkRight, There, Staying
      <4>. QED BY <1>5, <4>1, <4>2 DEF Good, Shares, Undisturbed, Free, RoomKept
    <3>. QED BY <2>3, <3>2, <3>3, <3>4, <3>5 DEF Good
  <2>. QED BY <1>5, <2>2, <2>4, <2>5, Others
<1>. QED BY <1>7, <1>8

(* The page is told that its token is void.                                *)
LEMMA CheckInvalidStep ==
  ASSUME SessionAssumption, Inv, TypeOK', NEW p \in Page, NEW a \in asks[p], CheckInvalid(p, a)
  PROVE  \A q \in Page : Good(q)'
<1>. TypeOK /\ Good(p) /\ RoomTypes /\ PageTypes(p) BY Typed DEF Inv
<1>1. SetKey(p, None, Late(a)) /\ UNCHANGED <<room, link>> BY DEF CheckInvalid
<1>2. /\ keys'[p] = None /\ storage'[p] = None /\ odd \subseteq odd' /\ Late(a) \subseteq odd'
      /\ \A q \in Page \ {p} : keys'[q] = keys[q] /\ storage'[q] \in {storage[q], None}
  BY <1>1, SetKeyIs
<1>3. a.do = "check" /\ (~a.here => "late" \in odd')
  BY <1>2 DEF CheckInvalid, Answered, Late, If
<1>4. None \in Keys BY DEF Keys, RoomTypes, Token, None
<1>5. RoomKept BY <1>1, <1>2 DEF RoomKept, There
<1>6. tool'[p] = "move" /\ \A q \in Page \ {p} : tool'[q] = tool[q]
  BY TypeParts DEF CheckInvalid, Set, PenType
<1>7. CASE a.invited
  <2>1. Done(p, a, None) BY <1>7 DEF CheckInvalid
  <2>2. /\ Good(p)'
        /\ \A q \in Page \ {p} : Untouched(q) /\ asks'[q] = asks[q]
    BY <1>2, <1>3, <1>4, <1>5, <1>7, <2>1, InvitedStep
  <2>3. OnlyPage(p) BY <1>1, <1>2, <1>4, <1>6, <2>2 DEF OnlyPage, Still, Untouched
  <2>. QED BY <1>5, <2>2, <2>3, Others
<1>8. CASE ~a.invited
  <2>1. /\ UNCHANGED <<at, invite, exists, wire, loading>>
        /\ mode' = Set(mode, p, IF at[p] = "new" THEN "local" ELSE "viewer")
        /\ drawn' = Set(drawn, p, FALSE) /\ asks' = Set(asks, p, Rest(p, a))
    BY <1>8 DEF CheckInvalid
  <2>2. /\ asks'[p] = asks[p] \ {a} /\ drawn'[p] = FALSE
        /\ mode'[p] = IF at[p] = "new" THEN "local" ELSE "viewer"
        /\ \A q \in Page \ {p} : asks'[q] = asks[q] /\ drawn'[q] = drawn[q] /\ mode'[q] = mode[q]
    BY <2>1, TypeParts DEF Set, Rest, AsksType, ViewType
  <2>3. OnlyPage(p) BY <1>1, <1>2, <1>4, <1>6, <2>1, <2>2 DEF OnlyPage, Still, Untouched, wire
  <2>4. Staying(p, a) BY <2>1, <2>2 DEF Staying, wire
  <2>5. Wired(p)' /\ Asked(p)' /\ Alone(p)' /\ Local(p)'
    BY <1>1, <1>2, <1>3, <1>4, <1>5, <2>4, StayStep
  <2>6. ASSUME ~a.here PROVE Good(p)'
    BY <1>3, <2>5, <2>6, LateEndsPromises DEF Good
  <2>7. ASSUME a.here PROVE Good(p)'
    <3>1. /\ conn[p] \in {"open", "lost"} /\ at[p] = "board"
          /\ Free({"late"}) => mode[p] # "author"
          /\ Free({"early", "late"}) => ~Waits(p, "ids")
      BY <1>3, <2>7, OursAt DEF Ours
    <3>2. mode'[p] = "viewer" BY <2>2, <3>1
    <3>3. Author(p)' /\ Editor(p)' BY <2>4, <3>1, <3>2 DEF Author, Editor, Staying
    <3>4. Known(p)'
      BY <1>2, <1>5, <2>4, <3>1, Tokens DEF Known, Staying, Free, RoomKept, Waits
    <3>5. Pen(p)'
      <4>1. \A c \in asks'[p] : ~Hopeful(c)' BY <1>3, <2>2, <2>7 DEF Good, Alone, Ours, Hopeful
      <4>. QED BY <1>6, <4>1 DEF Pen
    <3>6. Shares(p)'
      <4> SUFFICES ASSUME Undisturbed' PROVE LinkToCome(p)' BY <3>2 DEF Shares, Linked
      <4>1. Undisturbed /\ Free({"late"}) BY <1>5 DEF Undisturbed, Free, RoomKept
      <4>2. \A c \in asks[p] : c.here => c.do \notin {"read", "rotate"}
        BY <3>1, <4>1 DEF Good, Shares, LinkToCome, LinkRight
      <4>. QED BY <2>2, <4>2 DEF LinkToCome, LinkRight
    <3>. QED BY <2>5, <3>3, <3>4, <3>5, <3>6 DEF Good
  <2>. QED BY <1>5, <2>3, <2>6, <2>7, Others
<1>. QED BY <1>7, <1>8

(* The board is shared.                                                    *)
LEMMA CreatedStep ==
  ASSUME SessionAssumption, Inv, TypeOK', NEW p \in Page, NEW a \in asks[p], Created(p, a)
  PROVE  \A q \in Page : Good(q)'
<1>. TypeOK /\ Good(p) /\ RoomTypes /\ PageTypes(p) BY Typed DEF Inv
<1>1. SetKey(p, Owner, Late(a)) /\ UNCHANGED <<room, tool, link>> BY DEF Created
<1>2. /\ keys'[p] = Owner /\ storage'[p] = Owner /\ odd \subseteq odd'
      /\ \A q \in Page \ {p} : keys'[q] = keys[q] /\ storage'[q] \in {storage[q], Owner}
  BY <1>1, SetKeyIs
<1>3. Owner \in Keys BY DEF Keys
<1>4. RoomKept BY <1>1, <1>2 DEF RoomKept, There
<1>5. /\ Arriving(p, "board", None, Owner)
      /\ \A q \in Page \ {p} : Untouched(q)
  BY ArriveIs DEF Created
<1>6. asks'[p] = Left(Rest(p, a)) /\ \A q \in Page \ {p} : asks'[q] = asks[q]
  BY TypeParts DEF Created, Set, AsksType
<1>7. OnlyPage(p) BY <1>1, <1>2, <1>3, <1>5, <1>6 DEF OnlyPage, Still, Untouched
<1>8. Rest(p, a) \in SUBSET asks[p] /\ None \in {None} \cup Token BY DEF Rest
<1>9. None <= room.co BY DEF RoomTypes, Token, None
<1>10. room.state # "none"
  <2>1. a.do = "create" /\ a.answer # <<>> /\ a.answer[1] = TRUE BY DEF Created, Answered
  <2>2. a.answer = <<FALSE>> => a.answer[1] = FALSE OBVIOUS
  <2>. QED BY <2>1, <2>2 DEF Good, Asked, Fits
<1>11. Good(p)' BY <1>2, <1>3, <1>4, <1>5, <1>6, <1>8, <1>9, <1>10, ArriveStep
<1>. QED BY <1>4, <1>7, <1>11, Others

----------------------------------------------------------------------------
(* The user acts.                                                          *)

(* The user draws.                                                         *)
LEMMA DrawStep ==
  ASSUME SessionAssumption, Inv, TypeOK', NEW p \in Page, Draw(p)
  PROVE  \A q \in Page : Good(q)'
<1>. TypeOK /\ Good(p) /\ RoomTypes /\ PageTypes(p) BY Typed DEF Inv
<1>1. /\ SetKey(p, keys[p], {})
      /\ UNCHANGED <<room, at, invite, mode, tool, link, loading, wire, asks>>
      /\ at[p] = "new" /\ ~loading[p]
  BY DEF Draw, InView
<1>2. /\ keys'[p] = keys[p] /\ storage'[p] = keys[p] /\ odd \subseteq odd'
      /\ \A q \in Page \ {p} : keys'[q] = keys[q] /\ storage'[q] \in {storage[q], keys[p]}
  BY <1>1, SetKeyIs
<1>3. drawn'[p] = TRUE /\ \A q \in Page \ {p} : drawn'[q] = drawn[q]
  BY TypeParts DEF Draw, Set, ViewType
<1>4. RoomKept BY <1>1, <1>2 DEF RoomKept, There
<1>5. OnlyPage(p) BY <1>1, <1>2, <1>3 DEF OnlyPage, Still, wire, Good, Wired
<1>6. Wired(p)' BY <1>1, <1>2 DEF Good, Wired, wire, There, Keys
<1>7. Asked(p)'
  BY <1>1, <1>4 DEF Good, Asked, Fits, Ours, Valid, wire, Keys, RoomKept
<1>8. Alone(p)' BY <1>1 DEF Good, Alone
<1>9. Author(p)' /\ Known(p)'
  BY <1>1, <1>2 DEF Good, Author, Known, Free, Waits, wire
<1>10. Pen(p)' /\ Editor(p)'
  BY <1>1, <1>2 DEF Good, Pen, Trusting, Hopeful, Valid, Editor, Grants, Free, wire
<1>11. Shares(p)'
  BY <1>1, <1>2 DEF Good, Shares, Undisturbed, Linked, NewLink, LinkToCome, LinkRight, Free,
     There, wire
<1>12. Local(p)' BY <1>1 DEF Local
<1>13. Good(p)' BY <1>6, <1>7, <1>8, <1>9, <1>10, <1>11, <1>12 DEF Good
<1>. QED BY <1>4, <1>5, <1>13, Others

(* The user signs out.                                                     *)
LEMMA LogOutStep ==
  ASSUME SessionAssumption, Inv, TypeOK', NEW p \in Page, LogOut(p)
  PROVE  \A q \in Page : Good(q)'
<1>. /\ TypeOK /\ Good(p) /\ RoomTypes /\ PageTypes(p) BY Typed DEF Inv
<1>1. /\ SetKey(p, None, SignedOut(p)) /\ Arrive(p, "home", None, None)
      /\ UNCHANGED <<room, tool, link>>
  BY DEF LogOut, SignedOut
<1>2. /\ keys'[p] = None /\ storage'[p] = None /\ odd \subseteq odd'
      /\ \A q \in Page \ {p} : keys'[q] = keys[q] /\ storage'[q] \in {storage[q], None}
  BY <1>1, SetKeyIs
<1>3. RoomKept BY <1>1, <1>2 DEF RoomKept, There
<1>4. /\ Arriving(p, "home", None, None)
      /\ \A q \in Page \ {p} : Untouched(q)
  BY <1>1, ArriveIs
<1>5. asks'[p] = Left(asks[p]) /\ \A q \in Page \ {p} : asks'[q] = asks[q]
  BY TypeParts DEF LogOut, Set, AsksType
<1>6. None \in Keys BY DEF Keys, RoomTypes, Token, None
<1>7. OnlyPage(p) BY <1>1, <1>2, <1>4, <1>5, <1>6 DEF OnlyPage, Still, Untouched
<1>8. None <= room.co BY DEF RoomTypes, Token, None
<1>9. Good(p)' BY <1>2, <1>3, <1>4, <1>5, <1>6, <1>8, ArriveStep
<1>. QED BY <1>3, <1>7, <1>9, Others

(* The user chooses a tool.                                                *)
LEMMA ChooseToolStep ==
  ASSUME SessionAssumption, Inv, TypeOK', NEW p \in Page, ChooseTool(p)
  PROVE  \A q \in Page : Good(q)'
<1>. TypeOK /\ Good(p) /\ RoomTypes /\ PageTypes(p) BY Typed DEF Inv
<1>1. UNCHANGED <<room, at, invite, mode, link, drawn, loading, keys, storage, wire, asks, odd>>
  BY DEF ChooseTool
<1>2. \A q \in Page \ {p} : tool'[q] = tool[q] BY TypeParts DEF ChooseTool, Set, PenType
<1>3. RoomKept BY <1>1 DEF RoomKept, There
<1>4. OnlyPage(p) BY <1>1, <1>2 DEF OnlyPage, Still, wire
<1>5. Wired(p)' BY <1>1 DEF Good, Wired, wire, There, Keys
<1>6. Asked(p)' BY <1>1 DEF Good, Asked, Fits, Ours, Valid, wire, Keys
<1>7. Alone(p)' BY <1>1 DEF Good, Alone
<1>8. Author(p)' /\ Known(p)' BY <1>1 DEF Good, Author, Known, Free, Waits, wire
<1>9. Pen(p)' BY <1>1 DEF Good, Pen, Trusting, Hopeful, Valid, Free, wire, ChooseTool
<1>10. Editor(p)' BY <1>1 DEF Good, Editor, Grants, Free, wire
<1>11. Shares(p)'
  BY <1>1 DEF Good, Shares, Undisturbed, Linked, NewLink, LinkToCome, LinkRight, Free, There, wire
<1>12. Local(p)' BY <1>1 DEF Good, Local, Free, Waits
<1>13. Good(p)' BY <1>5, <1>6, <1>7, <1>8, <1>9, <1>10, <1>11, <1>12 DEF Good
<1>. QED BY <1>3, <1>4, <1>13, Others

(* The user shares the board.                                              *)
LEMMA ShareStep ==
  ASSUME SessionAssumption, Inv, TypeOK', NEW p \in Page, Share(p)
  PROVE  \A q \in Page : Good(q)'
<1>. TypeOK /\ Good(p) /\ RoomTypes /\ PageTypes(p) BY Typed DEF Inv
<1>. DEFINE b == Request("create", None, None)
<1>1. /\ UNCHANGED <<room, at, invite, mode, tool, link, keys, storage, wire, odd>>
      /\ at[p] = "new" /\ mode[p] = "local"
  BY DEF Share
<1>2. b \in Ask /\ b.do = "create" /\ b.answer = <<>> BY RequestIs, Tokens DEF Request
<1>3. asks'[p] = asks[p] \cup {b} /\ \A q \in Page \ {p} : asks'[q] = asks[q]
  BY TypeParts DEF Share, Send, Set, AsksType
<1>. HIDE DEF b
<1>4. /\ drawn'[p] = FALSE /\ loading'[p] = TRUE
      /\ \A q \in Page \ {p} : drawn'[q] = drawn[q] /\ loading'[q] = loading[q]
  BY TypeParts DEF Share, Set, ViewType
<1>5. RoomKept BY <1>1 DEF RoomKept, There
<1>6. OnlyPage(p) BY <1>1, <1>3, <1>4 DEF OnlyPage, Still, wire
<1>7. conn[p] = "none" BY <1>1 DEF Good, Wired
<1>8. Wired(p)' BY <1>1, <1>4 DEF Good, Wired, wire, There, Keys
<1>9. Asked(p)'
  <2>1. Fits(p, b)' BY <1>1, <1>2, <1>4 DEF Fits, Ours
  <2>2. \A a \in asks[p] : Fits(p, a)'
    BY <1>1, <1>4 DEF Good, Asked, Fits, Ours, Valid, wire, Keys
  <2>. QED BY <1>3, <2>1, <2>2 DEF Asked
<1>10. Alone(p)' BY <1>2, <1>3 DEF Good, Alone, Ours
<1>11. Author(p)' /\ Known(p)' BY <1>1 DEF Good, Author, Known, Free
<1>12. Pen(p)' /\ Editor(p)' BY <1>1, <1>7 DEF Pen, Editor, wire
<1>13. Shares(p)'
  BY <1>1, <1>2, <1>3, <1>7 DEF Good, Shares, Undisturbed, Linked, LinkToCome, LinkRight, Free,
     There, wire
<1>14. Local(p)' BY <1>1, <1>2, <1>3 DEF Local, Waits
<1>15. Good(p)' BY <1>8, <1>9, <1>10, <1>11, <1>12, <1>13, <1>14 DEF Good
<1>. QED BY <1>5, <1>6, <1>15, Others

(* The author asks for a new token.                                        *)
LEMMA ExpireCoEditorsStep ==
  ASSUME SessionAssumption, Inv, TypeOK', NEW p \in Page, ExpireCoEditors(p)
  PROVE  \A q \in Page : Good(q)'
<1>. TypeOK /\ Good(p) /\ RoomTypes /\ PageTypes(p) BY Typed DEF Inv
<1>1. /\ UNCHANGED <<room, view, keys, storage, wire, odd>>
      /\ mode[p] = "author" /\ ~Waits(p, "rotate")
  BY DEF ExpireCoEditors
<1>2. PICK b \in Ask : b = Request("rotate", keys[p], None) /\ b.do = "rotate" /\ b.answer = <<>>
  <2>1. Request("rotate", keys[p], None) \in Ask BY RequestIs DEF PageTypes
  <2>2. Request("rotate", keys[p], None).do = "rotate" /\ Request("rotate", keys[p], None).answer = <<>>
    BY DEF Request
  <2>. QED BY <2>1, <2>2
<1>3. asks'[p] = asks[p] \cup {b} /\ \A q \in Page \ {p} : asks'[q] = asks[q]
  BY <1>2, TypeParts DEF ExpireCoEditors, Send, Set, AsksType
<1>4. RoomKept BY <1>1 DEF RoomKept, There
<1>5. OnlyPage(p) BY <1>1, <1>3 DEF OnlyPage, Still, view, wire
<1>6. Wired(p)' BY <1>1 DEF Good, Wired, view, wire, There, Keys
<1>7. Asked(p)'
  <2>1. Fits(p, b)' BY <1>2 DEF Fits, Ours
  <2>2. \A a \in asks[p] : Fits(p, a)'
    BY <1>1 DEF Good, Asked, Fits, Ours, Valid, view, wire, Keys
  <2>. QED BY <1>3, <2>1, <2>2 DEF Asked
<1>8. Alone(p)' BY <1>1, <1>2, <1>3 DEF Good, Alone, Ours, Waits
<1>9. Author(p)' /\ Known(p)'
  BY <1>1, <1>2, <1>3 DEF Good, Author, Known, Free, Waits, view, wire
<1>10. Pen(p)' /\ Editor(p)'
  BY <1>1, <1>2, <1>3 DEF Good, Pen, Trusting, Hopeful, Valid, Editor, Grants, Free, view, wire
<1>11. Shares(p)'
  <2>1. Linked(p) => Linked(p)' BY <1>1, <1>3 DEF Linked, NewLink, There, view, wire
  <2>2. LinkToCome(p) => LinkToCome(p)'
    BY <1>1, <1>2, <1>3 DEF LinkToCome, LinkRight, There, view, wire
  <2>. QED BY <1>1, <2>1, <2>2 DEF Good, Shares, Undisturbed, Free
<1>12. Local(p)' BY <1>1, <1>3 DEF Good, Local, Free, Waits, view
<1>13. Good(p)' BY <1>6, <1>7, <1>8, <1>9, <1>10, <1>11, <1>12 DEF Good
<1>. QED BY <1>4, <1>5, <1>13, Others

(* The author deletes the board.                                           *)
LEMMA DeleteStep ==
  ASSUME SessionAssumption, Inv, TypeOK', NEW p \in Page, Delete(p)
  PROVE  \A q \in Page : Good(q)'
<1>. TypeOK BY DEF Inv
<1>1. UNCHANGED <<view, keys, storage, conn, authed, up, asks, odd>> /\ There BY DEF Delete
<1>2. room'.co = room.co /\ room'.state = "deleted" BY TypeParts DEF Delete, RoomType
<1>3. RoomKept BY <1>1, <1>2 DEF RoomKept, There
<1>4. ASSUME NEW q \in Page PROVE Good(q)'
  <2>1. Still(q) /\ asks'[q] = asks[q] /\ storage'[q] = storage[q] BY <1>1 DEF Still, view
  <2>2. down'[q] = down[q] \/ (conn[q] = "open" /\ down'[q] = Append(down[q], "quit"))
    BY DEF Delete, Tell
  <2>3. Good(q) BY DEF Inv
  <2>. QED BY <1>3, <2>1, <2>2, <2>3, CalmStep
<1>. QED BY <1>4

----------------------------------------------------------------------------
(* A message comes to a page.                                              *)

(* The first message on its way to a page arrives.                         *)
LEMMA MsgIs ==
  ASSUME Inv, NEW p \in Page, NEW m, Msg(p, m)
  PROVE  /\ conn[p] = "open" /\ Says(down[p], m)
         /\ \A n : Says(down[p], n) <=> n = m \/ Says(down'[p], n)
         /\ Warned(down[p]) => m # "bad" /\ (m # "update" => Warned(down'[p]))
         /\ \A q \in Page \ {p} : down'[q] = down[q]
<1>1. down[p] \in Seq(Messages) /\ down[p] # <<>> /\ Head(down[p]) = m
  BY Typed DEF Inv, PageTypes, Msg
<1>2. down'[p] = Tail(down[p]) /\ \A q \in Page \ {p} : down'[q] = down[q]
  BY TypeParts DEF Inv, Msg, Set, WireType
<1>3. conn[p] = "open" BY <1>1 DEF Inv, Good, Wired
<1>. QED BY <1>1, <1>2, <1>3, TailSays

(* The page has the board.                                                 *)
LEMMA PulledStep ==
  ASSUME SessionAssumption, Inv, TypeOK', NEW p \in Page, Pulled(p)
  PROVE  \A q \in Page : Good(q)'
<1>. TypeOK /\ Good(p) /\ RoomTypes /\ PageTypes(p) BY Typed DEF Inv
<1>1. UNCHANGED <<room, at, invite, mode, tool, link, drawn, keys, storage, conn, authed, up, asks, odd>>
  BY DEF Pulled
<1>2. /\ conn[p] = "open"
      /\ \A n : n # "pulled" => (Says(down[p], n) <=> Says(down'[p], n))
      /\ Warned(down[p]) => Warned(down'[p])
      /\ \A q \in Page \ {p} : down'[q] = down[q]
  <2>1. Msg(p, "pulled") BY DEF Pulled
  <2>. QED BY <2>1, MsgIs
<1>3. loading'[p] = FALSE /\ \A q \in Page \ {p} : loading'[q] = loading[q]
  BY TypeParts DEF Pulled, Set, ViewType
<1>4. RoomKept BY <1>1 DEF RoomKept, There
<1>5. OnlyPage(p) BY <1>1, <1>2, <1>3 DEF OnlyPage, Still
<1>6. at[p] = "board" BY <1>2 DEF Good, Wired
<1>7. Wired(p)' BY <1>1, <1>2 DEF Good, Wired, There, Keys
<1>8. Asked(p)' BY <1>1, <1>6 DEF Good, Asked, Fits, Ours, Valid, Keys
<1>9. Alone(p)' BY <1>1 DEF Good, Alone
<1>10. Author(p)' /\ Known(p)' BY <1>1, <1>2 DEF Good, Author, Known, Free, Waits
<1>11. Pen(p)' BY <1>1, <1>2 DEF Good, Pen, Trusting, Hopeful, Valid, Free
<1>12. Editor(p)' BY <1>1, <1>2 DEF Good, Editor, Grants, Free
<1>13. Shares(p)'
  BY <1>1 DEF Good, Shares, Undisturbed, Linked, NewLink, LinkToCome, LinkRight, Free, There
<1>14. Local(p)' BY <1>1, <1>6 DEF Local
<1>15. Good(p)' BY <1>7, <1>8, <1>9, <1>10, <1>11, <1>12, <1>13, <1>14 DEF Good
<1>. QED BY <1>4, <1>5, <1>15, Others

(* The page is told that the board was deleted.                            *)
LEMMA QuitStep ==
  ASSUME SessionAssumption, Inv, TypeOK', NEW p \in Page, Quit(p)
  PROVE  \A q \in Page : Good(q)'
<1>. TypeOK /\ Good(p) /\ RoomTypes /\ PageTypes(p) BY Typed DEF Inv
<1>1. UNCHANGED <<room, at, invite, mode, tool, link, drawn, loading, keys, storage, conn, authed, up, asks, odd>>
  BY DEF Quit
<1>2. /\ conn[p] = "open"
      /\ \A n : n # "quit" => (Says(down[p], n) <=> Says(down'[p], n))
      /\ Warned(down[p]) => Warned(down'[p])
      /\ \A q \in Page \ {p} : down'[q] = down[q]
  <2>1. Msg(p, "quit") BY DEF Quit
  <2>. QED BY <2>1, MsgIs
<1>3. RoomKept BY <1>1 DEF RoomKept, There
<1>4. OnlyPage(p) BY <1>1, <1>2 DEF OnlyPage, Still
<1>5. Wired(p)' BY <1>1, <1>2 DEF Good, Wired, There, Keys
<1>6. Asked(p)' BY <1>1 DEF Good, Asked, Fits, Ours, Valid, Keys
<1>7. Alone(p)' BY <1>1 DEF Good, Alone
<1>8. Author(p)' /\ Known(p)' BY <1>1, <1>2 DEF Good, Author, Known, Free, Waits
<1>9. Pen(p)' BY <1>1, <1>2 DEF Good, Pen, Trusting, Hopeful, Valid, Free
<1>10. Editor(p)' BY <1>1, <1>2 DEF Good, Editor, Grants, Free
<1>11. Shares(p)'
  BY <1>1 DEF Good, Shares, Undisturbed, Linked, NewLink, LinkToCome, LinkRight, Free, There
<1>12. Local(p)' BY <1>1 DEF Good, Local, Free, Waits
<1>13. Good(p)' BY <1>5, <1>6, <1>7, <1>8, <1>9, <1>10, <1>11, <1>12 DEF Good
<1>. QED BY <1>3, <1>4, <1>13, Others

(* The page is no editor any more.                                         *)
LEMMA GivenUp ==
  ASSUME SessionAssumption, Inv, TypeOK', NEW p \in Page, NEW m, Msg(p, m), NEW R, GiveUp(p, R),
         UNCHANGED <<room, at, invite, link, drawn, loading, conn, authed, up, asks>>,
         Free({"late"}) => mode[p] # "author",
         Free({"crossed", "late", "reconnected"})' => \A a \in asks[p] : ~Hopeful(a)
  PROVE  \A q \in Page : Good(q)'
<1>. TypeOK /\ Good(p) /\ RoomTypes /\ PageTypes(p) BY Typed DEF Inv
<1>1. /\ conn[p] = "open" /\ at[p] = "board"
      /\ \A q \in Page \ {p} : down'[q] = down[q]
  BY MsgIs DEF Good, Wired
<1>2. /\ keys'[p] = None /\ storage'[p] = None /\ odd \subseteq odd'
      /\ \A q \in Page \ {p} : keys'[q] = keys[q] /\ storage'[q] \in {storage[q], None}
  <2>1. SetKey(p, None, R) BY DEF GiveUp
  <2>. QED BY <2>1, SetKeyIs
<1>3. /\ mode'[p] = "viewer" /\ tool'[p] = "move"
      /\ \A q \in Page \ {p} : mode'[q] = mode[q] /\ tool'[q] = tool[q]
  BY TypeParts DEF GiveUp, Set, ViewType, PenType
<1>4. None \in Keys BY DEF Keys, RoomTypes, Token, None
<1>5. RoomKept BY <1>2 DEF RoomKept, There
<1>6. OnlyPage(p) BY <1>1, <1>2, <1>3, <1>4 DEF OnlyPage, Still
<1>7. Wired(p)' BY <1>1, <1>2, <1>4 DEF Good, Wired, There, Keys
<1>8. Asked(p)' BY <1>5 DEF Good, Asked, Fits, Ours, Valid, Keys, RoomKept
<1>9. Alone(p)' BY DEF Good, Alone
<1>10. Author(p)' /\ Editor(p)' BY <1>1, <1>3 DEF Author, Editor
<1>11. Pen(p)' BY <1>3 DEF Pen, Hopeful, Valid
<1>12. Shares(p)'
  <2> SUFFICES ASSUME Undisturbed' PROVE LinkToCome(p)' BY <1>3 DEF Shares, Linked
  <2>1. Undisturbed /\ Free({"late"}) BY <1>5 DEF Undisturbed, Free, RoomKept
  <2>2. \A c \in asks[p] : c.here => c.do \notin {"read", "rotate"}
    BY <2>1 DEF Good, Shares, LinkToCome, LinkRight
  <2>. QED BY <2>2 DEF LinkToCome, LinkRight
<1>13. Local(p)' BY <1>1 DEF Local
<1>14. Known(p)'
  <2> SUFFICES ASSUME Free({"early", "late"})' PROVE ~Waits(p, "ids")'
    BY <1>2, Tokens DEF Known
  <2>1. Free({"early", "late"}) /\ Free({"late"}) BY <1>5 DEF Free, RoomKept
  <2>2. ~Waits(p, "ids") BY <1>1, <2>1 DEF Good, Known
  <2>. QED BY <2>2 DEF Waits
<1>15. Good(p)' BY <1>7, <1>8, <1>9, <1>10, <1>11, <1>12, <1>13, <1>14 DEF Good
<1>. QED BY <1>5, <1>6, <1>15, Others

(* The page is told that it may not edit.                                  *)
LEMMA AuthBadStep ==
  ASSUME SessionAssumption, Inv, TypeOK', NEW p \in Page, AuthBad(p)
  PROVE  \A q \in Page : Good(q)'
<1>. Good(p) BY DEF Inv
<1>1. /\ Msg(p, "bad") /\ GiveUp(p, {})
      /\ UNCHANGED <<room, at, invite, link, drawn, loading, conn, authed, up, asks>>
  BY DEF AuthBad
<1>2. conn[p] = "open" /\ Says(down[p], "bad") /\ ~Warned(down[p]) BY <1>1, MsgIs
<1>3. Free({"late"}) => mode[p] # "author" BY <1>2 DEF Good, Author
<1>4. Free({"crossed", "late", "reconnected"})' => \A a \in asks[p] : ~Hopeful(a)
  <2>1. odd \subseteq odd' BY <1>1 DEF GiveUp, SetKey, Blame
  <2>. QED BY <1>2, <2>1 DEF Good, Pen, Trusting, Free
<1>. QED BY <1>1, <1>3, <1>4, GivenUp

(* The page is told that there is a new token.                             *)
LEMMA UpdateCoEditorStep ==
  ASSUME SessionAssumption, Inv, TypeOK', NEW p \in Page, UpdateCoEditor(p)
  PROVE  \A q \in Page : Good(q)'
<1>. TypeOK /\ Good(p) /\ RoomTypes /\ PageTypes(p) BY Typed DEF Inv
<1>. DEFINE R == If("crossed", Waits(p, "check"))
<1>1. /\ Msg(p, "update")
      /\ UNCHANGED <<room, at, invite, link, drawn, loading, conn, authed, up, asks>>
  BY DEF UpdateCoEditor
<1>2. CASE mode[p] = "coop"
  <2>1. GiveUp(p, R) BY <1>2 DEF UpdateCoEditor
  <2>2. R \subseteq odd' BY <2>1 DEF GiveUp, SetKey, Blame
  <2>3. Free({"crossed", "late", "reconnected"})' => \A a \in asks[p] : ~Hopeful(a)
    BY <2>2 DEF Free, If, Hopeful, Waits
  <2>. QED BY <1>1, <1>2, <2>1, <2>3, GivenUp
<1>3. CASE mode[p] # "coop"
  <2>1. odd' = odd \cup R /\ UNCHANGED <<mode, keys, storage, tool>>
    BY <1>3 DEF UpdateCoEditor, Blame
  <2>2. /\ conn[p] = "open" /\ at[p] = "board"
        /\ \A n : n # "update" => (Says(down[p], n) <=> Says(down'[p], n))
        /\ \A q \in Page \ {p} : down'[q] = down[q]
    BY <1>1, MsgIs DEF Good, Wired
  <2>3. RoomKept BY <1>1, <2>1 DEF RoomKept, There
  <2>4. OnlyPage(p) BY <1>1, <2>1, <2>2 DEF OnlyPage, Still
  <2>5. Wired(p)' BY <1>1, <2>1, <2>2 DEF Good, Wired, There, Keys
  <2>6. Asked(p)' BY <1>1, <2>1 DEF Good, Asked, Fits, Ours, Valid, Keys
  <2>7. Alone(p)' BY <1>1 DEF Good, Alone
  <2>8. Author(p)' /\ Known(p)' BY <1>1, <2>1, <2>2 DEF Good, Author, Known, Free, Waits
  <2>9. Pen(p)'
    <3>1. "crossed" \notin odd' => \A a \in asks[p] : ~Hopeful(a)
      BY <2>1 DEF If, Hopeful, Waits
    <3>. QED BY <1>1, <2>1, <3>1 DEF Good, Pen, Free, Hopeful, Valid
  <2>10. Editor(p)' BY <1>1, <1>3, <2>1, <2>2 DEF Good, Editor, Grants, Free
  <2>11. Shares(p)'
    <3>1. Linked(p) => Linked(p)' BY <1>1, <2>1 DEF Linked, NewLink, There
    <3>2. LinkToCome(p) => LinkToCome(p)' BY <1>1, <2>1 DEF LinkToCome, LinkRight, There
    <3>. QED BY <2>3, <3>1, <3>2 DEF Good, Shares, Undisturbed, Free, RoomKept
  <2>12. Local(p)' BY <1>1, <2>2 DEF Local
  <2>13. Good(p)' BY <2>5, <2>6, <2>7, <2>8, <2>9, <2>10, <2>11, <2>12 DEF Good
  <2>. QED BY <2>3, <2>4, <2>13, Others
<1>. QED BY <1>2, <1>3

----------------------------------------------------------------------------
(* A connection opens, is lost, and is there again.                        *)

(* The connection breaks.                                                  *)
LEMMA LostStep ==
  ASSUME SessionAssumption, Inv, TypeOK', NEW p \in Page, Lost(p)
  PROVE  \A q \in Page : Good(q)'
<1>. TypeOK /\ Good(p) /\ RoomTypes /\ PageTypes(p) BY Typed DEF Inv
<1>1. /\ UNCHANGED <<room, at, invite, mode, tool, link, drawn, keys, storage, asks, odd>>
      /\ conn[p] = "open"
  BY DEF Lost
<1>2. /\ conn'[p] = "lost" /\ up'[p] = <<>> /\ down'[p] = <<>>
      /\ \A q \in Page \ {p} :
           conn'[q] = conn[q] /\ authed'[q] = authed[q] /\ up'[q] = up[q] /\ down'[q] = down[q]
  BY TypeParts DEF Lost, Disconnect, Set, WireType
<1>3. \A q \in Page \ {p} : loading'[q] = loading[q] BY TypeParts DEF Lost, Set, ViewType
<1>4. RoomKept BY <1>1 DEF RoomKept, There
<1>5. OnlyPage(p) BY <1>1, <1>2, <1>3 DEF OnlyPage, Still
<1>6. at[p] = "board" BY <1>1 DEF Good, Wired
<1>7. Wired(p)' BY <1>1, <1>2 DEF Good, Wired, There, Keys
<1>8. Asked(p)' BY <1>1, <1>2, <1>6 DEF Good, Asked, Fits, Ours, Valid, Keys
<1>9. Alone(p)' BY <1>1 DEF Good, Alone
<1>10. Author(p)' /\ Known(p)' BY <1>1, <1>2, NothingSaid DEF Good, Author, Known, Free, Waits
<1>11. Pen(p)' /\ Editor(p)' BY <1>2 DEF Pen, Editor
<1>12. Shares(p)'
  <2>1. Linked(p)' BY <1>2 DEF Linked
  <2>2. LinkToCome(p) => LinkToCome(p)' BY <1>1, <1>2 DEF LinkToCome, LinkRight
  <2>. QED BY <1>1, <2>1, <2>2 DEF Good, Shares, Undisturbed, Free
<1>13. Local(p)' BY <1>1, <1>6 DEF Local
<1>14. Good(p)' BY <1>7, <1>8, <1>9, <1>10, <1>11, <1>12, <1>13 DEF Good
<1>. QED BY <1>4, <1>5, <1>14, Others

(* The connection is there again.                                          *)
LEMMA ReconnectedStep ==
  ASSUME SessionAssumption, Inv, TypeOK', NEW p \in Page, Reconnected(p)
  PROVE  \A q \in Page : Good(q)'
<1>. TypeOK /\ Good(p) /\ RoomTypes /\ PageTypes(p) BY Typed DEF Inv
<1>1. /\ UNCHANGED <<at, invite, mode, tool, link, drawn, keys, storage, authed, up, down, asks>>
      /\ conn[p] = "lost" /\ There /\ odd' = odd \cup {"reconnected"}
  BY DEF Reconnected, Blame
<1>2. room'.co = room.co /\ room'.state = room.state /\ room'.live = TRUE
  BY TypeParts DEF Reconnected, RoomType
<1>3. conn'[p] = "open" /\ \A q \in Page \ {p} : conn'[q] = conn[q]
  BY TypeParts DEF Reconnected, Set, WireType
<1>4. loading'[p] = FALSE /\ \A q \in Page \ {p} : loading'[q] = loading[q]
  BY TypeParts DEF Reconnected, Set, ViewType
<1>5. RoomKept BY <1>1, <1>2 DEF RoomKept, There
<1>6. OnlyPage(p) BY <1>1, <1>3, <1>4 DEF OnlyPage, Still
<1>7. at[p] = "board" BY <1>1 DEF Good, Wired
<1>8. Wired(p)' BY <1>1, <1>2, <1>3 DEF Good, Wired, Keys
<1>9. Asked(p)' BY <1>1, <1>2, <1>3, <1>7 DEF Good, Asked, Fits, Ours, Valid, Keys
<1>10. Alone(p)' BY <1>1 DEF Good, Alone
<1>11. Author(p)' BY <1>1, <1>3 DEF Good, Author, Free
<1>12. Pen(p)' /\ Editor(p)' /\ Shares(p)' BY <1>1 DEF Pen, Editor, Shares, Undisturbed, Free
<1>13. Local(p)' BY <1>1, <1>7 DEF Local
<1>14. Known(p)' BY <1>1 DEF Good, Known, Free, Waits
<1>15. Good(p)' BY <1>8, <1>9, <1>10, <1>11, <1>12, <1>13, <1>14 DEF Good
<1>. QED BY <1>5, <1>6, <1>15, Others

(* The connection opens, and the page joins.                               *)
LEMMA OpenStep ==
  ASSUME SessionAssumption, Inv, TypeOK', NEW p \in Page, Open(p)
  PROVE  \A q \in Page : Good(q)'
<1>. TypeOK /\ Good(p) /\ RoomTypes /\ PageTypes(p) BY Typed DEF Inv
<1>1. /\ UNCHANGED <<at, invite, mode, drawn, loading, keys, storage, authed, down, odd>>
      /\ conn[p] = "connecting"
  BY DEF Open
<1>2. room'.co = room.co /\ room'.state = room.state /\ room'.live = There
  BY TypeParts DEF Open, RoomType, There
<1>3. /\ conn'[p] = IF There THEN "open" ELSE "lost"
      /\ \A q \in Page \ {p} : conn'[q] = conn[q]
  BY TypeParts DEF Open, Set, WireType
<1>4. PICK t \in Key : t = FirstToken(p) BY FirstTokenIs
<1>5. /\ mode[p] = "author" => t = keys[p]
      /\ mode[p] = "coop" => t = IdToCheck(p)
      /\ mode[p] \notin {"author", "coop"} => t = None
  BY <1>4, FirstTokenIs
<1>6. /\ up'[p] = IF There THEN <<t>> ELSE <<>>
      /\ \A q \in Page \ {p} : up'[q] = up[q]
  BY <1>4, OpenSends, TypeParts DEF Set, WireType
<1>7. RoomKept BY <1>1, <1>2 DEF RoomKept, There
<1>8. at[p] = "board" /\ down'[p] = <<>> /\ room.state # "none" BY <1>1 DEF Good, Wired
<1>9. \A a \in asks[p] : ~Ours(a) BY <1>1 DEF Good, Asked, Fits
<1>10. t \in Keys
  <2>1. None \in Keys /\ invite[p] \in Keys
    BY DEF Keys, RoomTypes, PageTypes, Token, None, Good, Wired
  <2>. QED BY <1>5, <2>1 DEF IdToCheck, Good, Wired
<1>11. Wired(p)'
  <2>1. Keys' = Keys BY <1>2 DEF Keys
  <2>2. up'[p] # <<>> => up'[p][1] \in Keys BY <1>6, <1>10
  <2>3. conn'[p] # "open" => up'[p] = <<>> BY <1>3, <1>6
  <2>. QED BY <1>1, <1>2, <1>3, <1>8, <2>1, <2>2, <2>3 DEF Good, Wired, There
<1>12. Local(p)' /\ (asks'[p] \subseteq asks[p] \cup {b \in Ask : b.do # "ids"} => Known(p)')
  BY <1>1, <1>8 DEF Good, Local, Known, Free, Waits
<1>13. CASE mode[p] = "viewer"
  <2>1. /\ UNCHANGED asks /\ tool'[p] = "move"
        /\ \A q \in Page \ {p} : tool'[q] = tool[q] /\ link'[q] = link[q]
    BY <1>13, OpenSends, TypeParts DEF Set, PenType
  <2>2. OnlyPage(p) BY <1>1, <1>3, <1>6, <2>1 DEF OnlyPage, Still
  <2>3. Asked(p)' BY <1>1, <1>2, <1>9, <2>1 DEF Good, Asked, Fits, Ours, Valid, Keys
  <2>4. Alone(p)' BY <2>1 DEF Good, Alone
  <2>5. Author(p)' /\ Editor(p)' BY <1>1, <1>8, <1>13 DEF Author, Editor
  <2>6. Pen(p)' BY <1>9, <2>1 DEF Pen, Hopeful, Ours, Valid
  <2>7. Shares(p)'
    BY <1>1, <1>9, <1>13, <2>1 DEF Good, Shares, Undisturbed, Linked, LinkToCome, LinkRight, Ours,
       Free
  <2>8. Good(p)' BY <1>11, <1>12, <2>1, <2>3, <2>4, <2>5, <2>6, <2>7 DEF Good
  <2>. QED BY <1>7, <2>2, <2>8, Others
<1>14. CASE mode[p] # "viewer"
  <2>1. PICK do \in {"read", "check"} : do = IF mode[p] = "author" THEN "read" ELSE "check" OBVIOUS
  <2>2. PICK b \in Ask : b = Request(do, t, invite[p]) /\ b.do = do /\ b.key = t /\ b.answer = <<>>
                         /\ b.here = TRUE /\ b.invited = (invite[p] # None)
    <3>1. Request(do, t, invite[p]) \in Ask BY RequestIs
    <3>. QED BY <3>1 DEF Request
  <2>3. /\ asks'[p] = asks[p] \cup {b} /\ UNCHANGED <<link, tool>>
        /\ \A q \in Page \ {p} : asks'[q] = asks[q]
    <3>1. Send(p, b) /\ UNCHANGED <<link, tool>> BY <1>4, <1>14, <2>1, <2>2, OpenSends
    <3>. QED BY <3>1, TypeParts DEF Send, Set, AsksType
  <2>4. OnlyPage(p) BY <1>1, <1>3, <1>6, <2>3 DEF OnlyPage, Still
  <2>5. Asked(p)'
    <3>1. Fits(p, b)'
      <4>1. up'[p] # <<>> => up'[p][1] = t BY <1>6
      <4>2. ~Valid(b) BY <2>2 DEF Valid
      <4>. QED BY <1>1, <1>2, <1>3, <1>8, <1>10, <2>1, <2>2, <4>1, <4>2 DEF Fits, Keys
    <3>2. \A a \in asks[p] : Fits(p, a)'
      BY <1>1, <1>2, <1>9 DEF Good, Asked, Fits, Ours, Valid, Keys
    <3>. QED BY <2>3, <3>1, <3>2 DEF Asked
  <2>6. Alone(p)' BY <1>9, <2>1, <2>2, <2>3 DEF Good, Alone, Ours
  <2>7. Author(p)'
    <3> SUFFICES ASSUME Free({"late"})' PROVE Author(p)' BY DEF Author
    <3>1. Free({"late"}) BY <1>1 DEF Free
    <3>2. mode[p] # "local" BY <1>8, <3>1 DEF Good, Author
    <3>3. ASSUME mode[p] = "author"
          PROVE  /\ keys[p] = Owner /\ (up'[p] # <<>> => up'[p][1] = Owner)
                 /\ \A a \in asks'[p] : a.here => a.do # "check"
                 /\ ~(up'[p] = <<>> /\ conn'[p] = "open")
      <4>1. keys[p] = Owner BY <3>1, <3>3 DEF Good, Author
      <4>2. <<t>> # <<>> /\ <<t>>[1] = t OBVIOUS
      <4>. QED BY <1>3, <1>5, <1>6, <1>9, <2>1, <2>2, <2>3, <3>3, <4>1, <4>2 DEF Ours
    <3>. QED BY <1>1, <1>3, <1>8, <3>2, <3>3, NothingSaid DEF Author
  <2>8. Pen(p)'
    <3> SUFFICES ASSUME conn'[p] = "open", Hopeful(b)' PROVE Trusting(p)'
      BY <1>1, <1>9, <1>14, <2>3 DEF Pen, Hopeful, Ours, Valid
    <3>1. t = room.co /\ b.do = "check" BY <1>2, <2>2 DEF Hopeful, Valid
    <3>2. mode[p] = "coop"
      BY <1>5, <2>1, <2>2, <3>1, Tokens DEF RoomTypes
    <3>3. up'[p] = <<t>> BY <1>3, <1>6
    <3>. QED BY <1>1, <1>2, <1>8, <3>1, <3>2, <3>3, NothingSaid DEF Trusting
  <2>9. Editor(p)'
    <3> SUFFICES ASSUME Free({"late", "reconnected"})', conn'[p] = "open", mode[p] \in {"author",
                        "coop"}
                 PROVE  up'[p] # <<>> /\ up'[p][1] # None
      BY <1>1 DEF Editor
    <3>1. Free({"late"}) BY <1>1 DEF Free
    <3>2. up'[p] = <<t>> BY <1>3, <1>6
    <3>3. t # None
      BY <1>1, <1>5, <3>1, Tokens DEF Good, Author, IdToCheck
    <3>. QED BY <3>2, <3>3
  <2>10. Shares(p)'
    <3> SUFFICES ASSUME Undisturbed' PROVE Linked(p)' /\ LinkToCome(p)' BY DEF Shares
    <3>1. Undisturbed /\ Free({"late"}) BY <1>1 DEF Undisturbed, Free
    <3>2. mode[p] = "author" => b.do = "read" BY <2>1, <2>2
    <3>3. Linked(p)' BY <1>1, <2>2, <2>3, <3>2 DEF Linked, NewLink
    <3>4. LinkRight(p, b)'
      <4>1. mode[p] = "author" => t = Owner BY <1>5, <3>1 DEF Good, Author
      <4>2. b.answer # <<FALSE>> BY <2>2
      <4>. QED BY <1>1, <2>1, <2>2, <4>1, <4>2 DEF LinkRight
    <3>5. \A a \in asks[p] : a.here => LinkRight(p, a)'
      BY <1>1, <1>2, <1>9, <3>1 DEF Good, Shares, LinkToCome, LinkRight, Ours
    <3>. QED BY <2>3, <3>3, <3>4, <3>5 DEF LinkToCome
  <2>11. Known(p)' BY <1>12, <2>1, <2>2, <2>3
  <2>12. Good(p)' BY <1>11, <1>12, <2>5, <2>6, <2>7, <2>8, <2>9, <2>10, <2>11 DEF Good
  <2>. QED BY <1>7, <2>4, <2>12, Others
<1>. QED BY <1>13, <1>14

----------------------------------------------------------------------------
(* The room acts.                                                          *)

(* The room hears of a page, and answers.                                  *)
LEMMA HandleUpStep ==
  ASSUME SessionAssumption, Inv, TypeOK', NEW p \in Page, HandleUp(p)
  PROVE  \A q \in Page : Good(q)'
<1>. TypeOK /\ Good(p) /\ RoomTypes /\ PageTypes(p) BY Typed DEF Inv
<1>1. UNCHANGED <<room, view, keys, storage, conn, asks, odd>> BY DEF HandleUp
<1>2. PICK k \in Key : up[p] = <<k>> BY DEF HandleUp, PageTypes
<1>3. conn[p] = "open" /\ at[p] = "board" /\ up[p] # <<>> /\ up[p][1] = k BY <1>2 DEF Good, Wired
<1>4. /\ up'[p] = <<>> /\ authed'[p] = IF Grants(k) THEN k ELSE None
      /\ \A q \in Page \ {p} : up'[q] = up[q] /\ authed'[q] = authed[q] /\ down'[q] = down[q]
  BY <1>3, TypeParts DEF HandleUp, Set, WireType
<1>5. /\ \A m : Says(down'[p], m) <=>
                  Says(down[p], m) \/ m = "pulled" \/ (m = "bad" /\ k # None /\ ~Grants(k))
      /\ Warned(down[p]) /\ (k # None /\ ~Grants(k) => Says(down[p], "update")) => Warned(down'[p])
  <2>1. /\ down[p] \in Seq(Messages) /\ "pulled" \in Messages /\ "bad" \in Messages
    BY DEF PageTypes, Messages
  <2>2. /\ Append(down[p], "pulled") \in Seq(Messages)
        /\ \A m : Says(Append(down[p], "pulled"), m) <=> Says(down[p], m) \/ m = "pulled"
        /\ Warned(down[p]) => Warned(Append(down[p], "pulled"))
    BY <2>1, AppendSays
  <2>3. /\ \A m : Says(Append(Append(down[p], "pulled"), "bad"), m) <=>
                    Says(Append(down[p], "pulled"), m) \/ m = "bad"
        /\ Warned(Append(down[p], "pulled")) /\ Says(Append(down[p], "pulled"), "update")
             => Warned(Append(Append(down[p], "pulled"), "bad"))
    BY <2>1, <2>2, AppendSays
  <2>4. down'[p] = IF k = None \/ Grants(k) THEN Append(down[p], "pulled")
                   ELSE Append(Append(down[p], "pulled"), "bad")
    BY <1>3, <2>1, ConcatIs, TypeParts DEF HandleUp, Set, WireType
  <2>5. CASE k = None \/ Grants(k) BY <2>2, <2>4, <2>5
  <2>6. CASE ~(k = None \/ Grants(k)) BY <2>2, <2>3, <2>4, <2>6
  <2>. QED BY <2>5, <2>6
<1>6. RoomKept BY <1>1 DEF RoomKept, There
<1>7. OnlyPage(p) BY <1>1, <1>4 DEF OnlyPage, Still, view
<1>8. Wired(p)' BY <1>1, <1>3, <1>4 DEF Good, Wired, There, Keys, view
<1>9. Asked(p)' BY <1>1, <1>4 DEF Good, Asked, Fits, Ours, Valid, Keys, view
<1>10. Alone(p)' BY <1>1 DEF Good, Alone
<1>11. Author(p)'
  <2> SUFFICES ASSUME Free({"late"}), mode[p] = "author"
               PROVE  authed'[p] = Owner /\ ~Says(down'[p], "bad")
    BY <1>1, <1>3, <1>4 DEF Good, Author, Free, view
  <2>1. k = Owner /\ ~Says(down[p], "bad") BY <1>3 DEF Good, Author
  <2>2. Grants(k) BY <2>1, Tokens DEF Grants
  <2>. QED BY <1>4, <1>5, <2>1, <2>2
<1>12. Pen(p)'
  <2>1. Trusting(p) => Trusting(p)'
    <3>1. room.co # None BY Tokens DEF RoomTypes
    <3>2. Trusting(p) => (k # None /\ ~Grants(k) => Says(down[p], "update"))
      BY <1>3, <3>1 DEF Trusting, Grants
    <3>. QED BY <1>1, <1>4, <1>5, <3>2 DEF Trusting, view
  <2>. QED BY <1>1, <2>1 DEF Good, Pen, Hopeful, Valid, Free, view
<1>13. Editor(p)'
  <2>1. Grants(k) => up'[p] = <<>> /\ Grants(authed'[p]) BY <1>4
  <2>2. k # None /\ ~Grants(k) => Says(down'[p], "bad") BY <1>5
  <2>3. \A m : Says(down[p], m) => Says(down'[p], m) BY <1>5
  <2>. QED BY <1>1, <1>3, <2>1, <2>2, <2>3 DEF Good, Editor, Grants, Free, view
<1>14. Shares(p)'
  BY <1>1 DEF Good, Shares, Undisturbed, Linked, NewLink, LinkToCome, LinkRight, Free, There, view
<1>15. Local(p)' /\ Known(p)' BY <1>1 DEF Good, Local, Known, Free, Waits, view
<1>16. Good(p)' BY <1>8, <1>9, <1>10, <1>11, <1>12, <1>13, <1>14, <1>15 DEF Good
<1>. QED BY <1>6, <1>7, <1>16, Others

(* The room ends: nobody is connected to it.                               *)
LEMMA UnloadStep ==
  ASSUME SessionAssumption, Inv, TypeOK', Unload
  PROVE  \A q \in Page : Good(q)'
<1> SUFFICES ASSUME NEW p \in Page PROVE Good(p)' OBVIOUS
<1>. TypeOK /\ Good(p) /\ RoomTypes /\ PageTypes(p) BY Typed DEF Inv
<1>1. /\ UNCHANGED <<view, keys, storage, wire, asks>>
      /\ odd' = odd \cup {"restarted"} /\ conn[p] # "open"
  BY DEF Unload, Blame
<1>2. room'.co = room.co + 1 /\ room'.state = room.state
  BY TypeParts DEF Unload, RoomType
<1>3. room.co \in Nat /\ Keys \subseteq Keys' /\ Owner \in Nat
  <2>1. room.co \in Nat /\ Owner \in Nat BY DEF RoomTypes, Token, Owner, SessionAssumption
  <2>. QED BY <1>2, <2>1 DEF Keys
<1>4. Wired(p)'
  <2>1. invite[p] <= room.co => invite[p] <= room.co + 1 BY <1>3 DEF PageTypes, None, Token
  <2>. QED BY <1>1, <1>2, <1>3, <2>1 DEF Good, Wired, view, wire
<1>5. Asked(p)' BY <1>1, <1>2, <1>3 DEF Good, Asked, Fits, Ours, Valid, view, wire
<1>6. Alone(p)' BY <1>1 DEF Good, Alone
<1>7. Author(p)' /\ Known(p)' BY <1>1 DEF Good, Author, Known, Free, Waits, view, wire
<1>8. Pen(p)' /\ Editor(p)' BY <1>1 DEF Pen, Editor, wire
<1>9. Shares(p)' BY <1>1 DEF Shares, Undisturbed, Free
<1>10. Local(p)' BY <1>1 DEF Good, Local, Free, Waits, view
<1>. QED BY <1>4, <1>5, <1>6, <1>7, <1>8, <1>9, <1>10 DEF Good

(* The co-editors' token is renewed: what it means for a page.             *)
Renewed ==
  /\ room'.co = room.co + 1 /\ room.co < MaxToken
  /\ room'.state = room.state /\ room'.live = room.live /\ odd \subseteq odd'

(* The requests old of a page have the answers new.                        *)
Answering(q, old, new) ==
  /\ old \subseteq asks[q] /\ asks'[q] = (asks[q] \ old) \cup new
  /\ \A a \in old : a.do = "rotate"
  /\ \A b \in new : /\ b.do = "rotate" /\ b.answer = <<TRUE, room.co + 1>>
                    /\ \E a \in old : b.here = a.here
  /\ \A b, c \in new : b = c
  /\ old = {} /\ mode[q] = "author" => "elsewhere" \in odd'
  /\ old # {} => new # {}

(* A page keeps its part of the invariant when the token is renewed, if it *)
(* asked for that or is told.                                              *)
LEMMA RenewedStep ==
  ASSUME SessionAssumption, Inv, TypeOK', Renewed, NEW q \in Page, Still(q),
         storage'[q] = storage[q],
         down'[q] = IF conn[q] = "open" THEN Append(down[q], "update") ELSE down[q],
         \E old, new : Answering(q, old, new),
         Waits(q, "read") => "crossed" \in odd'
  PROVE  Good(q)'
<1>0. PICK old, new : Answering(q, old, new) OBVIOUS
<1>. /\ old \subseteq asks[q] /\ asks'[q] = (asks[q] \ old) \cup new
     /\ \A a \in old : a.do = "rotate"
     /\ \A b \in new : /\ b.do = "rotate" /\ b.answer = <<TRUE, room.co + 1>>
                       /\ \E a \in old : b.here = a.here
     /\ \A b, c \in new : b = c
     /\ old = {} /\ mode[q] = "author" => "elsewhere" \in odd'
     /\ old # {} => new # {}
  BY <1>0 DEF Answering
<1>. TypeOK /\ Good(q) /\ RoomTypes /\ PageTypes(q) BY Typed DEF Inv
<1>1. /\ down[q] = <<>> /\ conn[q] # "open" => down'[q] = <<>>
      /\ \A m : Says(down'[q], m) <=> Says(down[q], m) \/ (m = "update" /\ conn[q] = "open")
      /\ Warned(down[q]) => Warned(down'[q])
  <2>1. CASE conn[q] # "open" BY <2>1
  <2>2. CASE conn[q] = "open"
    <3>1. down[q] \in Seq(Messages) /\ "update" \in Messages BY DEF PageTypes, Messages
    <3>2. down'[q] = Append(down[q], "update") BY <2>2
    <3>. QED BY <2>2, <3>1, <3>2, AppendSays
  <2>. QED BY <2>1, <2>2
<1>2. /\ room.co \in Nat /\ MaxToken \in Nat /\ Owner = MaxToken + 1 /\ Keys \subseteq Keys'
      /\ room'.co \notin Keys
  <2>1. room.co \in Nat /\ MaxToken \in Nat /\ Owner = MaxToken + 1
    BY DEF RoomTypes, Token, Owner, SessionAssumption
  <2>. QED BY <2>1 DEF Keys, Renewed
<1>3. Wired(q)'
  <2>1. invite[q] <= room.co => invite[q] <= room.co + 1 BY <1>2 DEF PageTypes, None, Token
  <2>. QED BY <1>1, <1>2, <2>1 DEF Good, Wired, Still, Renewed, There
<1>4. Asked(q)'
  <2>1. ASSUME NEW c \in asks[q] PROVE Fits(q, c)'
    BY <1>2 DEF Good, Asked, Fits, Ours, Valid, Still, Renewed
  <2>2. ASSUME NEW c \in new PROVE Fits(q, c)'
    BY DEF Fits, Ours
  <2>. QED BY <2>1, <2>2 DEF Asked
<1>5. Alone(q)'
  <2>1. ASSUME NEW c \in new PROVE ~Ours(c) /\ \A d \in asks[q] \ old : d.do # "rotate"
    <3>1. PICK a \in old : a.do = "rotate" OBVIOUS
    <3>. QED BY <3>1 DEF Good, Alone, Ours
  <2>. QED BY <2>1 DEF Good, Alone
<1>6. Author(q)' /\ Known(q)'
  BY <1>1 DEF Good, Author, Known, Free, Waits, Still, Renewed
<1>7. Pen(q)'
  <2>1. \A c \in asks'[q] : Hopeful(c)' => c \in asks[q] /\ Hopeful(c)
    BY <1>2 DEF Hopeful, Valid, Good, Asked, Fits
  <2>2. conn[q] = "open" /\ Trusting(q) => Trusting(q)' BY <1>1 DEF Trusting, Still
  <2>. QED BY <2>1, <2>2 DEF Good, Pen, Free, Still, Renewed
<1>8. Editor(q)'
  <2> SUFFICES ASSUME Free({"late", "reconnected"}), conn[q] = "open", mode[q] = "author"
               PROVE  \/ up[q] # <<>> /\ up[q][1] # None
                      \/ up[q] = <<>> /\ Grants(authed[q])'
    BY <1>1 DEF Editor, Free, Still, Renewed, Grants
  <2>1. (up[q] # <<>> => up[q][1] = Owner) /\ (up[q] = <<>> => authed[q] = Owner)
    BY DEF Good, Author, Free
  <2>. QED BY <2>1, Tokens DEF Grants, Still
<1>9. Shares(q)'
  <2> SUFFICES ASSUME Undisturbed' PROVE Linked(q)' /\ LinkToCome(q)' BY DEF Shares
  <2>1. /\ Undisturbed /\ LinkToCome(q) /\ ~Waits(q, "read")
        /\ old = {} => mode[q] # "author"
    BY DEF Undisturbed, Free, Renewed, Good, Shares
  <2>2. ASSUME NEW c \in asks[q] \ old, c.here PROVE c.do \notin {"read", "rotate"}
    <3>1. c.do # "read" BY <2>1 DEF Waits
    <3>2. ASSUME c.do = "rotate" PROVE FALSE
      <4>1. mode[q] = "author" BY <2>1, <2>2, <3>2 DEF LinkToCome, LinkRight
      <4>2. PICK d \in old : d.do = "rotate" BY <2>1, <4>1
      <4>. QED BY <3>2, <4>2 DEF Good, Alone
    <3>. QED BY <3>1, <3>2
  <2>3. \A b \in new : b.here => mode[q] = "author" BY <2>1 DEF LinkToCome, LinkRight
  <2>4. \A b \in new : b.answer = <<TRUE, room'.co>> /\ b.answer[2] = room'.co
    <3>1. \A b \in new : b.answer = <<TRUE, room'.co>> BY DEF Renewed
    <3>2. <<TRUE, room'.co>>[2] = room'.co OBVIOUS
    <3>. QED BY <3>1, <3>2
  <2>5. LinkToCome(q)' BY <2>2, <2>3, <2>4 DEF LinkToCome, LinkRight, Still
  <2>6. Linked(q)' BY <2>1, <2>4 DEF Linked, NewLink, Still
  <2>. QED BY <2>5, <2>6
<1>10. Local(q)' BY DEF Good, Local, Free, Waits, Still, Renewed
<1>. QED BY <1>3, <1>4, <1>5, <1>6, <1>7, <1>8, <1>9, <1>10 DEF Good

(* The room has a new token, or refuses.                                   *)
LEMMA UpdateCoEditorTokenStep ==
  ASSUME SessionAssumption, Inv, TypeOK', NEW p \in Page, NEW a \in asks[p],
         UpdateCoEditorToken(p, a)
  PROVE  \A q \in Page : Good(q)'
<1>. TypeOK /\ RoomTypes BY Typed DEF Inv
<1>1. /\ UNCHANGED <<view, keys, storage, conn, authed, up>>
      /\ a.do = "rotate" /\ a.answer = <<>>
  BY DEF UpdateCoEditorToken, Unserved
<1>2. CASE ~(room.live /\ Grants(a.key))
  <2>1. Served(p, a, <<FALSE>>) /\ UNCHANGED <<room, down, odd>> BY <1>2 DEF UpdateCoEditorToken
  <2>2. ServedRight(a, <<FALSE>>) /\ RoomKept BY <1>1, <2>1 DEF ServedRight, RoomKept, There
  <2>3. UNCHANGED wire BY <1>1, <2>1 DEF wire
  <2>. QED BY <1>1, <2>1, <2>2, <2>3, ServedAll
<1>3. CASE room.live /\ Grants(a.key)
  <2>1. /\ room.co < MaxToken /\ room' = [room EXCEPT !.co = room.co + 1]
        /\ down' = Tell("update") /\ Served(p, a, <<TRUE, room.co + 1>>)
        /\ odd' = odd \cup (If("elsewhere", \E q \in Page \ {p} : mode[q] = "author")
                            \cup If("crossed", \E q \in Page : Waits(q, "read")))
    BY <1>3 DEF UpdateCoEditorToken, Blame
  <2>2. Renewed BY <2>1, TypeParts DEF RoomType, Renewed
  <2>3. PICK b : /\ b = [a EXCEPT !.answer = <<TRUE, room.co + 1>>]
                 /\ b.do = "rotate" /\ b.answer = <<TRUE, room.co + 1>> /\ b.here = a.here
    <3>1. a \in Ask BY TypeParts DEF AsksType
    <3>2. room.co + 1 \in Key BY <2>1, Tokens DEF RoomTypes
    <3>. DEFINE w == <<TRUE, room.co + 1>>
    <3>3. w \in {<<>>, <<FALSE>>} \cup {<<TRUE, k>> : k \in Key} BY <3>2
    <3>. HIDE DEF w
    <3>4. LET b == [a EXCEPT !.answer = w] IN b.do = a.do /\ b.answer = w /\ b.here = a.here
      BY <3>1, <3>3, AnsweredIs DEF SameRequest
    <3>. QED BY <1>1, <3>4 DEF w
  <2>4. asks'[p] = (asks[p] \ {a}) \cup {b} /\ \A q \in Page \ {p} : asks'[q] = asks[q]
    BY <2>1, <2>3, TypeParts DEF Served, Set, AsksType
  <2>5. ASSUME NEW q \in Page
        PROVE  /\ Still(q) /\ storage'[q] = storage[q]
               /\ down'[q] = IF conn[q] = "open" THEN Append(down[q], "update") ELSE down[q]
               /\ Waits(q, "read") => "crossed" \in odd'
               /\ q # p /\ mode[q] = "author" => "elsewhere" \in odd'
    <3>1. Still(q) /\ storage'[q] = storage[q] BY <1>1 DEF Still, view
    <3>2. down'[q] = IF conn[q] = "open" THEN Append(down[q], "update") ELSE down[q]
      BY <2>1 DEF Tell
    <3>. QED BY <2>1, <3>1, <3>2 DEF If
  <2>6. Good(p)'
    <3>1. Answering(p, {a}, {b}) BY <1>1, <2>3, <2>4 DEF Answering
    <3>. QED BY <2>2, <2>5, <3>1, RenewedStep
  <2>7. ASSUME NEW q \in Page \ {p} PROVE Good(q)'
    <3>1. asks'[q] = (asks[q] \ {}) \cup {} /\ q # p BY <2>4
    <3>2. Answering(q, {}, {}) BY <2>5, <3>1 DEF Answering
    <3>. QED BY <2>2, <2>5, <3>2, RenewedStep
  <2>. QED BY <2>6, <2>7
<1>. QED BY <1>2, <1>3

----------------------------------------------------------------------------
(* The keys.                                                               *)

(* A page writes a key of its, but not over an author's.                   *)
Rewrites(p) == \E k \in Key, R \in SUBSET Reason :
  SetKey(p, k, R) /\ (keys[p] = Owner /\ Free({"early", "late"})' => k = Owner)

(* An answer to a check does not find an author.                           *)
LEMMA CheckedIsNoAuthor ==
  ASSUME Inv, NEW p \in Page, NEW a \in asks[p], a.do = "check", ~a.here => "late" \in odd',
         odd \subseteq odd', Free({"early", "late"})'
  PROVE  keys[p] # Owner
<1>1. Ours(a) /\ Free({"early", "late"}) /\ Free({"late"}) BY DEF Ours, Free
<1>2. at[p] = "board" /\ mode[p] # "author" BY <1>1, OursAt
<1>. QED BY <1>1, <1>2 DEF Inv, Good, Known

(* How the keys of the pages and of the browser change.                    *)
LEMMA KeysStep ==
  ASSUME SessionAssumption, Inv, [Next]_vars
  PROVE  \/ UNCHANGED <<keys, storage>> /\ odd \subseteq odd'
         \/ \E p \in Page : Reload(p)
         \/ \E p \in Page : LogOut(p)
         \/ \E p \in Page : Rewrites(p)
<1>. TypeOK BY DEF Inv
<1>. DEFINE Moved == \/ UNCHANGED <<keys, storage>> /\ odd \subseteq odd'
                     \/ \E p \in Page : Reload(p)
                     \/ \E p \in Page : LogOut(p)
                     \/ \E p \in Page : Rewrites(p)
<1> SUFFICES Moved OBVIOUS
<1>1. ASSUME NEW p \in Page, NEW k \in Key, NEW R \in SUBSET Reason, SetKey(p, k, R),
             keys[p] = Owner /\ Free({"early", "late"})' => k = Owner
      PROVE  Moved
  BY <1>1 DEF Rewrites
<1>2. ASSUME NEW p \in Page, AuthBad(p) PROVE Moved
  <2>1. SetKey(p, None, {}) /\ Msg(p, "bad") BY <1>2 DEF AuthBad, GiveUp
  <2>2. conn[p] = "open" /\ Says(down[p], "bad") BY <2>1, MsgIs
  <2>3. ASSUME keys[p] = Owner, Free({"early", "late"})' PROVE FALSE
    <3>1. Free({"early", "late"}) /\ Free({"late"}) BY <2>1, <2>3 DEF Free, SetKey, Blame
    <3>. QED BY <2>2, <2>3, <3>1 DEF Inv, Good, Wired, Known, Author
  <2>. QED BY <1>1, <2>1, <2>3, Tokens
<1>3. ASSUME NEW p \in Page, UpdateCoEditor(p) PROVE Moved
  <2>. DEFINE R == If("crossed", Waits(p, "check"))
  <2>1. CASE mode[p] = "coop"
    <3>1. SetKey(p, None, R) /\ Msg(p, "update") BY <1>3, <2>1 DEF UpdateCoEditor, GiveUp
    <3>2. conn[p] = "open" /\ odd \subseteq odd' BY <3>1, MsgIs DEF SetKey, Blame
    <3>3. ASSUME keys[p] = Owner, Free({"early", "late"})' PROVE FALSE
      <4>1. Free({"early", "late"}) BY <3>2, <3>3 DEF Free
      <4>. QED BY <2>1, <3>2, <3>3, <4>1 DEF Inv, Good, Wired, Known
    <3>4. R \in SUBSET Reason BY DEF If, Reason
    <3>. QED BY <1>1, <3>1, <3>3, <3>4, Tokens
  <2>2. CASE mode[p] # "coop" BY <1>3, <2>2 DEF UpdateCoEditor, Blame
  <2>. QED BY <2>1, <2>2
<1>4. ASSUME NEW p \in Page, NEW a \in asks[p], CheckValid(p, a) PROVE Moved
  <2>1. SetKey(p, a.key, Late(a)) /\ a.do = "check" BY <1>4 DEF CheckValid, Answered
  <2>2. odd \subseteq odd' /\ (~a.here => "late" \in odd') BY <2>1 DEF SetKey, Blame, Late, If
  <2>3. a.key \in Key /\ Late(a) \in SUBSET Reason
    BY AskFields, TypeParts DEF AsksType, Late, If, Reason
  <2>. QED BY <1>1, <2>1, <2>2, <2>3, CheckedIsNoAuthor
<1>5. ASSUME NEW p \in Page, NEW a \in asks[p], CheckInvalid(p, a) PROVE Moved
  <2>1. SetKey(p, None, Late(a)) /\ a.do = "check" BY <1>5 DEF CheckInvalid, Answered
  <2>2. odd \subseteq odd' /\ (~a.here => "late" \in odd') BY <2>1 DEF SetKey, Blame, Late, If
  <2>3. None \in Key /\ Late(a) \in SUBSET Reason BY Tokens DEF Late, If, Reason
  <2>. QED BY <1>1, <2>1, <2>2, <2>3, CheckedIsNoAuthor
<1>6. ASSUME NEW p \in Page, NEW a \in asks[p], IdsDone(p, a) PROVE Moved
  <2>1. CASE SetKey(p, Owner, {}) BY <1>1, <2>1, Tokens
  <2>2. CASE UNCHANGED <<keys, storage, odd>> BY <2>2
  <2>. QED BY <1>6, <2>1, <2>2 DEF IdsDone
<1>7. ASSUME NEW p \in Page, NEW a \in asks[p], Created(p, a) PROVE Moved
  <2>1. SetKey(p, Owner, Late(a)) /\ Late(a) \in SUBSET Reason
    BY <1>7 DEF Created, Late, If, Reason
  <2>. QED BY <1>1, <2>1, Tokens
<1>8. ASSUME NEW p \in Page, Draw(p) PROVE Moved
  <2>1. SetKey(p, keys[p], {}) /\ keys[p] \in Key BY <1>8, TypeParts DEF Draw, StoreType
  <2>. QED BY <1>1, <2>1
<1>9. ASSUME NEW p \in Page, Reload(p) \/ LogOut(p) PROVE Moved BY <1>9
<1>10. ASSUME \/ \E p \in Page, place \in {"home", "new", "board"},
                       i \in {None} \cup Token : Go(p, place, i)
              \/ \E p \in Page : \/ Open(p) \/ Lost(p) \/ Reconnected(p) \/ HandleUp(p)
                                 \/ Pulled(p) \/ Quit(p)
              \/ Unload \/ UNCHANGED vars
              \/ \E p \in Page : ChooseTool(p) \/ Share(p) \/ ExpireCoEditors(p) \/ Delete(p)
       PROVE  Moved
  <2>1. CASE \E p \in Page, place \in {"home", "new", "board"}, i \in {None} \cup Token : Go(p, place, i)
    BY <2>1 DEF Go, Blame
  <2>2. ASSUME NEW p \in Page, Open(p) \/ Lost(p) \/ Reconnected(p) PROVE Moved
    <3>1. CASE Open(p) BY <3>1 DEF Open
    <3>2. CASE Lost(p) BY <3>2 DEF Lost
    <3>3. CASE Reconnected(p)
      <4>1. UNCHANGED <<keys, storage>> /\ odd' = odd \cup {"reconnected"}
        BY <3>3 DEF Reconnected, Blame
      <4>. QED BY <4>1
    <3>. HIDE DEF Moved
    <3>. QED BY <2>2, <3>1, <3>2, <3>3
  <2>3. CASE \E p \in Page : HandleUp(p) \/ Pulled(p) \/ Quit(p) BY <2>3 DEF HandleUp, Pulled, Quit, Blame
  <2>4. CASE Unload \/ UNCHANGED vars BY <2>4 DEF Unload, vars, Blame
  <2>5. CASE \E p \in Page : ChooseTool(p) \/ Share(p) BY <2>5 DEF ChooseTool, Share, Blame
  <2>6. CASE \E p \in Page : ExpireCoEditors(p) \/ Delete(p) BY <2>6 DEF ExpireCoEditors, Delete, Blame
  <2>. HIDE DEF Moved
  <2>. QED BY <1>10, <2>1, <2>2, <2>3, <2>4, <2>5, <2>6
<1>11. ASSUME NEW p \in Page, NEW a \in asks[p],
              \/ ReadCoEditors(p, a) \/ CheckCoEditor(p, a) \/ UpdateCoEditorToken(p, a)
              \/ PrivateIds(p, a) \/ CreateRoom(p, a) \/ ReadDone(p, a)
              \/ RequestFailed(p, a) \/ RotateDone(p, a) \/ CreateFailed(p, a)
       PROVE  Moved
  BY <1>11 DEF ReadCoEditors, CheckCoEditor, UpdateCoEditorToken, PrivateIds, CreateRoom, ReadDone,
               RequestFailed, RotateDone, CreateFailed, Blame
<1>. HIDE DEF Moved
<1>. QED BY <1>2, <1>3, <1>4, <1>5, <1>6, <1>7, <1>8, <1>9, <1>10, <1>11 DEF Next

(* A step keeps the author's key where it is kept.                         *)
LEMMA KeptStep == ASSUME SessionAssumption, Inv, [Next]_vars PROVE Kept'
<1>. TypeOK /\ Kept /\ WhoType BY TypeParts DEF Inv
<1>. (tabs \in BOOLEAN) /\ tabs' = tabs BY Users DEF WhoType
<1>1. CASE UNCHANGED <<keys, storage>> /\ odd \subseteq odd' BY <1>1 DEF Kept, Free
<1>2. ASSUME NEW p \in Page, Reload(p) PROVE Kept'
  <2>1. /\ UNCHANGED <<storage, odd>> /\ keys'[p] = storage[p]
        /\ \A q \in Page \ {p} : keys'[q] = keys[q]
    BY <1>2, TypeParts DEF Reload, Set, StoreType
  <2>. QED BY <2>1 DEF Kept, Free
<1>3. ASSUME NEW p \in Page, Rewrites(p) PROVE Kept'
  <2>1. PICK k \in Key, R \in SUBSET Reason :
          SetKey(p, k, R) /\ (keys[p] = Owner /\ Free({"early", "late"})' => k = Owner)
    BY <1>3 DEF Rewrites
  <2>2. /\ keys'[p] = k /\ storage'[p] = k
        /\ \A q \in Page \ {p} : keys'[q] = keys[q] /\ storage'[q] = IF tabs THEN k ELSE storage[q]
        /\ odd \subseteq odd'
        /\ Owner \notin {keys[p], k} /\ storage[p] = Owner => "tabs" \in odd'
    BY <2>1, SetKeyIs
  <2>3. \A q, r \in Page : tabs' => storage'[q] = storage'[r] BY <2>2
  <2>4. ASSUME NEW q \in Page, Free({"tabs", "early", "late"})', keys'[q] = Owner
        PROVE  storage'[q] = Owner
    <3>1. CASE q = p BY <2>2, <2>4, <3>1
    <3>2. CASE q # p
      <4>1. keys[q] = Owner /\ storage[q] = Owner BY <2>2, <2>4, <3>2 DEF Kept, Free
      <4>2. CASE ~tabs BY <2>2, <3>2, <4>1, <4>2
      <4>3. CASE tabs
        <5>1. storage[p] = Owner BY <4>1, <4>3 DEF Kept
        <5>2. k = Owner BY <2>1, <2>2, <2>4, <5>1 DEF Free
        <5>. QED BY <2>2, <3>2, <4>3, <5>2
      <4>. QED BY <4>2, <4>3
    <3>. QED BY <3>1, <3>2
  <2>. QED BY <2>3, <2>4 DEF Kept
<1>4. ASSUME NEW p \in Page, LogOut(p) PROVE Kept'
  <2>1. SetKey(p, None, SignedOut(p)) BY <1>4 DEF LogOut, SignedOut
  <2>2. /\ keys'[p] = None
        /\ \A q \in Page \ {p} : keys'[q] = keys[q] /\ storage'[q] = IF tabs THEN None ELSE storage[q]
        /\ storage'[p] = None /\ odd \subseteq odd' /\ SignedOut(p) \subseteq odd'
    BY <2>1, SetKeyIs
  <2>3. tabs /\ storage[p] = Owner => "tabs" \in odd' BY <2>2 DEF SignedOut, If
  <2>4. \A q, r \in Page : tabs' => storage'[q] = storage'[r] BY <2>2
  <2>5. ASSUME NEW q \in Page, Free({"tabs", "early", "late"})', keys'[q] = Owner
        PROVE  storage'[q] = Owner
    <3>1. q # p BY <2>2, <2>5, Tokens
    <3>2. keys[q] = Owner /\ storage[q] = Owner BY <2>2, <2>5, <3>1 DEF Kept, Free
    <3>3. ~tabs BY <2>3, <2>5, <3>2 DEF Kept, Free
    <3>. QED BY <2>2, <3>1, <3>2, <3>3
  <2>. QED BY <2>4, <2>5 DEF Kept
<1>. QED BY <1>1, <1>2, <1>3, <1>4, KeysStep

----------------------------------------------------------------------------
(* The theorems.                                                           *)

(* The invariant holds at first.                                           *)
LEMMA InitGood == ASSUME SessionAssumption PROVE Init => Inv
<1> SUFFICES ASSUME Init PROVE Inv OBVIOUS
<1>. TypeOK BY InitType
<1>1. Kept BY DEF Init, Kept
<1>2. ASSUME NEW p \in Page PROVE Good(p)
  <2>. RoomTypes /\ PageTypes(p) BY Typed
  <2>1. /\ at[p] = "home" /\ invite[p] = None /\ mode[p] = "local" /\ drawn[p] = FALSE
        /\ loading[p] = FALSE /\ conn[p] = "none" /\ up[p] = <<>> /\ down[p] = <<>>
        /\ asks[p] = Launched(p) /\ keys[p] = storage[p] /\ storage[p] \in {None, Owner}
    BY DEF Init
  <2>2. \A a \in asks[p] : a = Request("ids", None, None) /\ a.do = "ids" /\ a.answer = <<>>
    <3>1. Request("ids", None, None).do = "ids" /\ Request("ids", None, None).answer = <<>>
      BY DEF Request
    <3>. QED BY <2>1, <3>1 DEF Launched
  <2>3. Wired(p)
    <3>1. None <= room.co /\ None \in Keys /\ Owner \in Keys BY DEF Keys, RoomTypes, Token, None
    <3>. QED BY <2>1, <3>1 DEF Wired
  <2>4. Asked(p) /\ Alone(p) BY <2>2 DEF Asked, Fits, Ours, Alone
  <2>5. Author(p) /\ Pen(p) /\ Editor(p) /\ Local(p) /\ Known(p)
    BY <2>1 DEF Author, Pen, Editor, Local, Known
  <2>6. Shares(p) BY <2>1, <2>2 DEF Shares, Linked, LinkToCome, LinkRight
  <2>. QED BY <2>3, <2>4, <2>5, <2>6 DEF Good
<1>. QED BY <1>1, <1>2 DEF Inv

(* Nothing happens.                                                        *)
LEMMA StutterStep ==
  ASSUME SessionAssumption, Inv, TypeOK', UNCHANGED vars
  PROVE  \A q \in Page : Good(q)'
<1>1. UNCHANGED <<room, view, wire, keys, storage, asks, odd>> BY DEF vars
<1>2. RoomKept BY <1>1 DEF RoomKept, There
<1> SUFFICES ASSUME NEW q \in Page PROVE Good(q)' OBVIOUS
<1>3. Still(q) /\ asks'[q] = asks[q] /\ down'[q] = down[q] /\ storage'[q] = storage[q]
  BY <1>1 DEF Still, view, wire
<1>. QED BY <1>2, <1>3, CalmStep DEF Inv

(* Every step keeps the invariant.                                         *)
LEMMA InvStep == ASSUME SessionAssumption, Inv, [Next]_vars PROVE Inv'
<1>1. TypeOK' BY TypeStep DEF Inv
<1>2. Kept' BY KeptStep
<1>3. \A q \in Page : Good(q)'
  BY <1>1, GoStep, ReloadStep, OpenStep, LostStep, ReconnectedStep, HandleUpStep, UnloadStep,
     PulledStep, AuthBadStep, UpdateCoEditorStep, QuitStep, ReadCoEditorsStep, CheckCoEditorStep,
     UpdateCoEditorTokenStep, PrivateIdsStep, CreateRoomStep, ReadDoneStep, CheckValidStep,
     CheckInvalidStep, RequestFailedStep, RotateDoneStep, IdsDoneStep, CreatedStep,
     CreateFailedStep, DrawStep, ChooseToolStep, ShareStep, ExpireCoEditorsStep, DeleteStep,
     LogOutStep, StutterStep DEF Next
<1>. QED BY <1>1, <1>2, <1>3 DEF Inv

(* Every reachable state has its type.                                     *)
THEOREM TypeCorrect == SessionAssumption => (Spec => []TypeOK)
<1> SUFFICES ASSUME SessionAssumption PROVE Spec => []TypeOK OBVIOUS
<1>1. Init => TypeOK BY InitType
<1>2. TypeOK /\ [Next]_vars => TypeOK' BY TypeStep
<1>. QED BY <1>1, <1>2, PTL DEF Spec

(* The invariant holds.                                                    *)
THEOREM SessionInvariant == SessionAssumption => (Spec => []Inv)
<1> SUFFICES ASSUME SessionAssumption PROVE Spec => []Inv OBVIOUS
<1>1. Init => Inv BY InitGood
<1>2. Inv /\ [Next]_vars => Inv' BY InvStep
<1>. QED BY <1>1, <1>2, PTL DEF Spec

(* A page that joined as a viewer cannot draw (joinRoom.ts:80).            *)
THEOREM ViewerHolds == SessionAssumption => (Spec => []ViewerCannotDraw)
<1> SUFFICES ASSUME SessionAssumption PROVE Spec => []ViewerCannotDraw OBVIOUS
<1>1. Inv => ViewerCannotDraw BY DEF Inv, Good, Pen, Free, ViewerCannotDraw
<1>. QED BY <1>1, SessionInvariant, PTL

(* Who draws on a shared board is an editor for the room too.              *)
THEOREM EditorHolds == SessionAssumption => (Spec => []EditorAuthed)
<1> SUFFICES ASSUME SessionAssumption PROVE Spec => []EditorAuthed OBVIOUS
<1>1. Inv => EditorAuthed BY NothingSaid DEF Inv, Good, Editor, Free, EditorAuthed, Joined
<1>. QED BY <1>1, SessionInvariant, PTL

(* The invitation that the author copies is good (ShareBar.tsx:45).        *)
THEOREM LinkHolds == SessionAssumption => (Spec => []LinkCurrent)
<1> SUFFICES ASSUME SessionAssumption PROVE Spec => []LinkCurrent OBVIOUS
<1>1. Inv => LinkCurrent
  BY DEF Inv, Good, Shares, Undisturbed, Linked, NewLink, Waits, Free, LinkCurrent, Joined
<1>. QED BY <1>1, SessionInvariant, PTL

(* What a step takes from a local board.                                   *)
LEMMA DrawnStep ==
  ASSUME SessionAssumption, Inv, [Next]_vars, NEW p \in Page, drawn[p], ~drawn'[p]
  PROVE  \/ Reload(p) \/ Share(p) \/ LogOut(p)
         \/ \E place \in {"home", "new", "board"}, i \in {None} \cup Token : Go(p, place, i)
         \/ "late" \in odd'
<1>. TypeOK /\ Good(p) BY DEF Inv
<1>1. at[p] = "new" BY DEF Good, Wired
<1>2. ASSUME NEW a \in asks[p], a.do \in {"read", "check"}, ~a.here => "late" \in odd'
      PROVE  "late" \in odd'
  BY <1>1, <1>2, OursAt DEF Ours, Inv
<1>3. ASSUME NEW q \in Page, q # p
      PROVE  \A k, place, i, R : Arrive(q, place, i, k) => drawn'[p] = drawn[p]
  BY <1>3, TypeParts DEF Arrive, Set, ViewType
<1>4. ASSUME NEW q \in Page, NEW a \in asks[q], NEW k, Done(q, a, k) PROVE q = p
  <2>1. CASE a.invited
    <3>1. Arrive(q, "board", None, k) BY <1>4, <2>1 DEF Done
    <3>. QED BY <1>3, <3>1
  <2>2. CASE ~a.invited BY <1>4, <2>2 DEF Done
  <2>. QED BY <2>1, <2>2
<1>5. ASSUME NEW q \in Page, NEW place \in {"home", "new", "board"}, NEW i \in {None} \cup Token,
             Go(q, place, i)
      PROVE  Go(p, place, i)
  <2>1. Arrive(q, place, i, keys[q]) BY <1>5 DEF Go
  <2>. QED BY <1>3, <1>5, <2>1
<1>6. ASSUME NEW q \in Page, Reload(q) \/ Share(q) PROVE Reload(p) \/ Share(p)
  <2>1. drawn' = Set(drawn, q, FALSE) BY <1>6 DEF Reload, Share
  <2>2. q = p BY <2>1, TypeParts DEF Set, ViewType
  <2>. QED BY <1>6, <2>2
<1>15. ASSUME NEW q \in Page, LogOut(q) PROVE LogOut(p)
  <2>1. Arrive(q, "home", None, None) BY <1>15 DEF LogOut
  <2>. QED BY <1>3, <1>15, <2>1
<1>7. ASSUME NEW q \in Page, NEW a \in asks[q], ReadDone(q, a) PROVE "late" \in odd'
  <2>1. q = p BY <1>4, <1>7 DEF ReadDone
  <2>. QED BY <1>2, <1>7, <2>1 DEF ReadDone, Answered, Blame, Late, If
<1>8. ASSUME NEW q \in Page, NEW a \in asks[q], CheckValid(q, a) PROVE "late" \in odd'
  <2>1. q = p BY <1>4, <1>8 DEF CheckValid
  <2>. QED BY <1>2, <1>8, <2>1 DEF CheckValid, Answered, SetKey, Blame, Late, If
<1>9. ASSUME NEW q \in Page, NEW a \in asks[q], CheckInvalid(q, a) PROVE "late" \in odd'
  <2>1. ASSUME a.invited PROVE q = p
    <3>1. Done(q, a, None) BY <1>9, <2>1 DEF CheckInvalid
    <3>. QED BY <1>4, <3>1
  <2>2. ASSUME ~a.invited PROVE q = p
    <3>1. drawn' = Set(drawn, q, FALSE) BY <1>9, <2>2 DEF CheckInvalid
    <3>. QED BY <3>1, TypeParts DEF Set, ViewType
  <2>3. q = p BY <2>1, <2>2
  <2>. QED BY <1>2, <1>9, <2>3 DEF CheckInvalid, Answered, SetKey, Blame, Late, If
<1>10. ASSUME NEW q \in Page, NEW a \in asks[q], RequestFailed(q, a) PROVE "late" \in odd'
  <2>1. ASSUME a.invited PROVE q = p
    <3>1. Done(q, a, keys[q]) BY <1>10, <2>1 DEF RequestFailed
    <3>. QED BY <1>4, <3>1
  <2>2. ASSUME ~a.invited PROVE q = p BY <1>10, <2>2 DEF RequestFailed
  <2>3. q = p BY <2>1, <2>2
  <2>. QED BY <1>2, <1>10, <2>3 DEF RequestFailed, Answered, Blame, Late, If
<1>11. ASSUME NEW q \in Page, NEW a \in asks[q], Created(q, a) PROVE "late" \in odd'
  <2>1. Arrive(q, "board", None, Owner) BY <1>11 DEF Created
  <2>2. q = p BY <1>3, <2>1
  <2>3. a.do = "create" /\ (~a.here => "late" \in odd')
    BY <1>11 DEF Created, Answered, SetKey, Blame, Late, If
  <2>. QED BY <2>2, <2>3 DEF Good, Asked, Fits
<1>12. ASSUME NEW q \in Page, Draw(q) PROVE FALSE
  BY <1>12, TypeParts DEF Draw, Set, ViewType
<1>13. ASSUME \/ \E q \in Page : \/ Open(q) \/ Lost(q) \/ Reconnected(q) \/ HandleUp(q) \/ Pulled(q)
                                 \/ AuthBad(q) \/ UpdateCoEditor(q) \/ Quit(q)
                                 \/ ChooseTool(q) \/ ExpireCoEditors(q) \/ Delete(q)
              \/ Unload \/ UNCHANGED vars
       PROVE  FALSE
  BY <1>13 DEF Open, Lost, Reconnected, HandleUp, Pulled, AuthBad, UpdateCoEditor, Quit, ChooseTool,
               ExpireCoEditors, Delete, Unload, vars, view
<1>14. ASSUME NEW q \in Page, NEW a \in asks[q],
              \/ ReadCoEditors(q, a) \/ CheckCoEditor(q, a) \/ UpdateCoEditorToken(q, a)
              \/ PrivateIds(q, a) \/ CreateRoom(q, a)
              \/ RotateDone(q, a) \/ IdsDone(q, a) \/ CreateFailed(q, a)
       PROVE  FALSE
  BY <1>14 DEF ReadCoEditors, CheckCoEditor, UpdateCoEditorToken, PrivateIds, CreateRoom,
               RotateDone, IdsDone, CreateFailed, view
<1>. QED BY <1>5, <1>6, <1>7, <1>8, <1>9, <1>10, <1>11, <1>12, <1>13, <1>14, <1>15 DEF Next

(* A board of the user's own that is not being shared can be drawn on, and *)
(* what was drawn goes only because the user leaves it or shares it.       *)
THEOREM LocalBoardHolds == SessionAssumption => (Spec => LocalBoardSafe)
<1> SUFFICES ASSUME SessionAssumption PROVE Spec => LocalBoardSafe OBVIOUS
<1>. DEFINE Uncovered == \A p \in Page : at[p] = "new" /\ (loading[p] \/ mode[p] # "local")
                           => Waits(p, "create") \/ odd \cap {"failed", "hidden", "late"} # {}
<1>. DEFINE Taken == \A p \in Page : drawn[p] /\ ~drawn'[p] =>
       \/ Reload(p) \/ Share(p) \/ LogOut(p)
       \/ \E place \in {"home", "new", "board"}, i \in {None} \cup Token : Go(p, place, i)
       \/ "late" \in odd'
<1>1. Inv => Uncovered BY DEF Inv, Good, Local, Author, Free
<1>2. Inv /\ [Next]_vars => [Taken]_vars
  <2>1. ASSUME Inv, [Next]_vars PROVE Taken BY <2>1, DrawnStep
  <2>. QED BY <2>1
<1>. HIDE DEF Uncovered, Taken
<1>3. Spec => []Uncovered /\ [][Taken]_vars BY <1>1, <1>2, SessionInvariant, PTL DEF Spec
<1>. QED BY <1>3 DEF LocalBoardSafe, Uncovered, Taken

(* The key of an author is not replaced by a co-editor's, nor lost, while  *)
(* the page is open, but for a user who signs out; and is there after a    *)
(* reload.                                                                 *)
THEOREM OwnerKeyHolds == SessionAssumption => (Spec => OwnerKeySafe)
<1> SUFFICES ASSUME SessionAssumption PROVE Spec => OwnerKeySafe OBVIOUS
<1>. DEFINE Stays == \A p \in Page : keys[p] = Owner =>
       keys'[p] = Owner \/ Reload(p) \/ LogOut(p) \/ odd' \cap {"early", "late"} # {}
<1>. DEFINE Saved == \A p \in Page : keys[p] = Owner =>
       storage[p] = Owner \/ odd \cap {"tabs", "early", "late"} # {}
<1>1. Inv => Saved BY DEF Inv, Kept, Free
<1>2. Inv /\ [Next]_vars => [Stays]_vars
  <2> SUFFICES ASSUME Inv, [Next]_vars, NEW p \in Page, keys[p] = Owner
               PROVE  keys'[p] = Owner \/ Reload(p) \/ LogOut(p) \/ odd' \cap {"early", "late"} # {}
    OBVIOUS
  <2>. TypeOK BY DEF Inv
  <2>1. CASE UNCHANGED <<keys, storage>> BY <2>1
  <2>2. ASSUME NEW q \in Page, Reload(q) PROVE keys'[p] = Owner \/ Reload(p)
    <3>1. keys' = Set(keys, q, storage[q]) BY <2>2 DEF Reload
    <3>. QED BY <2>2, <3>1, TypeParts DEF Set, StoreType
  <2>4. ASSUME NEW q \in Page, LogOut(q) PROVE keys'[p] = Owner \/ LogOut(p)
    <3>1. \A r \in Page \ {q} : keys'[r] = keys[r] BY <2>4, SetKeyIs DEF LogOut
    <3>. QED BY <2>4, <3>1
  <2>3. ASSUME NEW q \in Page, Rewrites(q)
        PROVE  keys'[p] = Owner \/ odd' \cap {"early", "late"} # {}
    <3>1. PICK k \in Key, R \in SUBSET Reason :
            SetKey(q, k, R) /\ (keys[q] = Owner /\ Free({"early", "late"})' => k = Owner)
      BY <2>3 DEF Rewrites
    <3>2. keys'[q] = k /\ \A r \in Page \ {q} : keys'[r] = keys[r] BY <3>1, SetKeyIs
    <3>. QED BY <3>1, <3>2 DEF Free
  <2>. QED BY <2>1, <2>2, <2>3, <2>4, KeysStep
<1>. HIDE DEF Saved, Stays
<1>3. Spec => []Saved /\ [][Stays]_vars BY <1>1, <1>2, SessionInvariant, PTL DEF Spec
<1>. QED BY <1>3 DEF OwnerKeySafe, Saved, Stays
==============================================================================
