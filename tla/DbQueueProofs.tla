--------------------------- MODULE DbQueueProofs ---------------------------
(***************************************************************************)
(* For any number of boards, rooms and edits, channels of any capacity and *)
(* every failure: a chunk is in one place until it is answered, and no     *)
(* room waits for an answer that nobody is left to give or to drop; and    *)
(* what the flushes of a board have said is what its rows are, though its  *)
(* chunks are executed in batches with those of other boards and in any    *)
(* order, unless a statement that carried one of them has failed.          *)
(***************************************************************************)
EXTENDS DbQueue, SequenceTheorems, TLAPS

(* What a sequence of chunks has.                                          *)

LEMMA NoChunks == ToSet(<<>>) = {}
BY DEF ToSet

LEMMA AppendedChunk ==
  ASSUME NEW S, NEW s \in Seq(S), NEW c \in S
  PROVE  Append(s, c) \in Seq(S) /\ ToSet(Append(s, c)) = ToSet(s) \cup {c}
<1>1. /\ Append(s, c) \in Seq(S) /\ Len(Append(s, c)) = Len(s) + 1
      /\ \A i \in 1 .. Len(s) : Append(s, c)[i] = s[i]
      /\ Append(s, c)[Len(s) + 1] = c
  BY AppendProperties
<1>2. DOMAIN s = 1 .. Len(s) /\ DOMAIN Append(s, c) = 1 .. Len(s) + 1 BY <1>1, LenProperties
<1>3. Len(s) \in Nat BY LenProperties
<1>. HIDE DEF ToSet
<1>4. ToSet(Append(s, c)) \subseteq ToSet(s) \cup {c} BY <1>1, <1>2, <1>3 DEF ToSet
<1>5. ToSet(s) \cup {c} \subseteq ToSet(Append(s, c)) BY <1>1, <1>2, <1>3 DEF ToSet
<1>. QED BY <1>1, <1>4, <1>5

LEMMA SomeChunk ==
  ASSUME NEW S, NEW s \in Seq(S), s # <<>>
  PROVE  s[1] \in ToSet(s) /\ 1 \in DOMAIN s
<1>1. Len(s) \in Nat /\ Len(s) # 0 /\ DOMAIN s = 1 .. Len(s) BY LenProperties, EmptySeq
<1>. QED BY <1>1 DEF ToSet

LEMMA ChunksAreChunks ==
  ASSUME NEW S, NEW s \in Seq(S)
  PROVE  ToSet(s) \subseteq S
BY ElementOfSeq, LenProperties DEF ToSet

----------------------------------------------------------------------------
(* The chunks of a room.                                                   *)

LEMMA RoomChunks ==
  ASSUME NEW r \in Room
  PROVE  /\ \A cur, und \in SUBSET Edit :
              Creates(r, cur, und) \subseteq {c \in Chunk : c.room = r /\ c.op = "create"}
         /\ \A cur, und \in SUBSET Edit :
              Updates(r, cur, und) \subseteq {c \in Chunk : c.room = r /\ c.op = "update"}
         /\ \A st \in Status : [op |-> "delete", room |-> r, status |-> st] \in Chunk
         /\ [op |-> "read", room |-> r] \in Chunk
BY DEF Creates, Updates, Chunks, Chunk, Status

LEMMA ChunkFields ==
  ASSUME NEW c \in Chunk
  PROVE  /\ c.op \in Op /\ c.room \in Room
         /\ c.op # "read" => c.status \in Status
         /\ c.op \in {"create", "update"} => c.items \subseteq Edit
BY DEF Chunk, Op

LEMMA TargetsAreBoards ==
  ASSUME NEW cs \in SUBSET Chunk
  PROVE  Boards(cs) \subseteq Board
<1>1. \A c \in Chunk : BoardOf[c.room] \in Board BY ChunkFields, DbQueueAssumption
<1>. QED BY <1>1 DEF Boards, Target

(* The statements yield rows.                                              *)

LEMMA StatementsYieldRows ==
  ASSUME NEW table \in SUBSET Row, NEW cs \in SUBSET Chunk
  PROVE  /\ (\A c \in cs : c.op = "create") => copy(table, cs) \subseteq Row
         /\ (\A c \in cs : c.op = "update") => set_status(table, cs) \subseteq Row
         /\ delete_bulk(table, cs) \subseteq Row
<1>1. ASSUME \A c \in cs : c.op = "create" PROVE copy(table, cs) \subseteq Row
  <2>1. \A c \in cs : Target(c) \in Board /\ c.items \subseteq Edit /\ c.status \in Status
    BY <1>1, ChunkFields, DbQueueAssumption DEF Target
  <2>2. \A c \in cs : [board : {Target(c)}, edit : c.items, status : {c.status}] \subseteq Row
    BY <2>1 DEF Row
  <2>. QED BY <2>2 DEF copy
<1>2. ASSUME \A c \in cs : c.op = "update" PROVE set_status(table, cs) \subseteq Row
  <2>1. \A x \in Row, st \in Status : [x EXCEPT !.status = st] \in Row BY DEF Row
  <2>2. ASSUME NEW x \in table, \E c \in cs : x.edit \in c.items
        PROVE  (CHOOSE c \in cs : x.edit \in c.items).status \in Status
    BY <1>2, <2>2, ChunkFields
  <2>. QED BY <2>1, <2>2 DEF set_status
<1>3. delete_bulk(table, cs) \subseteq Row BY DEF delete_bulk
<1>. QED BY <1>1, <1>2, <1>3

----------------------------------------------------------------------------
(* A room asks.                                                            *)

LEMMA AskInv ==
  ASSUME DbQueueInv, NEW r \in Room, NEW cs \in SUBSET {c \in Chunk : c.room = r},
         NEW then \in SUBSET Row, Ask(r, cs, then)
  PROVE  DbQueueInv'
<1>. USE DEF DbQueueInv
<1>1. due[r] = {} /\ UNCHANGED <<exists, rows, channel, stage, batch, healthy>> BY DEF Ask, task
<1>2. CASE /\ due' = [due EXCEPT ![r] = cs] /\ out' = [out EXCEPT ![r] = cs]
           /\ want' \subseteq Row /\ harmed' = harmed /\ stage # "dead"
  <2>1. /\ due' \in [Room -> SUBSET Chunk] /\ out' \in [Room -> SUBSET Chunk]
        /\ due'[r] = cs /\ out'[r] = cs
        /\ \A x \in Room \ {r} : due'[x] = due[x] /\ out'[x] = out[x]
    BY <1>2 DEF TypeOK
  <2>2. TypeOK' BY <1>1, <1>2, <2>1 DEF TypeOK
  <2>3. Batches' BY <1>1 DEF Batches
  <2>4. \A x \in Room : out'[x] \subseteq due'[x] /\ \A c \in due'[x] : c.room = x
    BY <2>1 DEF OnePlace
  <2>5. ASSUME NEW c, c.room \in Room, c \in due[c.room] \ out[c.room]
        PROVE  c \in due'[c.room] \ out'[c.room]
    BY <1>1, <2>1, <2>5
  <2>6. ToSet(batch) \subseteq Chunk /\ \A op \in Op : ToSet(channel[op]) \subseteq Chunk
    BY ChunksAreChunks DEF TypeOK
  <2>7. OnePlace' BY <1>1, <2>4, <2>5, <2>6, ChunkFields DEF OnePlace
  <2>8. NobodyForgotten' BY <1>1, <1>2, <2>1 DEF NobodyForgotten
  <2>. QED BY <2>2, <2>3, <2>7, <2>8
<1>3. CASE Harm(Boards(cs)) /\ UNCHANGED <<out, due>>
  <2>1. harmed' \subseteq Board /\ want' \subseteq Row
    BY <1>3, TargetsAreBoards DEF Harm, TypeOK
  <2>2. UNCHANGED channel BY DEF Ask
  <2>. HIDE DEF DbQueueInv
  <2>3. /\ TypeOK /\ Batches /\ OnePlace /\ NobodyForgotten BY DEF DbQueueInv
  <2>4. TypeOK' BY <1>1, <1>3, <2>1, <2>2, <2>3 DEF TypeOK
  <2>5. Batches' BY <1>1, <2>2, <2>3 DEF Batches
  <2>6. OnePlace' BY <1>1, <1>3, <2>2, <2>3 DEF OnePlace
  <2>7. NobodyForgotten' BY <1>1, <1>3, <2>2, <2>3 DEF NobodyForgotten
  <2>. QED BY <2>4, <2>5, <2>6, <2>7 DEF DbQueueInv
<1>. QED BY <1>2, <1>3 DEF Ask, TypeOK

LEMMA RoomInv ==
  ASSUME DbQueueInv, NEW r \in Room, RoomStep(r)
  PROVE  DbQueueInv'
<1>0. want \subseteq Row BY DEF DbQueueInv, TypeOK
<1>1. ASSUME NEW new \in SUBSET Edit, NEW old \in SUBSET Edit,
             NEW und \in SUBSET new, NEW setUnd \in SUBSET old,
             Flush(r, new \ und, und, old \ setUnd, setUnd)
      PROVE  DbQueueInv'
  <2>. DEFINE creates == Creates(r, new \ und, und)
              updates == Updates(r, old \ setUnd, setUnd)
  <2>1. /\ creates \in SUBSET {c \in Chunk : c.room = r} /\ \A c \in creates : c.op = "create"
        /\ updates \in SUBSET {c \in Chunk : c.room = r} /\ \A c \in updates : c.op = "update"
    <3>1. /\ new \ und \in SUBSET Edit /\ und \in SUBSET Edit
          /\ old \ setUnd \in SUBSET Edit /\ setUnd \in SUBSET Edit
      OBVIOUS
    <3>. QED BY <3>1, RoomChunks
  <2>2. set_status(copy(want, creates), updates) \in SUBSET Row
    BY <1>0, <2>1, StatementsYieldRows
  <2>3. Ask(r, creates \cup updates, set_status(copy(want, creates), updates))
    BY <1>1 DEF Flush
  <2>. HIDE DEF creates, updates
  <2>. QED BY <2>1, <2>2, <2>3, AskInv
<1>2. ASSUME NEW st \in Status, Empty(r, st) PROVE DbQueueInv'
  <2>. DEFINE c == [op |-> "delete", room |-> r, status |-> st]
  <2>1. c \in Chunk /\ c.room = r BY RoomChunks
  <2>2. Ask(r, {c}, delete_bulk(want, {c})) BY <1>2 DEF Empty
  <2>. HIDE DEF c
  <2>3. delete_bulk(want, {c}) \in SUBSET Row BY <1>0, <2>1, StatementsYieldRows
  <2>. QED BY <2>1, <2>2, <2>3, AskInv
<1>3. ASSUME Pull(r) PROVE DbQueueInv'
  <2>. DEFINE c == [op |-> "read", room |-> r]
  <2>1. c \in Chunk /\ c.room = r BY RoomChunks
  <2>2. Ask(r, {c}, want) BY <1>3 DEF Pull
  <2>. HIDE DEF c
  <2>. QED BY <1>0, <2>1, <2>2, AskInv
<1>4. Fresh \subseteq Edit /\ \A b \in Board : Known(b) \subseteq Edit
  BY DEF Fresh, Known, Of, DbQueueInv, TypeOK, Row
<1>5. BoardOf[r] \in Board BY DbQueueAssumption
<1>6. ASSUME NEW new \in SUBSET Fresh, NEW old \in SUBSET Known(BoardOf[r]),
             NEW und \in SUBSET new, NEW setUnd \in SUBSET old,
             Flush(r, new \ und, und, old \ setUnd, setUnd)
      PROVE  DbQueueInv'
  <2>1. new \in SUBSET Edit /\ old \in SUBSET Edit BY <1>4, <1>5
  <2>. QED BY <1>1, <1>6, <2>1
<1>. QED BY <1>2, <1>3, <1>6 DEF RoomStep

(* A chunk finds a place in its channel.                                   *)
LEMMA SendInv ==
  ASSUME DbQueueInv, NEW r \in Room, NEW c \in out[r], Send(r, c)
  PROVE  DbQueueInv'
<1>. USE DEF DbQueueInv
<1>1. c \in Chunk /\ c \in due[r] /\ c.room = r /\ c.op \in Op
  BY ChunkFields DEF TypeOK, OnePlace
<1>2. channel[c.op] \in Seq(Chunk) BY <1>1 DEF TypeOK
<1>3. /\ Append(channel[c.op], c) \in Seq(Chunk)
      /\ ToSet(Append(channel[c.op], c)) = ToSet(channel[c.op]) \cup {c}
  BY <1>1, <1>2, AppendedChunk
<1>4. /\ channel' \in [Op -> Seq(Chunk)]
      /\ ToSet(channel'[c.op]) = ToSet(channel[c.op]) \cup {c}
      /\ \A op \in Op \ {c.op} : channel'[op] = channel[op]
  BY <1>1, <1>3 DEF Send, TypeOK
<1>5. /\ out' \in [Room -> SUBSET Chunk] /\ out'[r] = out[r] \ {c}
      /\ \A x \in Room \ {r} : out'[x] = out[x]
  BY DEF Send, TypeOK
<1>6. UNCHANGED <<exists, rows, stage, batch, healthy, due, want, harmed>> BY DEF Send, task
<1>7. TypeOK' BY <1>4, <1>5, <1>6 DEF TypeOK
<1>8. Batches' BY <1>1, <1>4, <1>6 DEF Batches
<1>9. OnePlace'
  <2>1. \A x \in Room : out'[x] \subseteq due'[x] /\ \A d \in due'[x] : d.room = x
    BY <1>5, <1>6 DEF OnePlace
  <2>2. \A d : d.room \in Room /\ d \notin out[d.room] => d \notin out'[d.room] BY <1>5
  <2>3. ToSet(batch) \subseteq Chunk /\ \A op \in Op : ToSet(channel[op]) \subseteq Chunk
    BY ChunksAreChunks DEF TypeOK
  <2>4. \A d \in ToSet(batch) : d \in due'[d.room] \ out'[d.room]
    BY <1>6, <2>2, <2>3, ChunkFields DEF OnePlace
  <2>5. ASSUME NEW op \in Op, NEW d \in ToSet(channel'[op])
        PROVE  d \in due'[d.room] \ out'[d.room] /\ d \notin ToSet(batch)
    <3>1. CASE d = c BY <1>1, <1>5, <1>6, <3>1 DEF OnePlace
    <3>2. CASE d # c
      <4>1. d \in ToSet(channel[op]) BY <1>4, <2>5, <3>2
      <4>. QED BY <1>6, <2>2, <2>3, <4>1, ChunkFields DEF OnePlace
    <3>. QED BY <3>1, <3>2
  <2>. QED BY <1>6, <2>1, <2>4, <2>5 DEF OnePlace
<1>10. NobodyForgotten'
  <2>1. stage = "dead" => \A x \in Room : due'[x] = {} BY <1>6 DEF NobodyForgotten
  <2>2. ASSUME NEW x \in Room, NEW d \in due[x]
        PROVE  d \in out'[x] \cup ToSet(channel'[d.op]) \cup ToSet(batch)
    <3>1. d \in Chunk /\ d.op \in Op BY ChunkFields DEF TypeOK
    <3>2. d \in out[x] \cup ToSet(channel[d.op]) \cup ToSet(batch) BY DEF NobodyForgotten
    <3>3. CASE d = c BY <1>4, <3>3
    <3>4. CASE d # c BY <1>4, <1>5, <3>1, <3>2, <3>4
    <3>. QED BY <3>3, <3>4
  <2>. QED BY <1>6, <2>1, <2>2 DEF NobodyForgotten
<1>. QED BY <1>7, <1>8, <1>9, <1>10
----------------------------------------------------------------------------
(* The edit task.                                                          *)

LEMMA ReceiveInv ==
  ASSUME DbQueueInv, NEW op \in Op, Receive(op)
  PROVE  DbQueueInv'
<1>. USE DEF DbQueueInv
<1>1. channel[op] \in Seq(Chunk) /\ batch = <<>> BY DEF TypeOK, Batches, Receive
<1>2. /\ channel' \in [Op -> Seq(Chunk)] /\ channel'[op] = <<>>
      /\ \A x \in Op \ {op} : channel'[x] = channel[x]
  BY DEF Receive, TypeOK
<1>3. batch' = channel[op] /\ batch' # <<>> /\ stage' = "received"
      /\ UNCHANGED <<exists, rows, healthy, out, due, want, harmed>>
  BY DEF Receive
<1>4. ToSet(batch) = {} /\ ToSet(channel'[op]) = {} BY <1>1, <1>2, NoChunks
<1>5. TypeOK' BY <1>1, <1>2, <1>3 DEF TypeOK
<1>6. Batches'
  <2>1. \A i \in DOMAIN batch' : batch'[i].op = op BY <1>3 DEF Batches, ToSet
  <2>2. \A x \in Op : \A c \in ToSet(channel'[x]) : c.op = x BY <1>2, <1>4 DEF Batches
  <2>. QED BY <1>3, <2>1, <2>2 DEF Batches
<1>7. OnePlace'
  <2>1. \A c \in ToSet(batch') : c \in due[c.room] \ out[c.room] BY <1>3 DEF OnePlace
  <2>2. ASSUME NEW x \in Op, NEW c \in ToSet(channel'[x])
        PROVE  c \in due[c.room] \ out[c.room] /\ c \notin ToSet(batch')
    <3>1. x # op /\ c \in ToSet(channel[x]) BY <1>2, <1>4, <2>2
    <3>2. c.op = x /\ \A d \in ToSet(channel[op]) : d.op = op BY <3>1 DEF Batches
    <3>. QED BY <1>3, <3>1, <3>2 DEF OnePlace
  <2>. QED BY <1>3, <2>1, <2>2 DEF OnePlace
<1>8. NobodyForgotten'
  <2>1. ASSUME NEW r \in Room, NEW c \in due[r]
        PROVE  c \in out[r] \cup ToSet(channel'[c.op]) \cup ToSet(batch')
    <3>1. c.op \in Op BY ChunkFields DEF TypeOK
    <3>2. c \in out[r] \cup ToSet(channel[c.op]) BY <1>4 DEF NobodyForgotten
    <3>. QED BY <1>2, <1>3, <3>1, <3>2
  <2>. QED BY <1>3, <2>1 DEF NobodyForgotten
<1>. QED BY <1>5, <1>6, <1>7, <1>8

(* A batch is answered, whatever has become of it.                         *)
LEMMA AnswerInv ==
  ASSUME DbQueueInv, Answer, Done, UNCHANGED <<channel, out>>,
         exists' \subseteq Board, rows' \subseteq Row, want' \subseteq Row, harmed' \subseteq Board,
         healthy' \in BOOLEAN
  PROVE  DbQueueInv'
<1>. USE DEF DbQueueInv
<1>1. /\ due' \in [Room -> SUBSET Chunk]
      /\ \A r \in Room : due'[r] = due[r] \ ToSet(batch)
  BY DEF Answer, TypeOK
<1>2. batch' = <<>> /\ ToSet(batch') = {} /\ stage' = "idle" BY NoChunks DEF Done
<1>3. /\ ToSet(batch) \subseteq Chunk /\ \A op \in Op : ToSet(channel[op]) \subseteq Chunk
      /\ batch' \in Seq(Chunk)
  BY <1>2, ChunksAreChunks, EmptySeq DEF TypeOK
<1>4. TypeOK' BY <1>1, <1>2, <1>3 DEF TypeOK
<1>5. Batches' BY <1>2 DEF Batches
<1>6. OnePlace'
  <2>1. ASSUME NEW r \in Room
        PROVE  out[r] \subseteq due'[r] /\ \A c \in due'[r] : c.room = r
    <3>1. \A c \in out[r] : c \notin ToSet(batch) BY DEF OnePlace
    <3>. QED BY <1>1, <3>1 DEF OnePlace
  <2>2. ASSUME NEW op \in Op, NEW c \in ToSet(channel[op])
        PROVE  c \in due'[c.room] \ out[c.room]
    BY <1>1, <1>3, <2>2, ChunkFields DEF OnePlace
  <2>. QED BY <1>2, <2>1, <2>2 DEF OnePlace
<1>7. NobodyForgotten' BY <1>1, <1>2 DEF NobodyForgotten
<1>. QED BY <1>4, <1>5, <1>6, <1>7

(* The edit task ends.                                                     *)
LEMMA EndInv ==
  ASSUME DbQueueInv, NEW answered, End(answered),
         exists' = exists, rows' \subseteq Row, healthy' = healthy
  PROVE  DbQueueInv'
<1>. USE DEF DbQueueInv
<1>1. /\ channel' \in [Op -> Seq(Chunk)] /\ batch' \in Seq(Chunk)
      /\ batch' = <<>> /\ stage' = "dead"
      /\ \A op \in Op : channel'[op] = <<>>
  BY EmptySeq DEF End
<1>2. /\ out' \in [Room -> SUBSET Chunk] /\ due' \in [Room -> SUBSET Chunk]
      /\ \A r \in Room : out'[r] = {} /\ due'[r] = {}
  BY DEF End
<1>3. ToSet(batch') = {} /\ \A op \in Op : ToSet(channel'[op]) = {} BY <1>1, NoChunks
<1>4. want' \subseteq Row /\ harmed' \subseteq Board
  <2>1. UNION {due[r] : r \in Room} \ answered \in SUBSET Chunk BY DEF TypeOK
  <2>. QED BY <2>1, TargetsAreBoards DEF End, Harm, TypeOK
<1>5. TypeOK' BY <1>1, <1>2, <1>4 DEF TypeOK
<1>6. Batches' BY <1>1, <1>3 DEF Batches
<1>7. OnePlace' BY <1>2, <1>3 DEF OnePlace
<1>8. NobodyForgotten' BY <1>2 DEF NobodyForgotten
<1>. QED BY <1>5, <1>6, <1>7, <1>8

LEMMA ExecuteInv ==
  ASSUME DbQueueInv, Execute
  PROVE  DbQueueInv'
<1>1. /\ exists \subseteq Board /\ rows \in SUBSET Row /\ want \subseteq Row /\ harmed \subseteq Board
      /\ healthy \in BOOLEAN /\ batch \in Seq(Chunk) /\ ToSet(batch) \in SUBSET Chunk
  BY ChunksAreChunks DEF DbQueueInv, TypeOK
<1>2. ASSUME NEW op \in Op, (stage = "written" /\ op = "create") \/ Has(op)
      PROVE  \A c \in ToSet(batch) : c.op = op
  <2>1. batch # <<>> /\ \A i, j \in DOMAIN batch : batch[i].op = batch[j].op
    BY <1>2 DEF DbQueueInv, Batches, Has
  <2>2. 1 \in DOMAIN batch BY <1>1, <2>1, SomeChunk
  <2>3. batch[1].op = op BY <1>2 DEF DbQueueInv, Batches, Has
  <2>. QED BY <2>1, <2>2, <2>3 DEF ToSet
<1>3. /\ stage = "written" => copy(rows, ToSet(batch)) \subseteq Row
      /\ Has("update") => set_status(rows, ToSet(batch)) \subseteq Row
      /\ Has("delete") => delete_bulk(rows, ToSet(batch)) \subseteq Row
  BY <1>1, <1>2, StatementsYieldRows DEF Op
<1>4. Boards(ToSet(batch)) \subseteq Board BY <1>1, TargetsAreBoards
<1>5. CASE Copy \/ SetStatus \/ DeleteBulk
  BY <1>1, <1>3, <1>5, AnswerInv DEF Copy, SetStatus, DeleteBulk
<1>6. CASE CopyFails \/ TransactionFails
  BY <1>1, <1>4, <1>6, AnswerInv DEF CopyFails, TransactionFails, Harm
<1>7. CASE Read \/ ReadFails BY <1>1, <1>7, AnswerInv DEF Read, ReadFails
<1>8. CASE FileStays BY <1>1, <1>3, <1>8, EndInv DEF FileStays
<1>. QED BY <1>5, <1>6, <1>7, <1>8 DEF Execute

----------------------------------------------------------------------------
(* The invariant.                                                          *)

LEMMA InitInv == Init => DbQueueInv
<1>. SUFFICES ASSUME Init PROVE DbQueueInv OBVIOUS
<1>1. ToSet(batch) = {} /\ \A op \in Op : ToSet(channel[op]) = {} BY NoChunks DEF Init
<1>2. TypeOK BY EmptySeq DEF Init, TypeOK
<1>. QED BY <1>1, <1>2 DEF Init, DbQueueInv, Batches, OnePlace, NobodyForgotten

LEMMA NextInv == DbQueueInv /\ [Next]_vars => DbQueueInv'
<1>. SUFFICES ASSUME DbQueueInv, [Next]_vars PROVE DbQueueInv' OBVIOUS
<1>1. ASSUME NEW b \in Board, DeleteBoard(b) PROVE DbQueueInv'
  <2>1. UNCHANGED <<channel, out, due, stage, batch, healthy>> /\ harmed' = harmed
    BY <1>1 DEF DeleteBoard, chans, task
  <2>2. exists' \subseteq exists /\ rows' \subseteq rows /\ want' \subseteq want
    BY <1>1 DEF DeleteBoard
  <2>. QED BY <2>1, <2>2 DEF DbQueueInv, TypeOK, Batches, OnePlace, NobodyForgotten
<1>2. ASSUME WriteFile PROVE DbQueueInv'
  <2>1. /\ UNCHANGED <<exists, rows, channel, out, due, batch, healthy, want, harmed>>
        /\ stage = "received" /\ stage' = "written" /\ batch[1].op = "create"
    BY <1>2 DEF WriteFile, Has, chans
  <2>. QED BY <2>1 DEF DbQueueInv, TypeOK, Batches, OnePlace, NobodyForgotten
<1>3. ASSUME WriterPanics PROVE DbQueueInv'
  BY <1>3, EndInv DEF WriterPanics, DbQueueInv, TypeOK
<1>4. CASE UNCHANGED vars
  BY <1>4 DEF vars, DbQueueInv, TypeOK, Batches, OnePlace, NobodyForgotten
<1>. QED BY <1>1, <1>2, <1>3, <1>4, RoomInv, SendInv, ReceiveInv, ExecuteInv DEF Next

(* Whoever asks the database tasks is answered or told that nobody is left *)
(* to answer, whatever fails (db_queue.rs, sync_with_queue).               *)
THEOREM DbQueueInvariant == Spec => []DbQueueInv
BY InitInv, NextInv, PTL DEF Spec

(* No chunk is lost between its room and the edit task.                    *)
THEOREM NobodyIsForgotten == Spec => []NobodyForgotten
<1>1. DbQueueInv => NobodyForgotten BY DEF DbQueueInv
<1>. QED BY <1>1, DbQueueInvariant, PTL

----------------------------------------------------------------------------
(* What is stored.                                                         *)

(* The chunks whose answers are awaited, and those of one kind or board.   *)
Waiting == UNION {due[r] : r \in Room}
Pend(op) == {c \in Waiting : c.op = op}
At(cs, b) == {c \in cs : Target(c) = b}

(* The rows of a board once its chunks are executed.                       *)
Expected(b) ==
  delete_bulk(set_status(copy(Of(rows, b), At(Pend("create"), b)), At(Pend("update"), b)),
              At(Pend("delete"), b))

Foreseen == \A b \in exists \ harmed : Of(want, b) = Expected(b)

(* A deleted board has no rows.                                            *)
GoneEmpty == \A x \in rows \cup want : x.board \in exists

(* An edit is on one board and in one chunk on its way.                    *)
CarriesEdits(c) == c.op \in {"create", "update"}
OneBoard ==
  /\ \A x, y \in rows \cup want : x.edit = y.edit => x.board = y.board
  /\ \A c \in Waiting : CarriesEdits(c) =>
       \A x \in rows \cup want : x.edit \in c.items => x.board = Target(c)
  /\ \A c, d \in Waiting : CarriesEdits(c) /\ CarriesEdits(d) /\ c # d => c.items \cap d.items = {}

(* A board's deletion of a list is alone on its way.                       *)
DeleteAlone ==
  \A c, d \in Waiting : c.op = "delete" /\ d.op # "read" /\ Target(c) = Target(d) => c = d

StoredInv == DbQueueInv /\ Foreseen /\ GoneEmpty /\ OneBoard /\ DeleteAlone

----------------------------------------------------------------------------
(* What the statements do, one after the other.                            *)

Disjoint(cs) == \A c, d \in cs : c # d => c.items \cap d.items = {}

LEMMA CopyTwice ==
  ASSUME NEW table, NEW A, NEW B
  PROVE  copy(copy(table, A), B) = copy(table, A \cup B)
BY DEF copy

LEMMA CopyNothing ==
  ASSUME NEW table
  PROVE  copy(table, {}) = table
BY DEF copy

LEMMA CopyOf ==
  ASSUME NEW table \in SUBSET Row, NEW b \in Board, NEW cs \in SUBSET Chunk,
         \A c \in cs : c.op = "create"
  PROVE  Of(copy(table, cs), b) = copy(Of(table, b), At(cs, b))
<1>. DEFINE New(c) == [board : {Target(c)}, edit : c.items, status : {c.status}]
<1>1. \A c \in cs : \A x \in New(c) : x.board = Target(c) OBVIOUS
<1>2. copy(table, cs) = table \cup UNION {New(c) : c \in cs} BY DEF copy
<1>3. copy(Of(table, b), At(cs, b)) = Of(table, b) \cup UNION {New(c) : c \in At(cs, b)}
  BY DEF copy
<1>. HIDE DEF New
<1>. QED BY <1>1, <1>2, <1>3 DEF Of, At

(* The row that a row becomes.                                             *)
After(x, cs) ==
  IF \E c \in cs : x.edit \in c.items
    THEN [x EXCEPT !.status = (CHOOSE c \in cs : x.edit \in c.items).status]
    ELSE x

LEMMA SetEach ==
  ASSUME NEW table, NEW cs
  PROVE  set_status(table, cs) = {After(x, cs) : x \in table}
BY DEF set_status, After

LEMMA AfterHit ==
  ASSUME NEW x \in Row, NEW cs, Disjoint(cs), NEW c \in cs, x.edit \in c.items
  PROVE  After(x, cs) = [x EXCEPT !.status = c.status]
<1>1. \A d \in cs : x.edit \in d.items => d = c BY DEF Disjoint
<1>2. (CHOOSE d \in cs : x.edit \in d.items) = c BY <1>1
<1>. QED BY <1>2 DEF After

LEMMA AfterMissed ==
  ASSUME NEW x, NEW cs, \A c \in cs : x.edit \notin c.items
  PROVE  After(x, cs) = x
BY DEF After

LEMMA AfterKeeps ==
  ASSUME NEW x \in Row, NEW cs
  PROVE  After(x, cs).edit = x.edit /\ After(x, cs).board = x.board
BY DEF After, Row

LEMMA SetNothing ==
  ASSUME NEW table
  PROVE  set_status(table, {}) = table
BY DEF set_status

LEMMA SetTwice ==
  ASSUME NEW table \in SUBSET Row, NEW A \in SUBSET Chunk, NEW B \in SUBSET Chunk,
         \A c \in A \cup B : c.op = "update", Disjoint(A \cup B), A \cap B = {}
  PROVE  set_status(set_status(table, A), B) = set_status(table, A \cup B)
<1>1. ASSUME NEW x \in Row PROVE After(After(x, A), B) = After(x, A \cup B)
  <2>1. Disjoint(A) /\ Disjoint(B) BY DEF Disjoint
  <2>2. CASE \E c \in A : x.edit \in c.items
    <3>1. PICK c \in A : x.edit \in c.items BY <2>2
    <3>2. \A d \in B : x.edit \notin d.items BY <3>1 DEF Disjoint
    <3>3. After(x, A \cup B) = After(x, A) BY <2>1, <3>1, AfterHit
    <3>4. \A d \in B : After(x, A).edit \notin d.items BY <3>2, AfterKeeps
    <3>5. After(After(x, A), B) = After(x, A) BY <3>4, AfterMissed
    <3>. QED BY <3>3, <3>5
  <2>3. CASE \A c \in A : x.edit \notin c.items
    <3>1. After(x, A) = x BY <2>3, AfterMissed
    <3>2. CASE \E d \in B : x.edit \in d.items
      <4>1. PICK d \in B : x.edit \in d.items BY <3>2
      <4>. QED BY <2>1, <3>1, <4>1, AfterHit
    <3>3. CASE \A d \in B : x.edit \notin d.items
      <4>1. \A d \in A \cup B : x.edit \notin d.items BY <2>3, <3>3
      <4>. QED BY <3>1, <3>3, <4>1, AfterMissed
    <3>. QED BY <3>2, <3>3
  <2>. QED BY <2>2, <2>3
<1>2. set_status(set_status(table, A), B) = {After(After(x, A), B) : x \in table}
  BY SetEach
<1>3. {After(After(x, A), B) : x \in table} = {After(x, A \cup B) : x \in table}
  BY <1>1
<1>. QED BY <1>2, <1>3, SetEach

LEMMA SetCopied ==
  ASSUME NEW table \in SUBSET Row, NEW C \in SUBSET Chunk, NEW U \in SUBSET Chunk,
         \A c \in C : c.op = "create", \A c \in C, d \in U : c.items \cap d.items = {}
  PROVE  set_status(copy(table, C), U) = copy(set_status(table, U), C)
<1>. DEFINE New == UNION {[board : {Target(c)}, edit : c.items, status : {c.status}] : c \in C}
<1>1. ASSUME NEW x \in New PROVE After(x, U) = x
  <2>1. \E c \in C : x.edit \in c.items OBVIOUS
  <2>2. \A d \in U : x.edit \notin d.items BY <2>1
  <2>. QED BY <2>2, AfterMissed
<1>2. copy(table, C) = table \cup New /\ copy(set_status(table, U), C) = set_status(table, U) \cup New
  BY DEF copy
<1>. HIDE DEF New
<1>3. set_status(table \cup New, U) = {After(x, U) : x \in table} \cup {After(x, U) : x \in New}
  BY SetEach
<1>4. {After(x, U) : x \in New} = New BY <1>1
<1>. QED BY <1>2, <1>3, <1>4, SetEach

LEMMA SetOf ==
  ASSUME NEW table \in SUBSET Row, NEW b \in Board, NEW U \in SUBSET Chunk, Disjoint(U),
         \A c \in U : \A x \in table : x.edit \in c.items => x.board = Target(c)
  PROVE  Of(set_status(table, U), b) = set_status(Of(table, b), At(U, b))
<1>1. ASSUME NEW x \in table, x.board = b PROVE After(x, U) = After(x, At(U, b))
  <2>1. Disjoint(At(U, b)) BY DEF Disjoint, At
  <2>2. CASE \E c \in U : x.edit \in c.items
    <3>1. PICK c \in U : x.edit \in c.items BY <2>2
    <3>2. c \in At(U, b) BY <1>1, <3>1 DEF At
    <3>. QED BY <2>1, <3>1, <3>2, AfterHit
  <2>3. CASE \A c \in U : x.edit \notin c.items
    <3>1. \A c \in At(U, b) : x.edit \notin c.items BY <2>3 DEF At
    <3>. QED BY <2>3, <3>1, AfterMissed
  <2>. QED BY <2>2, <2>3
<1>2. Of(set_status(table, U), b) = {After(x, U) : x \in Of(table, b)}
  <2>1. \A x \in table : After(x, U).board = x.board BY AfterKeeps
  <2>. QED BY <2>1, SetEach DEF Of
<1>3. {After(x, U) : x \in Of(table, b)} = {After(x, At(U, b)) : x \in Of(table, b)}
  BY <1>1 DEF Of
<1>. QED BY <1>2, <1>3, SetEach

LEMMA DeleteOf ==
  ASSUME NEW table, NEW b, NEW D
  PROVE  Of(delete_bulk(table, D), b) = delete_bulk(Of(table, b), At(D, b))
BY DEF Of, delete_bulk, At

LEMMA DeleteNothing ==
  ASSUME NEW table
  PROVE  delete_bulk(table, {}) = table
BY DEF delete_bulk
----------------------------------------------------------------------------
(* What the steps leave of the chunks on their way.                        *)

LEMMA Awaited ==
  ASSUME DbQueueInv
  PROVE  /\ Waiting \in SUBSET Chunk /\ ToSet(batch) \in SUBSET Waiting
         /\ \A c \in Waiting : c.room \in Room /\ Target(c) \in Board
         /\ \A c \in Waiting : c \in due[c.room]
<1>1. Waiting \in SUBSET Chunk BY DEF DbQueueInv, TypeOK, Waiting
<1>2. ToSet(batch) \subseteq Chunk BY ChunksAreChunks DEF DbQueueInv, TypeOK
<1>3. ToSet(batch) \subseteq Waiting BY <1>2, ChunkFields DEF DbQueueInv, OnePlace, Waiting
<1>4. \A c \in Waiting : c.room \in Room /\ Target(c) \in Board
  BY <1>1, ChunkFields, DbQueueAssumption DEF Target
<1>5. \A c \in Waiting : c \in due[c.room] BY DEF DbQueueInv, OnePlace, Waiting
<1>. QED BY <1>1, <1>3, <1>4, <1>5

LEMMA Answered ==
  ASSUME DbQueueInv, Answer
  PROVE  Waiting' = Waiting \ ToSet(batch)
BY DEF Answer, Waiting

LEMMA BatchKind ==
  ASSUME DbQueueInv, NEW op \in Op, (stage = "written" /\ op = "create") \/ Has(op)
  PROVE  \A c \in ToSet(batch) : c.op = op
<1>1. batch # <<>> /\ \A i, j \in DOMAIN batch : batch[i].op = batch[j].op
  BY DEF DbQueueInv, Batches, Has
<1>2. 1 \in DOMAIN batch BY <1>1, SomeChunk DEF DbQueueInv, TypeOK
<1>3. batch[1].op = op BY DEF DbQueueInv, Batches, Has
<1>. QED BY <1>1, <1>2, <1>3 DEF ToSet

LEMMA TargetsInBoards ==
  ASSUME NEW cs, NEW c \in cs, c.op # "read"
  PROVE  Target(c) \in Boards(cs)
BY DEF Boards

(* A failure takes a board's rows out of what is foreseen, and the answers *)
(* it gives or drops are about those boards.                               *)
Failed(bs, left) ==
  /\ harmed' = harmed \cup bs
  /\ want' = {x \in want : x.board \notin bs}
  /\ Waiting' \subseteq Waiting /\ exists' = exists
  /\ \A c \in Waiting \ Waiting' : c.op = "read" \/ Target(c) \in bs \/ c \in left

LEMMA FailedPend ==
  ASSUME NEW bs, NEW left, Failed(bs, left), NEW b \in Board \ bs,
         \A c \in left : c \notin Waiting', NEW op \in Op \ {"read"}
  PROVE  At(Pend(op), b)' = At(Pend(op), b) \ left
BY DEF Failed, At, Pend, Target

LEMMA FailedRest ==
  ASSUME StoredInv, NEW bs, NEW left, Failed(bs, left), rows' \subseteq rows
  PROVE  GoneEmpty' /\ OneBoard' /\ DeleteAlone'
<1>. USE DEF StoredInv, Failed
<1>1. rows' \cup want' \subseteq rows \cup want OBVIOUS
<1>2. GoneEmpty' BY <1>1 DEF GoneEmpty
<1>3. OneBoard' BY <1>1 DEF OneBoard, CarriesEdits, Target
<1>4. DeleteAlone' BY DEF DeleteAlone, Target
<1>. QED BY <1>2, <1>3, <1>4

LEMMA FailedStored ==
  ASSUME StoredInv, NEW bs, Failed(bs, {}), rows' = rows
  PROVE  Foreseen' /\ GoneEmpty' /\ OneBoard' /\ DeleteAlone'
<1>1. exists \subseteq Board BY DEF StoredInv, DbQueueInv, TypeOK
<1>2. ASSUME NEW b \in exists' \ harmed' PROVE Of(want', b) = Expected(b)'
  <2>1. b \in exists \ harmed /\ b \notin bs /\ b \in Board BY <1>1, <1>2 DEF Failed
  <2>2. Of(want', b) = Of(want, b) BY <2>1 DEF Of, Failed
  <2>3. \A op \in Op \ {"read"} : At(Pend(op), b)' = At(Pend(op), b) \ {} BY <2>1, FailedPend
  <2>4. Expected(b)' = Expected(b) BY <2>3 DEF Expected, Op
  <2>. QED BY <2>1, <2>2, <2>4 DEF StoredInv, Foreseen
<1>3. Foreseen' BY <1>2 DEF Foreseen
<1>. QED BY <1>3, FailedRest

(* Nothing is asked, answered or written.                                  *)
LEMMA SameStored ==
  ASSUME StoredInv, UNCHANGED <<exists, rows, due, want, harmed>>
  PROVE  Foreseen' /\ GoneEmpty' /\ OneBoard' /\ DeleteAlone'
<1>1. Failed({}, {}) BY DEF Failed, Waiting
<1>. QED BY <1>1, FailedStored

LEMMA EndFails ==
  ASSUME DbQueueInv, NEW answered, End(answered), exists' = exists
  PROVE  Failed(Boards(Waiting \ answered), answered) /\ Waiting' = {}
<1>1. Waiting' = {} BY DEF End, Waiting
<1>2. \A c \in Waiting : c.op = "read" \/ Target(c) \in Boards(Waiting \ answered) \/ c \in answered
  BY TargetsInBoards
<1>. QED BY <1>1, <1>2 DEF End, Harm, Failed, Waiting

----------------------------------------------------------------------------
(* The statements.                                                         *)

(* A COPY, with which the task may end.                                    *)
LEMMA CopyStored ==
  ASSUME StoredInv, stage = "written", Boards(ToSet(batch)) \subseteq exists,
         rows' = copy(rows, ToSet(batch)), NEW bs, Failed(bs, ToSet(batch)),
         Waiting' \cap ToSet(batch) = {}
  PROVE  Foreseen' /\ GoneEmpty' /\ OneBoard' /\ DeleteAlone'
<1>. DEFINE B == ToSet(batch)
<1>1. /\ B \in SUBSET Waiting /\ B \in SUBSET Chunk /\ Waiting \in SUBSET Chunk
      /\ \A c \in B : c.op = "create"
      /\ rows \in SUBSET Row /\ want \in SUBSET Row /\ exists \subseteq Board
  BY Awaited, BatchKind DEF StoredInv, DbQueueInv, TypeOK, Op
<1>2. \A x \in rows' : x \in rows \/ \E c \in B : x.board = Target(c) /\ x.edit \in c.items
  BY DEF copy
<1>. HIDE DEF B
<1>3. \A c \in B : Target(c) \in exists BY <1>1, TargetsInBoards DEF B
<1>4. ASSUME NEW b \in exists' \ harmed' PROVE Of(want', b) = Expected(b)'
  <2>1. b \in exists \ harmed /\ b \notin bs /\ b \in Board BY <1>1, <1>4 DEF Failed
  <2>2. Of(want', b) = Of(want, b) BY <2>1 DEF Of, Failed
  <2>3. \A op \in Op \ {"read"} : At(Pend(op), b)' = At(Pend(op), b) \ B
    BY <2>1, FailedPend DEF B
  <2>4. \A op \in {"update", "delete"} : At(Pend(op), b)' = At(Pend(op), b)
    BY <1>1, <2>3 DEF Op, At, Pend
  <2>5. Of(rows', b) = copy(Of(rows, b), At(B, b)) BY <1>1, <2>1, CopyOf DEF B
  <2>6. At(B, b) \cup At(Pend("create"), b)' = At(Pend("create"), b)
    BY <1>1, <2>3 DEF Op, At, Pend
  <2>7. copy(Of(rows', b), At(Pend("create"), b)') = copy(Of(rows, b), At(Pend("create"), b))
    BY <2>5, <2>6, CopyTwice
  <2>8. Expected(b)' = Expected(b) BY <2>4, <2>7 DEF Expected
  <2>. QED BY <2>1, <2>2, <2>8 DEF StoredInv, Foreseen
<1>5. Foreseen' BY <1>4 DEF Foreseen
<1>6. GoneEmpty' BY <1>2, <1>3 DEF StoredInv, GoneEmpty, Failed
<1>7. OneBoard'
  <2>1. Waiting' \subseteq Waiting /\ want' \subseteq want /\ \A c \in Waiting' : c \notin B
    BY DEF Failed, B
  <2>2. ASSUME NEW x \in rows' \cup want', NEW y \in rows' \cup want', x.edit = y.edit
        PROVE  x.board = y.board
    BY <1>1, <1>2, <2>1, <2>2 DEF StoredInv, OneBoard, CarriesEdits
  <2>3. ASSUME NEW c \in Waiting', CarriesEdits(c), NEW x \in rows' \cup want', x.edit \in c.items
        PROVE  x.board = Target(c)
    BY <1>1, <1>2, <2>1, <2>3 DEF StoredInv, OneBoard, CarriesEdits
  <2>4. \A c, d \in Waiting' : CarriesEdits(c) /\ CarriesEdits(d) /\ c # d => c.items \cap d.items = {}
    BY <2>1 DEF StoredInv, OneBoard
  <2>. QED BY <2>2, <2>3, <2>4 DEF OneBoard, CarriesEdits, Target
<1>8. DeleteAlone' BY DEF StoredInv, DeleteAlone, Failed, Target
<1>. QED BY <1>5, <1>6, <1>7, <1>8

LEMMA SetStatusStored ==
  ASSUME StoredInv, SetStatus
  PROVE  Foreseen' /\ GoneEmpty' /\ OneBoard' /\ DeleteAlone'
<1>. DEFINE B == ToSet(batch)
<1>1. /\ B \in SUBSET Waiting /\ B \in SUBSET Chunk /\ Waiting \in SUBSET Chunk
      /\ \A c \in B : c.op = "update"
      /\ rows \in SUBSET Row /\ want \in SUBSET Row /\ exists \subseteq Board
  BY Awaited, BatchKind DEF StoredInv, DbQueueInv, TypeOK, Op, SetStatus
<1>2. Failed({}, B) /\ Waiting' = Waiting \ B /\ rows' = set_status(rows, B)
      /\ exists' = exists /\ want' = want /\ harmed' = harmed
  BY Answered DEF SetStatus, Failed, StoredInv
<1>. HIDE DEF B
<1>3. Disjoint(B) /\ \A c \in B : \A x \in rows : x.edit \in c.items => x.board = Target(c)
  BY <1>1 DEF StoredInv, OneBoard, CarriesEdits, Disjoint
<1>4. ASSUME NEW b \in exists' \ harmed' PROVE Of(want', b) = Expected(b)'
  <2>. DEFINE R == Of(rows, b)
              C == At(Pend("create"), b)
              U == At(Pend("update"), b)
  <2>1. b \in exists \ harmed /\ b \in Board BY <1>1, <1>2, <1>4
  <2>2. \A op \in Op \ {"read"} : At(Pend(op), b)' = At(Pend(op), b) \ B
    BY <1>2, <2>1, FailedPend
  <2>3. \A op \in {"create", "delete"} : At(Pend(op), b)' = At(Pend(op), b)
    BY <1>1, <2>2 DEF Op, At, Pend
  <2>4. Of(rows', b) = set_status(R, At(B, b)) BY <1>1, <1>2, <1>3, <2>1, SetOf
  <2>5. At(B, b) \cup U' = U /\ At(B, b) \cap U' = {} BY <1>1, <2>2 DEF Op, At, Pend
  <2>6. /\ R \in SUBSET Row /\ C \in SUBSET Chunk /\ U \in SUBSET Chunk
        /\ \A c \in C : c.op = "create" /\ c \in Waiting
        /\ \A c \in U : c.op = "update" /\ c \in Waiting
    BY <1>1 DEF Of, At, Pend
  <2>7. Disjoint(U) /\ \A c \in C, d \in U : c.items \cap d.items = {}
    BY <2>6 DEF StoredInv, OneBoard, CarriesEdits, Disjoint
  <2>. HIDE DEF C, U, R
  <2>8. copy(set_status(R, At(B, b)), C) = set_status(copy(R, C), At(B, b))
    <3>1. /\ At(B, b) \in SUBSET Chunk
          /\ \A c \in C, d \in At(B, b) : c.items \cap d.items = {}
      BY <2>5, <2>6, <2>7
    <3>. QED BY <2>6, <3>1, SetCopied
  <2>9. copy(R, C) \in SUBSET Row BY <2>6, StatementsYieldRows
  <2>10. set_status(set_status(copy(R, C), At(B, b)), U') = set_status(copy(R, C), U)
    <3>1. /\ At(B, b) \in SUBSET Chunk /\ U' \in SUBSET Chunk
          /\ \A c \in At(B, b) \cup U' : c.op = "update"
      BY <2>5, <2>6
    <3>2. Disjoint(At(B, b) \cup U') BY <2>5, <2>7
    <3>3. At(B, b) \cup U' = U /\ At(B, b) \cap U' = {} BY <2>5
    <3>4. set_status(set_status(copy(R, C), At(B, b)), U')
            = set_status(copy(R, C), At(B, b) \cup U')
      BY <2>9, <3>1, <3>2, <3>3, SetTwice
    <3>. QED BY <3>3, <3>4
  <2>11. Expected(b)' = Expected(b)
    BY <2>3, <2>4, <2>8, <2>10 DEF Expected, C, U, R
  <2>. QED BY <1>2, <2>1, <2>11 DEF StoredInv, Foreseen
<1>5. Foreseen' BY <1>4 DEF Foreseen
<1>6. \A x \in rows' : \E y \in rows : y.edit = x.edit /\ y.board = x.board
  BY <1>1, <1>2, SetEach, AfterKeeps
<1>7. GoneEmpty' BY <1>2, <1>6 DEF StoredInv, GoneEmpty
<1>8. OneBoard'
  <2>1. \A x \in rows' \cup want' : \E y \in rows \cup want : y.edit = x.edit /\ y.board = x.board
    BY <1>2, <1>6
  <2>2. \A x, y \in rows' \cup want' : x.edit = y.edit => x.board = y.board
    BY <2>1 DEF StoredInv, OneBoard
  <2>3. \A c \in Waiting' : CarriesEdits(c) =>
          \A x \in rows' \cup want' : x.edit \in c.items => x.board = Target(c)
    BY <1>2, <2>1 DEF StoredInv, OneBoard
  <2>. QED BY <1>2, <2>2, <2>3 DEF StoredInv, OneBoard, CarriesEdits, Target
<1>9. DeleteAlone' BY <1>2 DEF StoredInv, DeleteAlone, Target
<1>. QED BY <1>5, <1>7, <1>8, <1>9

LEMMA DeleteStored ==
  ASSUME StoredInv, DeleteBulk
  PROVE  Foreseen' /\ GoneEmpty' /\ OneBoard' /\ DeleteAlone'
<1>. DEFINE B == ToSet(batch)
<1>1. /\ B \in SUBSET Waiting /\ \A c \in B : c.op = "delete"
      /\ exists \subseteq Board
  BY Awaited, BatchKind DEF StoredInv, DbQueueInv, TypeOK, Op, DeleteBulk
<1>2. Failed({}, B) /\ Waiting' = Waiting \ B /\ rows' = delete_bulk(rows, B)
      /\ exists' = exists /\ want' = want /\ harmed' = harmed
  BY Answered DEF DeleteBulk, Failed, StoredInv
<1>. HIDE DEF B
<1>3. ASSUME NEW b \in exists' \ harmed' PROVE Of(want', b) = Expected(b)'
  <2>1. b \in exists \ harmed /\ b \in Board BY <1>1, <1>2, <1>3
  <2>2. \A op \in Op \ {"read"} : At(Pend(op), b)' = At(Pend(op), b) \ B
    BY <1>2, <2>1, FailedPend
  <2>3. Of(rows', b) = delete_bulk(Of(rows, b), At(B, b)) BY <1>2, DeleteOf
  <2>4. CASE At(B, b) = {}
    <3>1. \A op \in Op \ {"read"} : At(Pend(op), b)' = At(Pend(op), b) BY <2>2, <2>4 DEF At, Pend
    <3>2. Of(rows', b) = Of(rows, b) BY <2>3, <2>4, DeleteNothing
    <3>3. Expected(b)' = Expected(b) BY <3>1, <3>2 DEF Expected, Op
    <3>. QED BY <1>2, <2>1, <3>3 DEF StoredInv, Foreseen
  <2>5. CASE At(B, b) # {}
    <3>1. PICK c \in At(B, b) : TRUE BY <2>5
    <3>2. c \in Waiting /\ c.op = "delete" /\ Target(c) = b BY <1>1, <3>1 DEF At
    <3>3. \A d \in Waiting : Target(d) = b /\ d.op # "read" => d = c
      BY <3>2 DEF StoredInv, DeleteAlone
    <3>4. At(Pend("create"), b) = {} /\ At(Pend("update"), b) = {}
      BY <3>2, <3>3 DEF At, Pend
    <3>5. At(Pend("delete"), b) = {c} /\ At(B, b) = {c}
      BY <1>1, <3>1, <3>2, <3>3 DEF At, Pend
    <3>6. At(Pend("create"), b)' = {} /\ At(Pend("update"), b)' = {} /\ At(Pend("delete"), b)' = {}
      BY <2>2, <3>1, <3>4, <3>5 DEF Op, At
    <3>7. Expected(b) = delete_bulk(Of(rows, b), {c})
      BY <3>4, <3>5, CopyNothing, SetNothing DEF Expected
    <3>8. Expected(b)' = Of(rows', b)
      BY <3>6, CopyNothing, SetNothing, DeleteNothing DEF Expected
    <3>. QED BY <1>2, <2>1, <2>3, <3>5, <3>7, <3>8 DEF StoredInv, Foreseen
  <2>. QED BY <2>4, <2>5
<1>4. Foreseen' BY <1>3 DEF Foreseen
<1>5. rows' \subseteq rows BY <1>2 DEF delete_bulk
<1>. QED BY <1>2, <1>4, <1>5, FailedRest

----------------------------------------------------------------------------
(* What the rooms ask for.                                                 *)

LEMMA Quiet ==
  ASSUME DbQueueInv, NEW b \in Board, Writing(b) = {}
  PROVE  /\ \A c \in Waiting : Target(c) = b => c.op = "read"
         /\ \A op \in Op \ {"read"} : At(Pend(op), b) = {}
<1>1. ASSUME NEW c \in Waiting, Target(c) = b PROVE c.op = "read"
  <2>1. c.room \in Room /\ c \in due[c.room] BY Awaited
  <2>. QED BY <1>1, <2>1 DEF Writing, Target
<1>. QED BY <1>1 DEF At, Pend

LEMMA NothingPending ==
  ASSUME NEW b, \A op \in Op \ {"read"} : At(Pend(op), b) = {}
  PROVE  Expected(b) = Of(rows, b)
BY CopyNothing, SetNothing, DeleteNothing DEF Expected, Op

LEMMA Asked ==
  ASSUME StoredInv, NEW r \in Room, NEW cs \in SUBSET {c \in Chunk : c.room = r},
         NEW then, Ask(r, cs, then)
  PROVE  \/ Failed(Boards(cs), {}) /\ rows' = rows
         \/ /\ Waiting' = Waiting \cup cs
            /\ UNCHANGED <<exists, rows, harmed>>
            /\ want' = IF BoardOf[r] \in exists \ harmed THEN then ELSE want
<1>1. due[r] = {} /\ UNCHANGED <<exists, rows>> BY DEF Ask
<1>2. CASE stage = "dead" /\ Harm(Boards(cs)) /\ due' = due
  <2>1. Waiting' = Waiting BY <1>2 DEF Waiting
  <2>. QED BY <1>1, <1>2, <2>1 DEF Harm, Failed
<1>3. ASSUME due' = [due EXCEPT ![r] = cs] PROVE Waiting' = Waiting \cup cs
  <2>1. due'[r] = cs /\ \A x \in Room \ {r} : due'[x] = due[x]
    BY <1>3 DEF StoredInv, DbQueueInv, TypeOK
  <2>. QED BY <1>1, <2>1 DEF Waiting
<1>4. \/ stage = "dead" /\ Harm(Boards(cs)) /\ due' = due
      \/ /\ due' = [due EXCEPT ![r] = cs]
         /\ want' = IF BoardOf[r] \in exists \ harmed THEN then ELSE want
         /\ harmed' = harmed
  BY DEF Ask
<1>. QED BY <1>1, <1>2, <1>3, <1>4

LEMMA PullStored ==
  ASSUME StoredInv, NEW r \in Room, Pull(r)
  PROVE  Foreseen' /\ GoneEmpty' /\ OneBoard' /\ DeleteAlone'
<1>. DEFINE c == [op |-> "read", room |-> r]
<1>1. c \in Chunk /\ c.room = r /\ c.op = "read" BY RoomChunks
<1>2. Ask(r, {c}, want) BY DEF Pull
<1>. HIDE DEF c
<1>3. CASE Failed(Boards({c}), {}) /\ rows' = rows BY <1>3, FailedStored
<1>4. CASE Waiting' = Waiting \cup {c} /\ UNCHANGED <<exists, rows, harmed, want>>
  <2>1. \A op \in Op \ {"read"} : \A b : At(Pend(op), b)' = At(Pend(op), b)
    BY <1>1, <1>4 DEF At, Pend
  <2>2. \A b : Expected(b)' = Expected(b) BY <1>4, <2>1 DEF Expected, Op
  <2>3. Foreseen' BY <1>4, <2>2 DEF StoredInv, Foreseen
  <2>4. GoneEmpty' BY <1>4 DEF StoredInv, GoneEmpty
  <2>5. OneBoard' BY <1>1, <1>4 DEF StoredInv, OneBoard, CarriesEdits, Target
  <2>6. DeleteAlone' BY <1>1, <1>4 DEF StoredInv, DeleteAlone, Target
  <2>. QED BY <2>3, <2>4, <2>5, <2>6
<1>. QED BY <1>1, <1>2, <1>3, <1>4, Asked

LEMMA EmptyStored ==
  ASSUME StoredInv, NEW r \in Room, NEW st \in Status, Empty(r, st)
  PROVE  Foreseen' /\ GoneEmpty' /\ OneBoard' /\ DeleteAlone'
<1>. DEFINE c == [op |-> "delete", room |-> r, status |-> st]
            home == BoardOf[r]
<1>1. c \in Chunk /\ c.room = r /\ c.op = "delete" BY RoomChunks
<1>2. Ask(r, {c}, delete_bulk(want, {c})) /\ Writing(home) = {} BY DEF Empty
<1>. HIDE DEF c
<1>3. home \in Board /\ Target(c) = home BY <1>1, DbQueueAssumption DEF Target
<1>4. /\ \A d \in Waiting : Target(d) = home => d.op = "read"
      /\ \A op \in Op \ {"read"} : At(Pend(op), home) = {}
  BY <1>2, <1>3, Quiet DEF StoredInv
<1>5. CASE Failed(Boards({c}), {}) /\ rows' = rows BY <1>5, FailedStored
<1>6. CASE /\ Waiting' = Waiting \cup {c} /\ UNCHANGED <<exists, rows, harmed>>
           /\ want' = IF home \in exists \ harmed THEN delete_bulk(want, {c}) ELSE want
  <2>. HIDE DEF home
  <2>1. ASSUME NEW b \in exists' \ harmed' PROVE Of(want', b) = Expected(b)'
    <3>1. b \in exists \ harmed BY <1>6, <2>1
    <3>2. CASE b = home
      <4>1. Of(want', b) = delete_bulk(Of(want, b), {c})
        <5>1. At({c}, b) = {c} BY <1>3, <3>2 DEF At
        <5>. QED BY <1>6, <3>1, <3>2, <5>1, DeleteOf
      <4>2. Of(want, b) = Of(rows, b)
        BY <1>4, <3>1, <3>2, NothingPending DEF StoredInv, Foreseen
      <4>3. /\ At(Pend("create"), b)' = {} /\ At(Pend("update"), b)' = {}
            /\ At(Pend("delete"), b)' = {c}
        <5>1. \A d \in Waiting \cup {c} : Target(d) = b => d.op = "read" \/ d = c BY <1>4, <3>2
        <5>. QED BY <1>1, <1>3, <1>6, <3>2, <5>1 DEF At, Pend
      <4>4. Expected(b)' = delete_bulk(Of(rows', b), {c})
        BY <4>3, CopyNothing, SetNothing DEF Expected
      <4>. QED BY <1>6, <4>1, <4>2, <4>4
    <3>3. CASE b # home
      <4>1. At({c}, b) = {} BY <1>3, <3>3 DEF At
      <4>2. Of(want', b) = Of(want, b) BY <1>6, <4>1, DeleteOf, DeleteNothing
      <4>3. \A op \in Op \ {"read"} : At(Pend(op), b)' = At(Pend(op), b)
        BY <1>3, <1>6, <3>3 DEF At, Pend, Target
      <4>4. Expected(b)' = Expected(b) BY <1>6, <4>3 DEF Expected, Op
      <4>. QED BY <3>1, <4>2, <4>4 DEF StoredInv, Foreseen
    <3>. QED BY <3>2, <3>3
  <2>2. Foreseen' BY <2>1 DEF Foreseen
  <2>3. want' \subseteq want BY <1>6 DEF delete_bulk
  <2>4. GoneEmpty' BY <1>6, <2>3 DEF StoredInv, GoneEmpty
  <2>5. OneBoard'
    <3>1. rows' \cup want' \subseteq rows \cup want BY <1>6, <2>3
    <3>2. \A d \in Waiting' : d.op \in {"create", "update"} => d \in Waiting BY <1>1, <1>6
    <3>. QED BY <3>1, <3>2 DEF StoredInv, OneBoard, CarriesEdits, Target
  <2>6. DeleteAlone' BY <1>3, <1>4, <1>6 DEF StoredInv, DeleteAlone, Target
  <2>. QED BY <2>2, <2>4, <2>5, <2>6
<1>. QED BY <1>1, <1>2, <1>5, <1>6, Asked

(* The chunks of a flush: their edits are apart, those it creates are new, *)
(* and those it changes are on its board.                                  *)
LEMMA FlushChunks ==
  ASSUME NEW r \in Room, NEW new, NEW und \in SUBSET new, NEW old, NEW setUnd \in SUBSET old
  PROVE  /\ \A c \in Creates(r, new \ und, und) : c.items \subseteq new
         /\ \A c \in Updates(r, old \ setUnd, setUnd) : c.items \subseteq old
         /\ Disjoint(Creates(r, new \ und, und)) /\ Disjoint(Updates(r, old \ setUnd, setUnd))
BY DEF Creates, Updates, Chunks, Disjoint

LEMMA FlushStored ==
  ASSUME StoredInv, NEW r \in Room, NEW new \in SUBSET Fresh,
         NEW old \in SUBSET Known(BoardOf[r]), NEW und \in SUBSET new, NEW setUnd \in SUBSET old,
         Flush(r, new \ und, und, old \ setUnd, setUnd)
  PROVE  Foreseen' /\ GoneEmpty' /\ OneBoard' /\ DeleteAlone'
<1>. DEFINE home == BoardOf[r]
            C == Creates(r, new \ und, und)
            U == Updates(r, old \ setUnd, setUnd)
            then == set_status(copy(want, C), U)
<1>1. /\ rows \in SUBSET Row /\ want \in SUBSET Row /\ exists \subseteq Board
      /\ home \in Board /\ Waiting \in SUBSET Chunk
  BY Awaited, DbQueueAssumption DEF StoredInv, DbQueueInv, TypeOK
<1>2. new \in SUBSET Edit /\ old \in SUBSET Edit BY <1>1 DEF Fresh, Known, Of, Row
<1>3. /\ C \in SUBSET Chunk /\ U \in SUBSET Chunk
      /\ \A c \in C : c.op = "create" /\ c.room = r
      /\ \A c \in U : c.op = "update" /\ c.room = r
  <2>1. /\ new \ und \in SUBSET Edit /\ und \in SUBSET Edit
        /\ old \ setUnd \in SUBSET Edit /\ setUnd \in SUBSET Edit
    BY <1>2
  <2>. QED BY <2>1, RoomChunks
<1>4. /\ \A c \in C : c.items \subseteq new
      /\ \A c \in U : c.items \subseteq old
      /\ Disjoint(C) /\ Disjoint(U)
  BY FlushChunks
<1>5. Ask(r, C \cup U, then) /\ Writing(home) = {} BY DEF Flush
<1>. HIDE DEF C, U, then
<1>6. \A c \in C \cup U : Target(c) = home BY <1>3 DEF Target
<1>7. /\ \A d \in Waiting : Target(d) = home => d.op = "read"
      /\ \A op \in Op \ {"read"} : At(Pend(op), home) = {}
  BY <1>1, <1>5, Quiet DEF StoredInv
<1>. HIDE DEF home
<1>8. \A x \in rows \cup want : x.edit \notin new /\ (x.edit \in old => x.board = home)
  <2>1. ASSUME NEW x \in rows \cup want, x.edit \in old PROVE x.board = home
    <3>1. PICK y \in rows \cup want : y.edit = x.edit /\ y.board = home
      BY <2>1 DEF Known, Of, home
    <3>. QED BY <3>1 DEF StoredInv, OneBoard
  <2>. QED BY <2>1 DEF Fresh
<1>9. \A d \in Waiting : CarriesEdits(d) => d.items \cap new = {} /\ d.items \cap old = {}
  <2>1. ASSUME NEW d \in Waiting, CarriesEdits(d), NEW e \in d.items, e \in new PROVE FALSE
    <3>1. d.room \in Room /\ d \in due[d.room] BY Awaited DEF StoredInv
    <3>. QED BY <2>1, <3>1 DEF Fresh, CarriesEdits
  <2>2. ASSUME NEW d \in Waiting, CarriesEdits(d), NEW e \in d.items, e \in old PROVE FALSE
    <3>1. PICK y \in rows \cup want : y.edit = e /\ y.board = home
      BY <2>2 DEF Known, Of, home
    <3>2. Target(d) = home BY <2>2, <3>1 DEF StoredInv, OneBoard
    <3>. QED BY <1>7, <2>2, <3>2 DEF CarriesEdits
  <2>. QED BY <2>1, <2>2
<1>10. /\ copy(want, C) \in SUBSET Row
       /\ \A x \in copy(want, C) : x \in want \/ (x.board = home /\ x.edit \in new)
  BY <1>1, <1>3, <1>4, <1>6, StatementsYieldRows DEF copy
<1>11. ASSUME NEW b \in Board
       PROVE  Of(then, b) = set_status(copy(Of(want, b), At(C, b)), At(U, b))
  <2>1. ASSUME NEW c \in U, NEW x \in copy(want, C), x.edit \in c.items
        PROVE  x.board = Target(c)
    <3>1. x.edit \in old /\ Target(c) = home BY <1>4, <1>6, <2>1
    <3>2. x \in want => x.board = home BY <1>8, <3>1
    <3>. QED BY <1>10, <3>1, <3>2
  <2>2. Of(then, b) = set_status(Of(copy(want, C), b), At(U, b))
    BY <1>3, <1>4, <1>10, <2>1, SetOf DEF then
  <2>3. Of(copy(want, C), b) = copy(Of(want, b), At(C, b)) BY <1>1, <1>3, CopyOf
  <2>. QED BY <2>2, <2>3
<1>12. CASE Failed(Boards(C \cup U), {}) /\ rows' = rows BY <1>12, FailedStored
<1>13. CASE /\ Waiting' = Waiting \cup (C \cup U) /\ UNCHANGED <<exists, rows, harmed>>
            /\ want' = IF home \in exists \ harmed THEN then ELSE want
  <2>1. ASSUME NEW b \in exists' \ harmed' PROVE Of(want', b) = Expected(b)'
    <3>1. b \in exists \ harmed /\ b \in Board BY <1>1, <1>13, <2>1
    <3>2. CASE b = home
      <4>1. At(C, b) = C /\ At(U, b) = U BY <1>6, <3>2 DEF At
      <4>2. Of(want', b) = set_status(copy(Of(want, b), C), U) BY <1>11, <1>13, <3>1, <3>2, <4>1
      <4>3. Of(want, b) = Of(rows, b)
        BY <1>7, <3>1, <3>2, NothingPending DEF StoredInv, Foreseen
      <4>4. /\ At(Pend("create"), b)' = C /\ At(Pend("update"), b)' = U
            /\ At(Pend("delete"), b)' = {}
        BY <1>3, <1>6, <1>7, <1>13, <3>2 DEF At, Pend, Op
      <4>5. Expected(b)' = set_status(copy(Of(rows', b), C), U)
        BY <4>4, DeleteNothing DEF Expected
      <4>. QED BY <1>13, <4>2, <4>3, <4>5
    <3>3. CASE b # home
      <4>1. At(C, b) = {} /\ At(U, b) = {} BY <1>6, <3>3 DEF At
      <4>2. Of(then, b) = Of(want, b) BY <1>11, <3>1, <4>1, CopyNothing, SetNothing
      <4>3. \A op \in Op \ {"read"} : At(Pend(op), b)' = At(Pend(op), b)
        BY <1>6, <1>13, <3>3 DEF At, Pend, Target
      <4>4. Expected(b)' = Expected(b) BY <1>13, <4>3 DEF Expected, Op
      <4>. QED BY <1>13, <3>1, <4>2, <4>4 DEF StoredInv, Foreseen
    <3>. QED BY <3>2, <3>3
  <2>2. Foreseen' BY <2>1 DEF Foreseen
  <2>3. ASSUME NEW x \in rows' \cup want'
        PROVE  \/ \E y \in rows \cup want : y.edit = x.edit /\ y.board = x.board
               \/ x.edit \in new /\ x.board = home /\ home \in exists
    <3>1. CASE x \in rows \cup want BY <3>1
    <3>2. CASE x \in then /\ home \in exists
      <4>1. PICK y \in copy(want, C) : y.edit = x.edit /\ y.board = x.board
        BY <1>10, <3>2, SetEach, AfterKeeps DEF then
      <4>. QED BY <1>10, <3>2, <4>1
    <3>. QED BY <1>13, <2>3, <3>1, <3>2
  <2>4. GoneEmpty' BY <1>13, <2>3 DEF StoredInv, GoneEmpty
  <2>5. OneBoard'
    <3>1. ASSUME NEW x \in rows' \cup want', NEW y \in rows' \cup want', x.edit = y.edit
          PROVE  x.board = y.board
      <4>1. CASE x.edit \in new
        <5>1. \A u \in rows \cup want : u.edit # x.edit BY <1>8, <4>1
        <5>2. x.board = home BY <2>3, <5>1
        <5>3. y.board = home BY <2>3, <3>1, <5>1
        <5>. QED BY <5>2, <5>3
      <4>2. CASE x.edit \notin new
        <5>1. PICK u \in rows \cup want : u.edit = x.edit /\ u.board = x.board BY <2>3, <4>2
        <5>2. PICK v \in rows \cup want : v.edit = y.edit /\ v.board = y.board BY <2>3, <3>1, <4>2
        <5>. QED BY <3>1, <5>1, <5>2 DEF StoredInv, OneBoard
      <4>. QED BY <4>1, <4>2
    <3>2. ASSUME NEW c \in Waiting', CarriesEdits(c), NEW x \in rows' \cup want',
                 x.edit \in c.items
          PROVE  x.board = Target(c)
      <4>1. CASE c \in Waiting BY <1>9, <2>3, <3>2, <4>1 DEF StoredInv, OneBoard
      <4>2. CASE c \in C \cup U
        <5>1. Target(c) = home /\ x.edit \in new \cup old BY <1>4, <1>6, <3>2, <4>2
        <5>2. CASE x.edit \in new
          <6>1. \A u \in rows \cup want : u.edit # x.edit BY <1>8, <5>2
          <6>. QED BY <2>3, <5>1, <6>1
        <5>3. CASE x.edit \in old /\ x.edit \notin new
          <6>1. PICK y \in rows \cup want : y.edit = x.edit /\ y.board = x.board BY <2>3, <5>3
          <6>. QED BY <1>8, <5>1, <5>3, <6>1
        <5>. QED BY <5>1, <5>2, <5>3
      <4>. QED BY <1>13, <4>1, <4>2
    <3>3. new \cap old = {} BY DEF Fresh, Known, Of
    <3>4. ASSUME NEW c \in Waiting', NEW d \in Waiting', CarriesEdits(c), CarriesEdits(d), c # d
          PROVE  c.items \cap d.items = {}
      <4>1. CASE c \in Waiting /\ d \in Waiting BY <3>4, <4>1 DEF StoredInv, OneBoard
      <4>2. CASE c \in Waiting /\ d \in C \cup U BY <1>4, <1>9, <3>4, <4>2
      <4>3. CASE c \in C \cup U /\ d \in Waiting BY <1>4, <1>9, <3>4, <4>3
      <4>4. CASE c \in C \cup U /\ d \in C \cup U BY <1>4, <3>3, <3>4, <4>4 DEF Disjoint
      <4>. QED BY <1>13, <4>1, <4>2, <4>3, <4>4
    <3>. QED BY <3>1, <3>2, <3>4 DEF OneBoard, CarriesEdits, Target
  <2>6. DeleteAlone' BY <1>3, <1>6, <1>7, <1>13 DEF StoredInv, DeleteAlone, Target
  <2>. QED BY <2>2, <2>4, <2>5, <2>6
<1>. QED
  <2>1. C \cup U \in SUBSET {c \in Chunk : c.room = r} BY <1>3
  <2>. QED BY <1>5, <1>12, <1>13, <2>1, Asked DEF home

----------------------------------------------------------------------------
(* Boards and answers.                                                     *)

LEMMA DeleteBoardStored ==
  ASSUME StoredInv, NEW gone \in Board, DeleteBoard(gone)
  PROVE  Foreseen' /\ GoneEmpty' /\ OneBoard' /\ DeleteAlone'
<1>1. /\ exists' = exists \ {gone} /\ harmed' = harmed /\ Waiting' = Waiting
      /\ rows' = rows \ Of(rows, gone) /\ want' = want \ Of(want, gone)
  BY DEF DeleteBoard, chans, Waiting
<1>2. ASSUME NEW b \in exists' \ harmed' PROVE Of(want', b) = Expected(b)'
  <2>1. b # gone /\ b \in exists \ harmed BY <1>1, <1>2
  <2>2. Of(rows', b) = Of(rows, b) /\ Of(want', b) = Of(want, b) BY <1>1, <2>1 DEF Of
  <2>3. \A op : At(Pend(op), b)' = At(Pend(op), b) BY <1>1 DEF At, Pend, Target
  <2>4. Expected(b)' = Expected(b) BY <2>2, <2>3 DEF Expected
  <2>. QED BY <2>1, <2>2, <2>4 DEF StoredInv, Foreseen
<1>3. Foreseen' BY <1>2 DEF Foreseen
<1>4. GoneEmpty' BY <1>1 DEF StoredInv, GoneEmpty, Of
<1>5. OneBoard' BY <1>1 DEF StoredInv, OneBoard, CarriesEdits, Target
<1>6. DeleteAlone' BY <1>1 DEF StoredInv, DeleteAlone, Target
<1>. QED BY <1>3, <1>4, <1>5, <1>6

LEMMA ExecuteStored ==
  ASSUME StoredInv, Execute
  PROVE  Foreseen' /\ GoneEmpty' /\ OneBoard' /\ DeleteAlone'
<1>. DEFINE B == ToSet(batch)
<1>1. DbQueueInv BY DEF StoredInv
<1>2. CASE Copy
  <2>1. Waiting' = Waiting \ B BY <1>1, <1>2, Answered DEF Copy
  <2>2. Failed({}, B) BY <1>2, <2>1 DEF Copy, Failed, StoredInv
  <2>. QED BY <1>2, <2>1, <2>2, CopyStored DEF Copy
<1>3. CASE FileStays
  <2>1. Failed(Boards(Waiting \ B), B) /\ Waiting' = {} BY <1>1, <1>3, EndFails DEF FileStays
  <2>. QED BY <1>3, <2>1, CopyStored DEF FileStays
<1>4. CASE CopyFails \/ TransactionFails
  <2>1. Waiting' = Waiting \ B BY <1>1, <1>4, Answered DEF CopyFails, TransactionFails
  <2>2. \A c \in B : c.op = "read" \/ Target(c) \in Boards(B) BY TargetsInBoards
  <2>3. Failed(Boards(B), {})
    BY <1>4, <2>1, <2>2 DEF CopyFails, TransactionFails, Harm, Failed
  <2>. QED BY <1>4, <2>3, FailedStored DEF CopyFails, TransactionFails
<1>5. CASE Read \/ ReadFails
  <2>1. Waiting' = Waiting \ B BY <1>1, <1>5, Answered DEF Read, ReadFails
  <2>2. \A c \in B : c.op = "read" BY <1>1, <1>5, BatchKind DEF Read, ReadFails, Op
  <2>3. Failed({}, {}) BY <1>5, <2>1, <2>2 DEF Read, ReadFails, Failed
  <2>. QED BY <1>5, <2>3, FailedStored DEF Read, ReadFails
<1>. QED BY <1>2, <1>3, <1>4, <1>5, SetStatusStored, DeleteStored DEF Execute

----------------------------------------------------------------------------
(* The theorems.                                                           *)

LEMMA InitStored == Init => StoredInv
<1>. SUFFICES ASSUME Init PROVE StoredInv OBVIOUS
<1>1. Waiting = {} /\ \A b, op : At(Pend(op), b) = {} BY DEF Init, Waiting, At, Pend
<1>2. Foreseen BY <1>1, NothingPending DEF Init, Foreseen
<1>. QED BY <1>1, <1>2, InitInv DEF Init, StoredInv, GoneEmpty, OneBoard, DeleteAlone

LEMMA NextStored == StoredInv /\ [Next]_vars => StoredInv'
<1>. SUFFICES ASSUME StoredInv, [Next]_vars
              PROVE  Foreseen' /\ GoneEmpty' /\ OneBoard' /\ DeleteAlone'
  BY NextInv DEF StoredInv
<1>1. ASSUME NEW r \in Room, RoomStep(r)
      PROVE  Foreseen' /\ GoneEmpty' /\ OneBoard' /\ DeleteAlone'
  BY <1>1, FlushStored, EmptyStored, PullStored DEF RoomStep
<1>2. CASE \/ \E r \in Room : \E c \in out[r] : Send(r, c)
           \/ \E op \in Op : Receive(op)
           \/ WriteFile \/ UNCHANGED vars
  BY <1>2, SameStored DEF Send, Receive, WriteFile, vars, chans, task
<1>3. CASE WriterPanics
  <2>1. Failed(Boards(Waiting \ {}), {})
    BY <1>3, EndFails DEF WriterPanics, StoredInv
  <2>. QED BY <1>3, <2>1, FailedStored DEF WriterPanics
<1>. QED BY <1>1, <1>2, <1>3, DeleteBoardStored, ExecuteStored DEF Next

LEMMA StoredInvariant == Spec => []StoredInv
BY InitStored, NextStored, PTL DEF Spec

LEMMA StoredFollows == StoredInv => Stored
<1>. SUFFICES ASSUME StoredInv, NEW b \in Board \ harmed, Writing(b) = {}
              PROVE  Of(rows, b) = Of(want, b)
  BY DEF Stored
<1>1. CASE b \in exists
  <2>1. Expected(b) = Of(rows, b) BY Quiet, NothingPending DEF StoredInv
  <2>. QED BY <1>1, <2>1 DEF StoredInv, Foreseen
<1>2. CASE b \notin exists
  <2>1. Of(rows, b) = {} /\ Of(want, b) = {} BY <1>2 DEF StoredInv, GoneEmpty, Of
  <2>. QED BY <2>1
<1>. QED BY <1>1, <1>2

(* What the flushes of a board said is in the table when their answers are *)
(* there, in whatever batches and order their chunks were executed and     *)
(* whoever else had chunks there, unless a statement has failed that       *)
(* carried one of the board's (sync_with_queue, DbQueue).                  *)
THEOREM FlushesAreStored == Spec => []Stored
BY StoredInvariant, StoredFollows, PTL
=============================================================================
