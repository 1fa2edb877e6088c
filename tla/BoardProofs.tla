---------------------------- MODULE BoardProofs ----------------------------
(***************************************************************************)
(* The board and what it shows are safe, for every set of edits, every     *)
(* capacity of the queue, any number of operations by any number of        *)
(* clients, failing statements and kills.                                  *)
(*                                                                         *)
(* First the pure functions of EditLog.  The loops over the queue are      *)
(* recursive functions: their results are characterised by an induction on *)
(* the queue's length, itself derived from the fact that < is well founded *)
(* on Nat.                                                                 *)
(*                                                                         *)
(* BoardInv is inductive: the operation queue stays within its capacity    *)
(* and the cache agrees with the database.                                 *)
(*                                                                         *)
(* With it, what the board shows: each edit is shown once, no step but a   *)
(* deletion or a fault takes one away, and a kill moves at most as many as *)
(* the queue holds operations.  That invariant says where an edit is (one  *)
(* row, one chunk, one queued or pending push), how much is in the         *)
(* channels, and that the history variable is what the queue, the chunks   *)
(* and the rows add up to.                                                 *)
(*                                                                         *)
(* Last, with one editor at a time a room is the plain board of            *)
(* SharedBoard: EffectiveSpec implements it.  The argument follows the     *)
(* rows as they will be once the queue is flushed.  An operation that has  *)
(* an effect writes one row, younger than all others (RowStep);            *)
(* get_sync_data, step by step, amounts to the same (FlatStep); so do the  *)
(* chunks it sends, in any order of the edit task (SettledFlat,            *)
(* SettledCreate, SettledUpdate).  Rows of different ages have one read    *)
(* only (OnlyRead), so what a pull replays over the cache, what it reads   *)
(* after the flush and the plain board's lists are equal.                  *)
(***************************************************************************)
EXTENDS BoardView, NaturalsInduction, WellFoundedInduction, FiniteSetTheorems,
        SequenceTheorems, TLAPS

----------------------------------------------------------------------------
(* Induction on numbers, stated with sets so that it can be cited.         *)

(* Every nonempty set of numbers has a least element.                      *)
LEMMA LeastNumber ==
  ASSUME NEW T \in SUBSET Nat, T # {}
  PROVE  \E m \in T : \A n \in T : m <= n
<1> DEFINE R == {ss \in Nat \X Nat : ss[1] < ss[2]}
<1>1. IsWellFoundedOn(R, Nat)
  BY NatLessThanWellFounded, Zenon DEF OpToRel
<1>2. PICK x \in T : \A y \in T : ~ (<<y, x>> \in R)
  <2> HIDE DEF R
  <2>. QED BY <1>1, WFMin, Zenon
<1>3. \A y \in T : x <= y
  <2> TAKE y \in T
  <2>1. ~ (<<y, x>> \in R) BY <1>2
  <2>2. x \in Nat /\ y \in Nat OBVIOUS
  <2>. QED BY <2>1, <2>2
<1>. QED BY <1>3

(* Induction up to N.                                                      *)
LEMMA InductionUpTo ==
  ASSUME NEW N \in Nat, NEW T, 0 \in T,
         \A i \in 1..N : i - 1 \in T => i \in T
  PROVE  \A i \in 0..N : i \in T
<1> DEFINE B == {i \in 0..N : i \notin T}
<1> SUFFICES ASSUME B # {} PROVE FALSE
  OBVIOUS
<1>1. B \in SUBSET Nat OBVIOUS
<1>2. PICK m \in B : \A n \in B : m <= n
  <2> HIDE DEF B
  <2>. QED BY <1>1, LeastNumber
<1>3. m \in 1..N /\ m - 1 \in 0..N
  OBVIOUS
<1>4. m - 1 \notin B
  BY <1>2, <1>3
<1>. QED BY <1>3, <1>4

(* A nonempty set of indices of a sequence has a greatest element.         *)
LEMMA GreatestIndex ==
  ASSUME NEW n \in Nat, NEW I \in SUBSET (1..n), I # {}
  PROVE  Max(I) \in I
<1> DEFINE T == {k \in 0..n : n - k \in I}
<1>1. T \in SUBSET Nat /\ T # {}
  <2>1. PICK i \in I : TRUE OBVIOUS
  <2>2. n - i \in 0..n /\ n - (n - i) = i OBVIOUS
  <2>3. n - i \in T BY <2>2
  <2>4. T \in SUBSET Nat OBVIOUS
  <2> HIDE DEF T
  <2>. QED BY <2>3, <2>4
<1>2. PICK m \in T : \A k \in T : m <= k
  <2> HIDE DEF T
  <2>. QED BY <1>1, LeastNumber
<1>3. n - m \in I /\ \A i \in I : n - m >= i
  <2>1. ASSUME NEW i \in I PROVE n - m >= i
    <3>1. n - i \in T OBVIOUS
    <3>2. m <= n - i BY <1>2, <3>1
    <3>. QED BY <3>2
  <2>. QED BY <2>1
<1>. QED BY <1>3 DEF Max

(* A loop over a sequence that keeps a state in S: the function of its     *)
(* intermediate states exists.                                             *)
Run(f, S, step, init, q) ==
  /\ f \in [0..Len(q) -> S]
  /\ f[0] = init
  /\ \A i \in 1..Len(q) : f[i] = step[q[i]][f[i-1]]

LEMMA LoopStates ==
  ASSUME NEW S, NEW A, NEW step \in [A -> [S -> S]], NEW init \in S, NEW q \in Seq(A)
  PROVE  \E f : Run(f, S, step, init, q)
<1> DEFINE Good(n) == \E f \in [0..n -> S] :
            /\ f[0] = init
            /\ \A i \in 1..n : f[i] = step[q[i]][f[i-1]]
           T == {n \in 0..Len(q) : Good(n)}
<1>0. Len(q) \in Nat OBVIOUS
<1>1. 0 \in T
  <2> DEFINE g == [i \in 0..0 |-> init]
  <2>1. g \in [0..0 -> S] /\ g[0] = init /\ \A i \in 1..0 : g[i] = step[q[i]][g[i-1]]
    OBVIOUS
  <2>2. Good(0)
    <3> HIDE DEF g
    <3>. QED BY <2>1
  <2>. QED BY <2>2, <1>0
<1>2. ASSUME NEW n \in 1..Len(q), n - 1 \in T
      PROVE  n \in T
  <2>1. PICK f \in [0..(n-1) -> S] : /\ f[0] = init
                                  /\ \A i \in 1..(n-1) : f[i] = step[q[i]][f[i-1]]
    BY <1>2
  <2> DEFINE g == [i \in 0..n |-> IF i = n THEN step[q[n]][f[n-1]] ELSE f[i]]
  <2>2. q[n] \in A /\ f[n-1] \in S BY <1>0
  <2>3. g \in [0..n -> S] BY <2>2, <1>0
  <2>4. g[0] = init BY <2>1, <1>0
  <2>5. \A i \in 1..n : g[i] = step[q[i]][g[i-1]]
    BY <2>1, <1>0
  <2>6. Good(n)
     <3> HIDE DEF g
     <3>. QED BY <2>3, <2>4, <2>5
  <2>. QED BY <2>6
<1>3. \A i \in 0..Len(q) : i \in T
  <2> HIDE DEF T
  <2>. QED BY <1>0, <1>1, <1>2, InductionUpTo
<1>. QED BY <1>3, <1>0 DEF Run

----------------------------------------------------------------------------
(* The replay.                                                             *)

LEMMA RemoveLastType ==
  ASSUME NEW s \in Seq(Edit), NEW id \in ToSet(s)
  PROVE  RemoveLast(s, id) \in Seq(Edit)
<1> DEFINE I == {i \in 1..Len(s) : s[i] = id}
           k == Max(I)
<1>0. Len(s) \in Nat /\ DOMAIN s = 1..Len(s) OBVIOUS
<1>1. I # {} /\ I \in SUBSET (1..Len(s)) BY <1>0 DEF ToSet
<1>2. k \in 1..Len(s)
  <2> HIDE DEF I
  <2>. QED BY <1>0, <1>1, GreatestIndex
<1>3. RemoveLast(s, id) = SubSeq(s, 1, k - 1) \o SubSeq(s, k + 1, Len(s))
  BY <1>1 DEF RemoveLast, RemoveAt, SelectLastInSeq
<1>4. SubSeq(s, 1, k - 1) \in Seq(Edit) /\ SubSeq(s, k + 1, Len(s)) \in Seq(Edit)
  <2> HIDE DEF k
  <2>. QED BY <1>0, <1>2
<1>. QED BY <1>3, <1>4

LEMMA ReplayStepType ==
  ASSUME NEW s \in EditState, NEW op \in QueueOp
  PROVE  ReplayStep(s, op) \in EditState
<1>1. CASE op.kind = "push"
  BY <1>1 DEF ReplayStep, EditState, QueueOp
<1>2. CASE op.kind = "undo" /\ op.id \in ToSet(s.current)
  <2>1. RemoveLast(s.current, op.id) \in Seq(Edit) BY <1>2, RemoveLastType DEF EditState
  <2>. QED BY <1>2, <2>1 DEF ReplayStep, EditState, QueueOp
<1>3. CASE op.kind = "redo" /\ op.id \in ToSet(s.undone)
  <2>1. RemoveLast(s.undone, op.id) \in Seq(Edit) BY <1>3, RemoveLastType DEF EditState
  <2>. QED BY <1>3, <2>1 DEF ReplayStep, EditState, QueueOp
<1>4. CASE ~ \/ op.kind = "push"
             \/ op.kind = "undo" /\ op.id \in ToSet(s.current)
             \/ op.kind = "redo" /\ op.id \in ToSet(s.undone)
  BY <1>4 DEF ReplayStep
<1>. QED BY <1>1, <1>2, <1>3, <1>4

(* The states the replay of a queue goes through.                          *)
LEMMA ReplayStates ==
  ASSUME NEW s \in EditState, NEW q \in Seq(QueueOp)
  PROVE  \E f \in [0 .. Len(q) -> EditState] :
           /\ f[0] = s /\ f[Len(q)] = Replay(s, q)
           /\ \A i \in 1 .. Len(q) : f[i] = ReplayStep(f[i - 1], q[i])
<1> DEFINE Body(g) == [i \in 0..Len(q) |-> IF i = 0 THEN s ELSE ReplayStep(g[i - 1], q[i])]
           f == CHOOSE g : g = Body(g)
           step == [op \in QueueOp |-> [t \in EditState |-> ReplayStep(t, op)]]
<1>0. Len(q) \in Nat OBVIOUS
<1>1. step \in [QueueOp -> [EditState -> EditState]] BY ReplayStepType
<1>2. PICK h : Run(h, EditState, step, s, q)
  <2> HIDE DEF step
  <2>. QED BY <1>1, LoopStates, Zenon
<1>3. \A i \in 1..Len(q) : h[i] = ReplayStep(h[i - 1], q[i])
  <2> TAKE i \in 1..Len(q)
  <2>1. q[i] \in QueueOp /\ h[i - 1] \in EditState BY <1>0, <1>2 DEF Run
  <2>2. step[q[i]][h[i - 1]] = ReplayStep(h[i - 1], q[i]) BY <2>1
  <2>. QED BY <1>2, <2>2 DEF Run
<1>4. h = Body(h) BY <1>0, <1>2, <1>3 DEF Run
<1>5. f = Body(f) BY <1>4
<1>6. \A i \in 0..Len(q) : i \in {n \in 0..Len(q) : f[n] \in EditState}
  <2> DEFINE T == {n \in 0..Len(q) : f[n] \in EditState}
  <2> HIDE DEF f
  <2>1. 0 \in T BY <1>0, <1>5
  <2>2. ASSUME NEW i \in 1..Len(q), i - 1 \in T PROVE i \in T
    <3>1. f[i] = ReplayStep(f[i - 1], q[i]) BY <1>0, <1>5
    <3>2. q[i] \in QueueOp /\ f[i - 1] \in EditState BY <1>0, <2>2
    <3>3. f[i] \in EditState BY <3>1, <3>2, ReplayStepType
    <3>. QED BY <3>3
  <2> HIDE DEF T
  <2>3. \A i \in 0..Len(q) : i \in T BY <1>0, <2>1, <2>2, InductionUpTo
  <2>. QED BY <2>3 DEF T
<1>7. Replay(s, q) = f[Len(q)] BY DEF Replay
<1> HIDE DEF f
<1>8. f \in [0 .. Len(q) -> EditState] BY <1>5, <1>6
<1>9. f[0] = s /\ \A i \in 1 .. Len(q) : f[i] = ReplayStep(f[i - 1], q[i]) BY <1>0, <1>5
<1>. QED BY <1>7, <1>8, <1>9

(* Replaying a queue over two lists of edits gives two lists of edits.     *)
LEMMA ReplayType ==
  ASSUME NEW s \in EditState, NEW q \in Seq(QueueOp)
  PROVE  Replay(s, q) \in EditState
BY ReplayStates

----------------------------------------------------------------------------
(* get_sync_data.                                                          *)

LEMMA MapType ==
  ASSUME NEW m \in IdMap, NEW op \in QueueOp
  PROVE  Del(m, op.id) \in IdMap /\ Put(m, op) \in IdMap
<1>1. Del(m, op.id) \in SUBSET m BY DEF Del
<1>2. IsFiniteSet(m) /\ m \in SUBSET Item BY DEF IdMap
<1>3. IsFiniteSet(Del(m, op.id)) BY <1>1, <1>2, FS_Subset
<1>4. Del(m, op.id) \in SUBSET Item BY <1>1, <1>2
<1>5. [id |-> op.id, at |-> op.at] \in Item BY DEF QueueOp, Item
<1>6. IsFiniteSet(Put(m, op)) BY <1>3, FS_AddElement DEF Put
<1>7. Put(m, op) \in SUBSET Item BY <1>4, <1>5 DEF Put
<1>. QED BY <1>3, <1>4, <1>6, <1>7 DEF IdMap

LEMMA SyncStepType ==
  ASSUME NEW d \in SyncData, NEW op \in QueueOp
  PROVE  SyncStep(d, op) \in SyncData
<1>1. /\ d.current \in IdMap /\ d.undone \in IdMap
      /\ d.set_current \in IdMap /\ d.set_undone \in IdMap
  BY DEF SyncData
<1>2. op.kind \in {"push", "undo", "redo"} BY DEF QueueOp, OpKind
<1>3. \A m \in IdMap : Del(m, op.id) \in IdMap /\ Put(m, op) \in IdMap
  BY MapType
<1>4. CASE op.kind = "push"
  BY <1>1, <1>3, <1>4 DEF SyncStep, SyncData
<1>5. CASE op.kind = "undo" /\ Has(d.current, op.id)
  BY <1>1, <1>3, <1>5 DEF SyncStep, SyncData
<1>6. CASE op.kind = "undo" /\ ~Has(d.current, op.id)
  BY <1>1, <1>3, <1>6 DEF SyncStep, SyncData
<1>7. CASE op.kind = "redo" /\ Has(d.undone, op.id)
  BY <1>1, <1>3, <1>7 DEF SyncStep, SyncData
<1>8. CASE op.kind = "redo" /\ ~Has(d.undone, op.id)
  BY <1>1, <1>3, <1>8 DEF SyncStep, SyncData
<1>. QED BY <1>2, <1>4, <1>5, <1>6, <1>7, <1>8

(* The maps the loop over the queue goes through.                          *)
LEMMA SyncStates ==
  ASSUME NEW q \in Seq(QueueOp)
  PROVE  \E f \in [0 .. Len(q) -> SyncData] :
           /\ f[0] = NoSyncData /\ f[Len(q)] = get_sync_data(q)
           /\ \A i \in 1 .. Len(q) : f[i] = SyncStep(f[i - 1], q[i])
<1> DEFINE Body(g) == [i \in 0..Len(q) |-> IF i = 0 THEN NoSyncData ELSE SyncStep(g[i - 1], q[i])]
           f == CHOOSE g : g = Body(g)
           step == [op \in QueueOp |-> [d \in SyncData |-> SyncStep(d, op)]]
<1>0. Len(q) \in Nat OBVIOUS
<1>1. step \in [QueueOp -> [SyncData -> SyncData]] BY SyncStepType
<1>2. NoSyncData \in SyncData BY FS_EmptySet DEF NoSyncData, SyncData, IdMap
<1>3. PICK h : Run(h, SyncData, step, NoSyncData, q)
  <2> HIDE DEF step
  <2>. QED BY <1>1, <1>2, LoopStates, Zenon
<1>4. \A i \in 1..Len(q) : h[i] = SyncStep(h[i - 1], q[i])
  <2> TAKE i \in 1..Len(q)
  <2>1. q[i] \in QueueOp /\ h[i - 1] \in SyncData BY <1>0, <1>3 DEF Run
  <2>2. step[q[i]][h[i - 1]] = SyncStep(h[i - 1], q[i]) BY <2>1
  <2>. QED BY <1>3, <2>2 DEF Run
<1>5. h = Body(h) BY <1>0, <1>3, <1>4 DEF Run
<1>6. f = Body(f) BY <1>5
<1>7. \A i \in 0..Len(q) : f[i] \in SyncData
  <2> DEFINE T == {n \in 0..Len(q) : f[n] \in SyncData}
  <2> HIDE DEF f
  <2>1. 0 \in T BY <1>0, <1>2, <1>6
  <2>2. ASSUME NEW i \in 1..Len(q), i - 1 \in T PROVE i \in T
    <3>1. f[i] = SyncStep(f[i - 1], q[i]) BY <1>0, <1>6
    <3>2. q[i] \in QueueOp /\ f[i - 1] \in SyncData BY <1>0, <2>2
    <3>3. f[i] \in SyncData BY <3>1, <3>2, SyncStepType
    <3>. QED BY <3>3
  <2> HIDE DEF T
  <2>3. \A i \in 0..Len(q) : i \in T BY <1>0, <2>1, <2>2, InductionUpTo
  <2>. QED BY <2>3 DEF T
<1>8. get_sync_data(q) = f[Len(q)] BY DEF get_sync_data
<1> HIDE DEF f
<1>9. f \in [0 .. Len(q) -> SyncData] BY <1>6, <1>7
<1>10. f[0] = NoSyncData /\ \A i \in 1 .. Len(q) : f[i] = SyncStep(f[i - 1], q[i]) BY <1>0, <1>6
<1>. QED BY <1>8, <1>9, <1>10

(* The queue condenses into four finite maps from ids to times.            *)
LEMMA SyncDataType ==
  ASSUME NEW q \in Seq(QueueOp)
  PROVE  get_sync_data(q) \in SyncData
BY SyncStates

----------------------------------------------------------------------------
(* The statements.                                                         *)

FiniteRows == {rows \in SUBSET Row : IsFiniteSet(rows)}

LEMMA CreateType ==
  ASSUME NEW rows \in FiniteRows, NEW c \in Chunk
  PROVE  create(rows, c) \in FiniteRows
<1> DEFINE new == {[edit_id |-> it.id, status |-> c.status, changed_at |-> it.at] : it \in c.items}
           f == [it \in c.items |-> [edit_id |-> it.id, status |-> c.status, changed_at |-> it.at]]
<1>1. c.items \in SUBSET Item /\ IsFiniteSet(c.items) /\ c.status \in Status
  BY DEF Chunk, IdMap
<1>2. f \in Surjection(c.items, new) BY DEF Surjection
<1>3. IsFiniteSet(new)
  <2> HIDE DEF f, new
  <2>. QED BY <1>1, <1>2, FS_Surjection
<1>4. new \in SUBSET Row BY <1>1 DEF Item, Row
<1>5. IsFiniteSet(rows) /\ rows \in SUBSET Row BY DEF FiniteRows
<1>6. IsFiniteSet(rows \cup new)
  <2> HIDE DEF new
  <2>. QED BY <1>3, <1>5, FS_Union
<1>. QED BY <1>4, <1>5, <1>6 DEF create, FiniteRows

LEMMA SetStatusType ==
  ASSUME NEW rows \in FiniteRows, NEW c \in Chunk
  PROVE  set_status(rows, c) \in FiniteRows
<1> DEFINE upd(r) == IF Has(c.items, r.edit_id)
                       THEN [edit_id |-> r.edit_id, status |-> c.status,
                             changed_at |-> At(c.items, r.edit_id)]
                       ELSE r
           f == [r \in rows |-> upd(r)]
           new == {upd(r) : r \in rows}
<1>1. c.items \in SUBSET Item /\ c.status \in Status
  BY DEF Chunk, IdMap
<1>2. IsFiniteSet(rows) /\ rows \in SUBSET Row BY DEF FiniteRows
<1>3. f \in Surjection(rows, new) BY DEF Surjection
<1>4. IsFiniteSet(new)
  <2> HIDE DEF f, new
  <2>. QED BY <1>2, <1>3, FS_Surjection
<1>5. ASSUME NEW r \in rows PROVE upd(r) \in Row
  <2>1. CASE Has(c.items, r.edit_id)
    <3>1. \E it \in c.items : it.id = r.edit_id BY <2>1 DEF Has
    <3>2. (CHOOSE it \in c.items : it.id = r.edit_id) \in c.items BY <3>1
    <3>3. At(c.items, r.edit_id) \in Nat BY <1>1, <3>2 DEF At, Item
    <3>. QED BY <1>1, <1>2, <2>1, <3>3 DEF Row
  <2>2. CASE ~Has(c.items, r.edit_id) BY <1>2, <2>2
  <2>. QED BY <2>1, <2>2
<1>6. new \in SUBSET Row BY <1>5
<1>7. set_status(rows, c) = new BY DEF set_status
<1> HIDE DEF new
<1>. QED BY <1>4, <1>6, <1>7 DEF FiniteRows

LEMMA DeleteType ==
  ASSUME NEW rows \in FiniteRows, NEW st
  PROVE  delete_bulk(rows, st) \in FiniteRows
<1>1. IsFiniteSet(rows) /\ rows \in SUBSET Row BY DEF FiniteRows
<1>2. delete_bulk(rows, st) \in SUBSET rows BY DEF delete_bulk
<1>3. IsFiniteSet(delete_bulk(rows, st)) BY <1>1, <1>2, FS_Subset
<1>. QED BY <1>1, <1>2, <1>3 DEF FiniteRows

LEMMA OrdersType ==
  ASSUME NEW R \in FiniteRows, NEW s \in Orders(R)
  PROVE  Ids(s) \in Seq(Edit)
<1>1. Cardinality(R) \in Nat BY FS_CardinalityType DEF FiniteRows
<1>2. s \in [1..Cardinality(R) -> R] BY DEF Orders
<1>3. \A i \in 1..Cardinality(R) : s[i].edit_id \in Edit BY <1>2 DEF FiniteRows, Row
<1>4. Ids(s) \in [1..Cardinality(R) -> Edit] BY <1>2, <1>3 DEF Ids
<1>. QED BY <1>1, <1>4

(* Whatever order equal times come in, a read gives two lists of edits.    *)
LEMMA ReadType ==
  ASSUME NEW rows \in FiniteRows, NEW s \in read(rows)
  PROVE  s \in EditState
<1> DEFINE Of(st) == {r \in rows : r.status = st}
<1>1. ASSUME NEW st PROVE Of(st) \in FiniteRows
  <2>1. IsFiniteSet(rows) /\ rows \in SUBSET Row BY DEF FiniteRows
  <2>2. Of(st) \in SUBSET rows OBVIOUS
  <2>3. IsFiniteSet(Of(st))
    <3> HIDE DEF Of
    <3>. QED BY <2>1, <2>2, FS_Subset
  <2>. QED BY <2>1, <2>2, <2>3 DEF FiniteRows
<1>2. PICK c \in Orders(Of("current")), u \in Orders(Of("undone")) :
        s = [current |-> Ids(c), undone |-> Ids(u)]
  BY DEF read
<1>3. Ids(c) \in Seq(Edit) /\ Ids(u) \in Seq(Edit)
  <2> HIDE DEF Of
  <2>. QED BY <1>1, <1>2, OrdersType
<1>. QED BY <1>2, <1>3 DEF EditState

----------------------------------------------------------------------------
(* The answer to a pull.                                                   *)

(* The states the loop over a list goes through when a pull is answered.   *)
LEMMA MissingStates ==
  ASSUME NEW s \in Seq(Edit), NEW have
  PROVE  \E f \in [0 .. Len(s) -> Seq(Edit)] :
           /\ f[0] = <<>> /\ f[Len(s)] = Missing(s, have)
           /\ \A i \in 1 .. Len(s) :
                f[i] = IF s[i] \in have THEN f[i - 1] ELSE Append(f[i - 1], s[i])
<1> DEFINE Step(t, e) == IF e \in have THEN t ELSE Append(t, e)
           Body(g) == [i \in 0..Len(s) |-> IF i = 0 THEN <<>> ELSE Step(g[i - 1], s[i])]
           f == CHOOSE g : g = Body(g)
           S == Seq(Edit)
           step == [e \in Edit |-> [t \in S |-> Step(t, e)]]
<1>0. Len(s) \in Nat /\ <<>> \in S /\ \A i \in 1..Len(s) : s[i] \in Edit
  OBVIOUS
<1>a. \A t \in S, e \in Edit : Step(t, e) \in S OBVIOUS
<1>7. Missing(s, have) = f[Len(s)] BY DEF Missing
<1> HIDE DEF S
<1> HIDE DEF Step
<1>1. step \in [Edit -> [S -> S]] BY <1>a
<1>2. PICK h : Run(h, S, step, <<>>, s)
  <2> HIDE DEF step
  <2>. QED BY <1>0, <1>1, LoopStates, Zenon
<1>3. \A i \in 1..Len(s) : h[i] = Step(h[i - 1], s[i])
  <2> TAKE i \in 1..Len(s)
  <2>1. s[i] \in Edit /\ h[i - 1] \in S BY <1>0, <1>2 DEF Run
  <2>2. step[s[i]][h[i - 1]] = Step(h[i - 1], s[i]) BY <2>1
  <2>. QED BY <1>2, <2>2 DEF Run
<1>4. h = Body(h) BY <1>0, <1>2, <1>3 DEF Run
<1>5. f = Body(f) BY <1>4
<1> HIDE DEF f
<1>6. f \in [0 .. Len(s) -> S]
  <2> DEFINE T == {n \in 0..Len(s) : f[n] \in S}
  <2>1. 0 \in T BY <1>0, <1>5
  <2>2. ASSUME NEW i \in 1..Len(s), i - 1 \in T PROVE i \in T
    <3>1. f[i] = Step(f[i - 1], s[i]) BY <1>0, <1>5
    <3>2. s[i] \in Edit /\ f[i - 1] \in S BY <1>0, <2>2
    <3>. QED BY <1>a, <3>1, <3>2
  <2> HIDE DEF T
  <2>3. \A i \in 0..Len(s) : i \in T BY <1>0, <2>1, <2>2, InductionUpTo
  <2>4. \A i \in 0..Len(s) : f[i] \in S BY <2>3 DEF T
  <2>. QED BY <1>5, <2>4
<1>8. \A i \in 1 .. Len(s) : f[i] = Step(f[i - 1], s[i])
  BY <1>0, <1>5
<1>9. f[0] = <<>> BY <1>0, <1>5
<1>. QED BY <1>6, <1>7, <1>8, <1>9 DEF Step, S

(* What a client lacks is a sequence of edits.                             *)
LEMMA MissingType ==
  ASSUME NEW s \in Seq(Edit), NEW have
  PROVE  Missing(s, have) \in Seq(Edit)
<1>1. PICK f \in [0 .. Len(s) -> Seq(Edit)] : f[Len(s)] = Missing(s, have) BY MissingStates
<1>. QED BY <1>1

LEMMA PullDataType ==
  ASSUME NEW s \in EditState, NEW v \in View
  PROVE  PullData(s, v) \in Answer
<1>1. s.current \in Seq(Edit) /\ s.undone \in Seq(Edit) BY DEF EditState
<1>2. v.current \in SUBSET Edit /\ v.undone \in SUBSET Edit BY DEF View
<1>3. /\ Missing(s.current, v.current) \in Seq(Edit)
      /\ Missing(s.undone, v.undone) \in Seq(Edit)
  BY <1>1, MissingType
<1>. QED BY <1>2, <1>3 DEF PullData, Answer

----------------------------------------------------------------------------
(* Replaying lists: where the edits go.                                    *)

(* Lists without repetitions, and the sets of what they list.              *)
Distinct(s) == \A i, j \in DOMAIN s : s[i] = s[j] => i = j

(* Appending adds to the set of what is listed.                            *)
LEMMA AppendSet ==
  ASSUME NEW s \in Seq(Edit), NEW e \in Edit
  PROVE  /\ ToSet(Append(s, e)) = ToSet(s) \cup {e}
         /\ Distinct(s) /\ e \notin ToSet(s) => Distinct(Append(s, e))
<1> DEFINE t == Append(s, e)
<1>1. /\ DOMAIN s = 1 .. Len(s) /\ DOMAIN t = 1 .. Len(s) + 1 /\ Len(s) \in Nat
      /\ t[Len(s) + 1] = e /\ \A i \in 1 .. Len(s) : t[i] = s[i]
  OBVIOUS
<1> HIDE DEF t
<1>2. \A i \in 1 .. Len(s) + 1 : i \in 1 .. Len(s) \/ i = Len(s) + 1 BY <1>1
<1>3. ToSet(t) = ToSet(s) \cup {e} BY <1>1, <1>2 DEF ToSet
<1>4. ASSUME Distinct(s), e \notin ToSet(s) PROVE Distinct(t)
  BY <1>1, <1>2, <1>4 DEF ToSet, Distinct
<1>. QED BY <1>3, <1>4 DEF t

(* The list without the last occurrence of an edit, position by position.  *)
LEMMA RemoveLastAt ==
  ASSUME NEW s \in Seq(Edit), NEW id \in ToSet(s)
  PROVE  \E k \in 1 .. Len(s) :
           /\ s[k] = id /\ RemoveLast(s, id) = RemoveAt(s, k)
           /\ RemoveLast(s, id) \in Seq(Edit) /\ Len(RemoveLast(s, id)) = Len(s) - 1
           /\ \A i \in 1 .. Len(s) - 1 : RemoveLast(s, id)[i] = IF i < k THEN s[i] ELSE s[i + 1]
<1> DEFINE I == {i \in 1..Len(s) : s[i] = id}
           k == Max(I)
<1>0. Len(s) \in Nat /\ DOMAIN s = 1..Len(s) OBVIOUS
<1>1. I # {} /\ I \in SUBSET (1..Len(s)) BY <1>0 DEF ToSet
<1>2. k \in I
  <2> HIDE DEF I
  <2>. QED BY <1>0, <1>1, GreatestIndex
<1>a. RemoveLast(s, id) = RemoveAt(s, k)
  BY <1>1 DEF RemoveLast, SelectLastInSeq
<1>3. RemoveLast(s, id) = SubSeq(s, 1, k - 1) \o SubSeq(s, k + 1, Len(s))
  BY <1>1 DEF RemoveLast, RemoveAt, SelectLastInSeq
<1>4. k \in 1 .. Len(s) /\ s[k] = id BY <1>2
<1> HIDE DEF k
<1> DEFINE u == SubSeq(s, 1, k - 1)
           v == SubSeq(s, k + 1, Len(s))
<1>5. /\ u \in Seq(Edit) /\ Len(u) = k - 1 /\ \A i \in 1 .. k - 1 : u[i] = s[i]
      /\ v \in Seq(Edit) /\ Len(v) = Len(s) - k /\ \A i \in 1 .. Len(s) - k : v[i] = s[k + i]
  <2>1. \A i \in 1 .. k - 1 : s[i] \in Edit BY <1>0, <1>4
  <2>2. \A i \in k + 1 .. Len(s) : s[i] \in Edit BY <1>0, <1>4
  <2>3. /\ u \in Seq(Edit) /\ Len(u) = IF 1 <= k - 1 THEN k - 1 - 1 + 1 ELSE 0
        /\ \A i \in 1 .. k - 1 - 1 + 1 : u[i] = s[1 + i - 1]
    BY <1>0, <1>4, <2>1, SubSeqProperties
  <2>4. /\ v \in Seq(Edit) /\ Len(v) = IF k + 1 <= Len(s) THEN Len(s) - (k + 1) + 1 ELSE 0
        /\ \A i \in 1 .. Len(s) - (k + 1) + 1 : v[i] = s[k + 1 + i - 1]
    BY <1>0, <1>4, <2>2, SubSeqProperties
  <2> HIDE DEF u, v
  <2>5. Len(u) = k - 1 /\ Len(v) = Len(s) - k
    <3>1. k \in Int /\ Len(s) \in Int /\ 1 <= k /\ k <= Len(s) BY <1>0, <1>4
    <3>2. Len(u) = k - 1 BY <2>3, <3>1
    <3>3. Len(v) = Len(s) - k BY <2>4, <3>1
    <3>. QED BY <3>2, <3>3
  <2>6. ASSUME NEW i \in 1 .. k - 1 PROVE u[i] = s[i]
    BY <1>4, <2>3
  <2>7. ASSUME NEW i \in 1 .. Len(s) - k PROVE v[i] = s[k + i]
    <3>1. i \in 1 .. Len(s) - (k + 1) + 1 /\ k + 1 + i - 1 = k + i BY <1>0, <1>4
    <3>. QED BY <2>4, <3>1
  <2>. QED BY <2>3, <2>4, <2>5, <2>6, <2>7
<1> HIDE DEF u, v
<1>6. /\ u \o v \in Seq(Edit) /\ Len(u \o v) = Len(s) - 1
      /\ \A i \in 1 .. Len(s) - 1 : (u \o v)[i] = IF i <= k - 1 THEN u[i] ELSE v[i - (k - 1)]
  <2>1. Len(u) + Len(v) = Len(s) - 1 BY <1>0, <1>4, <1>5
  <2>. QED BY <1>5, <2>1, ConcatProperties
<1>7. ASSUME NEW i \in 1 .. Len(s) - 1
      PROVE  (u \o v)[i] = IF i < k THEN s[i] ELSE s[i + 1]
  <2>1. CASE i < k
    <3>1. i \in 1 .. k - 1 /\ i <= k - 1 BY <1>4, <2>1
    <3>. QED BY <1>5, <1>6, <2>1, <3>1
  <2>2. CASE ~(i < k)
    <3>1. /\ ~(i <= k - 1) /\ i - (k - 1) \in 1 .. Len(s) - k
          /\ k + (i - (k - 1)) = i + 1
      BY <1>0, <1>4, <2>2
    <3>. QED BY <1>5, <1>6, <2>2, <3>1
  <2>. QED BY <2>1, <2>2
<1>. QED BY <1>a, <1>3, <1>4, <1>6, <1>7 DEF u, v

(* Removing an edit listed once leaves the others.                         *)
LEMMA RemoveLastSet ==
  ASSUME NEW s \in Seq(Edit), NEW id \in ToSet(s)
  PROVE  /\ ToSet(RemoveLast(s, id)) \cup {id} = ToSet(s)
         /\ Distinct(s) => /\ Distinct(RemoveLast(s, id))
                           /\ ToSet(RemoveLast(s, id)) = ToSet(s) \ {id}
<1> DEFINE t == RemoveLast(s, id)
<1>1. PICK k \in 1 .. Len(s) :
           /\ s[k] = id
           /\ t \in Seq(Edit) /\ Len(t) = Len(s) - 1
           /\ \A i \in 1 .. Len(s) - 1 : t[i] = IF i < k THEN s[i] ELSE s[i + 1]
  BY RemoveLastAt
<1> HIDE DEF t
<1>2. DOMAIN s = 1 .. Len(s) /\ DOMAIN t = 1 .. Len(s) - 1 /\ Len(s) \in Nat BY <1>1
<1>3. ASSUME NEW i \in DOMAIN t
      PROVE  \E j \in DOMAIN s : /\ j # k /\ t[i] = s[j]
                               /\ (i < k => j = i) /\ (i >= k => j = i + 1)
  <2>1. CASE i < k BY <1>1, <1>2, <2>1
  <2>2. CASE ~(i < k) BY <1>1, <1>2, <2>2
  <2>. QED BY <2>1, <2>2
<1>4. ASSUME NEW j \in DOMAIN s, j # k PROVE \E i \in DOMAIN t : t[i] = s[j]
  <2>1. CASE j < k BY <1>1, <1>2, <2>1
  <2>2. CASE j > k
    <3>1. j - 1 \in DOMAIN t /\ ~(j - 1 < k) /\ (j - 1) + 1 = j BY <1>1, <1>2, <2>2
    <3>2. t[j - 1] = s[j] BY <1>1, <1>2, <3>1
    <3>. QED BY <3>1, <3>2
  <2>. QED BY <1>2, <1>4, <2>1, <2>2
<1>5. ToSet(t) \cup {id} = ToSet(s)
  <2>1. ASSUME NEW e \in ToSet(t) PROVE e \in ToSet(s) BY <1>3 DEF ToSet
  <2>2. ASSUME NEW e \in ToSet(s), e # id PROVE e \in ToSet(t)
    BY <1>1, <1>4, <2>2 DEF ToSet
  <2>3. id \in ToSet(s) OBVIOUS
  <2>. QED BY <2>1, <2>2, <2>3
<1>6. ASSUME Distinct(s) PROVE Distinct(t) /\ id \notin ToSet(t)
  <2>1. ASSUME NEW i \in DOMAIN t, t[i] = id PROVE FALSE
    BY <1>1, <1>2, <1>3, <1>6, <2>1 DEF Distinct
  <2>2. ASSUME NEW i \in DOMAIN t, NEW j \in DOMAIN t, t[i] = t[j] PROVE i = j
    <3>1. PICK x \in DOMAIN s : x # k /\ t[i] = s[x] /\ (i < k => x = i) /\ (i >= k => x = i + 1)
      BY <1>3
    <3>2. PICK y \in DOMAIN s : y # k /\ t[j] = s[y] /\ (j < k => y = j) /\ (j >= k => y = j + 1)
      BY <1>3
    <3>3. x = y BY <1>6, <2>2, <3>1, <3>2 DEF Distinct
    <3>. QED BY <1>1, <1>2, <3>1, <3>2, <3>3
  <2>. QED BY <2>1, <2>2 DEF ToSet, Distinct
<1>. QED BY <1>5, <1>6 DEF t

Listed(s) == ToSet(s.current) \cup ToSet(s.undone)

(* Every edit once, in one list.                                           *)
DistinctState(s) ==
  /\ Distinct(s.current) /\ Distinct(s.undone)
  /\ ToSet(s.current) \cap ToSet(s.undone) = {}

(* The edits a queue pushes, up to its n-th operation.                     *)
PushedTo(q, n) == {q[i].id : i \in {j \in 1 .. n : q[j].kind = "push"}}
Pushed(q) == PushedTo(q, Len(q))
PushedOnce(q) ==
  \A i, j \in DOMAIN q : q[i].kind = "push" /\ q[j].kind = "push" /\ q[i].id = q[j].id => i = j

New(op) == IF op.kind = "push" THEN {op.id} ELSE {}

(* One more operation of the queue, one more edit if it is a push.         *)
LEMMA PushedStep ==
  ASSUME NEW q \in Seq(QueueOp), NEW n \in 1 .. Len(q)
  PROVE  /\ PushedTo(q, n) = PushedTo(q, n - 1) \cup New(q[n])
         /\ PushedTo(q, n - 1) \subseteq Pushed(q)
         /\ PushedOnce(q) /\ q[n].kind = "push" => q[n].id \notin PushedTo(q, n - 1)
<1>1. Len(q) \in Nat /\ DOMAIN q = 1 .. Len(q) /\ 1 .. n = (1 .. n - 1) \cup {n}
  OBVIOUS
<1>2. PushedTo(q, n) = PushedTo(q, n - 1) \cup New(q[n])
  BY <1>1 DEF PushedTo, New
<1>3. PushedTo(q, n - 1) \subseteq Pushed(q) BY <1>1 DEF Pushed, PushedTo
<1>4. ASSUME PushedOnce(q), q[n].kind = "push", q[n].id \in PushedTo(q, n - 1) PROVE FALSE
  BY <1>1, <1>4 DEF PushedOnce, PushedTo
<1>. QED BY <1>2, <1>3, <1>4

(* One operation: a push adds its edit, a command moves one from list to   *)
(* list or changes nothing.                                                *)
LEMMA ReplayStepListed ==
  ASSUME NEW s \in EditState, NEW op \in QueueOp
  PROVE  /\ Listed(ReplayStep(s, op)) = Listed(s) \cup New(op)
         /\ \A e : e # op.id =>
              /\ e \in ToSet(ReplayStep(s, op).current) <=> e \in ToSet(s.current)
              /\ e \in ToSet(ReplayStep(s, op).undone) <=> e \in ToSet(s.undone)
         /\ DistinctState(s) /\ New(op) \cap Listed(s) = {} => DistinctState(ReplayStep(s, op))
<1>0. /\ s.current \in Seq(Edit) /\ s.undone \in Seq(Edit)
      /\ op.id \in Edit /\ op.kind \in {"push", "undo", "redo"}
  BY DEF EditState, QueueOp, OpKind
<1>a. /\ ToSet(Append(s.current, op.id)) = ToSet(s.current) \cup {op.id}
      /\ ToSet(Append(s.undone, op.id)) = ToSet(s.undone) \cup {op.id}
      /\ Distinct(s.current) /\ op.id \notin ToSet(s.current) => Distinct(Append(s.current, op.id))
      /\ Distinct(s.undone) /\ op.id \notin ToSet(s.undone) => Distinct(Append(s.undone, op.id))
  BY <1>0, AppendSet
<1>1. CASE op.kind = "push"
  <2>1. ReplayStep(s, op) = [current |-> Append(s.current, op.id), undone |-> s.undone]
    BY <1>1 DEF ReplayStep
  <2>. QED BY <1>1, <1>a, <2>1 DEF Listed, New, DistinctState
<1>2. CASE op.kind = "undo" /\ op.id \in ToSet(s.current)
  <2>1. ReplayStep(s, op) = [current |-> RemoveLast(s.current, op.id),
                             undone  |-> Append(s.undone, op.id)]
    BY <1>2 DEF ReplayStep
  <2>2. /\ ToSet(RemoveLast(s.current, op.id)) \cup {op.id} = ToSet(s.current)
        /\ Distinct(s.current) =>
             /\ Distinct(RemoveLast(s.current, op.id))
             /\ ToSet(RemoveLast(s.current, op.id)) = ToSet(s.current) \ {op.id}
    BY <1>0, <1>2, RemoveLastSet
  <2>. QED BY <1>2, <1>a, <2>1, <2>2 DEF Listed, New, DistinctState
<1>3. CASE op.kind = "redo" /\ op.id \in ToSet(s.undone)
  <2>1. ReplayStep(s, op) = [current |-> Append(s.current, op.id),
                             undone  |-> RemoveLast(s.undone, op.id)]
    BY <1>3 DEF ReplayStep
  <2>2. /\ ToSet(RemoveLast(s.undone, op.id)) \cup {op.id} = ToSet(s.undone)
        /\ Distinct(s.undone) => /\ Distinct(RemoveLast(s.undone, op.id))
                                 /\ ToSet(RemoveLast(s.undone, op.id)) = ToSet(s.undone) \ {op.id}
    BY <1>0, <1>3, RemoveLastSet
  <2>. QED BY <1>3, <1>a, <2>1, <2>2 DEF Listed, New, DistinctState
<1>4. CASE ~ \/ op.kind = "push"
             \/ op.kind = "undo" /\ op.id \in ToSet(s.current)
             \/ op.kind = "redo" /\ op.id \in ToSet(s.undone)
  BY <1>4 DEF ReplayStep, Listed, New
<1>. QED BY <1>1, <1>2, <1>3, <1>4

(* The replay lists what was listed and what was pushed, moves only what   *)
(* the queue names, and lists every edit once if that was so and each is   *)
(* pushed once.                                                            *)
LEMMA ReplayListed ==
  ASSUME NEW s \in EditState, NEW q \in Seq(QueueOp)
  PROVE  /\ Listed(Replay(s, q)) = Listed(s) \cup Pushed(q)
         /\ \A e : (\A i \in DOMAIN q : e # q[i].id) =>
              /\ e \in ToSet(Replay(s, q).current) <=> e \in ToSet(s.current)
              /\ e \in ToSet(Replay(s, q).undone) <=> e \in ToSet(s.undone)
         /\ DistinctState(s) /\ PushedOnce(q) /\ Pushed(q) \cap Listed(s) = {}
              => DistinctState(Replay(s, q))
<1>1. PICK f \in [0 .. Len(q) -> EditState] :
           /\ f[0] = s /\ f[Len(q)] = Replay(s, q)
           /\ \A i \in 1 .. Len(q) : f[i] = ReplayStep(f[i - 1], q[i])
  BY ReplayStates
<1> DEFINE Same(x, y, n) ==
             \A e : (\A i \in 1 .. n : e # q[i].id) =>
               /\ e \in ToSet(x.current) <=> e \in ToSet(y.current)
               /\ e \in ToSet(x.undone) <=> e \in ToSet(y.undone)
           Fine == DistinctState(s) /\ PushedOnce(q) /\ Pushed(q) \cap Listed(s) = {}
           T == {n \in 0 .. Len(q) :
                   /\ Listed(f[n]) = Listed(s) \cup PushedTo(q, n)
                   /\ Same(f[n], s, n)
                   /\ Fine => DistinctState(f[n])}
<1>2. Len(q) \in Nat /\ DOMAIN q = 1 .. Len(q) OBVIOUS
<1>3. 0 \in T
  <2>1. PushedTo(q, 0) = {} BY DEF PushedTo
  <2>2. Same(f[0], s, 0) BY <1>1
  <2>3. Fine => DistinctState(f[0]) BY <1>1
  <2>4. Listed(f[0]) = Listed(s) \cup PushedTo(q, 0) /\ 0 \in 0 .. Len(q) BY <1>1, <1>2, <2>1
  <2> HIDE DEF Same, Fine
  <2>. QED BY <2>2, <2>3, <2>4
<1>4. ASSUME NEW n \in 1 .. Len(q), n - 1 \in T PROVE n \in T
  <2>1. /\ f[n - 1] \in EditState /\ q[n] \in QueueOp
        /\ f[n] = ReplayStep(f[n - 1], q[n])
    BY <1>1, <1>2, <1>4
  <2>2. /\ Listed(f[n]) = Listed(f[n - 1]) \cup New(q[n])
        /\ \A e : e # q[n].id =>
              /\ e \in ToSet(f[n].current) <=> e \in ToSet(f[n - 1].current)
              /\ e \in ToSet(f[n].undone) <=> e \in ToSet(f[n - 1].undone)
        /\ DistinctState(f[n - 1]) /\ New(q[n]) \cap Listed(f[n - 1]) = {} => DistinctState(f[n])
    BY <2>1, ReplayStepListed
  <2>3. /\ PushedTo(q, n) = PushedTo(q, n - 1) \cup New(q[n])
        /\ PushedTo(q, n - 1) \subseteq Pushed(q)
        /\ PushedOnce(q) /\ q[n].kind = "push" => q[n].id \notin PushedTo(q, n - 1)
    BY PushedStep
  <2>4. /\ Listed(f[n - 1]) = Listed(s) \cup PushedTo(q, n - 1)
        /\ Same(f[n - 1], s, n - 1) /\ (Fine => DistinctState(f[n - 1]))
    BY <1>4
  <2>5. Listed(f[n]) = Listed(s) \cup PushedTo(q, n) BY <2>2, <2>3, <2>4
  <2>6. Same(f[n], s, n)
    <3>1. n \in 1 .. n /\ \A i \in 1 .. n - 1 : i \in 1 .. n BY <1>2
    <3>2. ASSUME NEW e, \A i \in 1 .. n : e # q[i].id
          PROVE  /\ e \in ToSet(f[n].current) <=> e \in ToSet(s.current)
                 /\ e \in ToSet(f[n].undone) <=> e \in ToSet(s.undone)
      <4>1. e # q[n].id /\ \A i \in 1 .. n - 1 : e # q[i].id BY <3>1, <3>2
      <4>2. /\ e \in ToSet(f[n].current) <=> e \in ToSet(f[n - 1].current)
            /\ e \in ToSet(f[n].undone) <=> e \in ToSet(f[n - 1].undone)
        BY <2>2, <4>1
      <4>3. /\ e \in ToSet(f[n - 1].current) <=> e \in ToSet(s.current)
            /\ e \in ToSet(f[n - 1].undone) <=> e \in ToSet(s.undone)
        BY <2>4, <4>1
      <4>. QED BY <4>2, <4>3
    <3>. QED BY <3>2
  <2>7. ASSUME Fine PROVE DistinctState(f[n])
    <3>1. New(q[n]) \subseteq Pushed(q)
      BY <1>2 DEF New, Pushed, PushedTo
    <3>2. New(q[n]) \cap Listed(f[n - 1]) = {} BY <2>3, <2>4, <2>7, <3>1 DEF New
    <3>. QED BY <2>2, <2>4, <2>7, <3>2
  <2> HIDE DEF Same, Fine
  <2>. QED BY <2>5, <2>6, <2>7
<1>5. \A n \in 0 .. Len(q) : n \in T
  <2> HIDE DEF T
  <2>. QED BY <1>2, <1>3, <1>4, InductionUpTo
<1> HIDE DEF Same, Fine
<1>6. Len(q) \in 0 .. Len(q) BY <1>2
<1>7. /\ Listed(f[Len(q)]) = Listed(s) \cup PushedTo(q, Len(q))
      /\ Same(f[Len(q)], s, Len(q))
      /\ Fine => DistinctState(f[Len(q)])
  BY <1>5, <1>6
<1>8. PushedTo(q, Len(q)) = Pushed(q) BY DEF Pushed
<1>9. Same(Replay(s, q), s, Len(q)) BY <1>1, <1>7
<1>10. \A e : (\A i \in DOMAIN q : e # q[i].id) =>
              /\ e \in ToSet(Replay(s, q).current) <=> e \in ToSet(s.current)
              /\ e \in ToSet(Replay(s, q).undone) <=> e \in ToSet(s.undone)
  BY <1>2, <1>9 DEF Same
<1>11. Fine => DistinctState(Replay(s, q)) BY <1>1, <1>7
<1>. QED BY <1>1, <1>7, <1>8, <1>10, <1>11 DEF Fine

----------------------------------------------------------------------------
(* Condensing the queue: which edits the maps name.                        *)

(* The ids in a map, and a map with one entry for each.                    *)
IdsOf(m) == {it.id : it \in m}
OneEach(m) == \A x, y \in m : x.id = y.id => x = y

Created(d) == IdsOf(d.current) \cup IdsOf(d.undone)
Named(d) == Created(d) \cup IdsOf(d.set_current) \cup IdsOf(d.set_undone)
Functional(d) ==
  /\ OneEach(d.current) /\ OneEach(d.undone) /\ OneEach(d.set_current) /\ OneEach(d.set_undone)

(* The ids of a map after an entry is dropped or put.                      *)
LEMMA MapIds ==
  ASSUME NEW m \in IdMap, NEW op \in QueueOp
  PROVE  /\ IdsOf(Del(m, op.id)) = IdsOf(m) \ {op.id}
         /\ IdsOf(Put(m, op)) = IdsOf(m) \cup {op.id}
         /\ Has(m, op.id) <=> op.id \in IdsOf(m)
         /\ OneEach(m) => OneEach(Del(m, op.id)) /\ OneEach(Put(m, op))
<1> DEFINE new == [id |-> op.id, at |-> op.at]
<1>1. IdsOf(Del(m, op.id)) = IdsOf(m) \ {op.id} BY DEF IdsOf, Del
<1>2. new.id = op.id /\ Put(m, op) = Del(m, op.id) \cup {new} BY DEF Put
<1> HIDE DEF new
<1>3. IdsOf(Put(m, op)) = IdsOf(Del(m, op.id)) \cup {op.id} BY <1>2 DEF IdsOf
<1>4. Has(m, op.id) <=> op.id \in IdsOf(m) BY DEF Has, IdsOf
<1>5. OneEach(m) => OneEach(Del(m, op.id)) BY DEF OneEach, Del
<1>6. OneEach(m) => OneEach(Put(m, op)) BY <1>2 DEF OneEach, Del
<1>. QED BY <1>1, <1>3, <1>4, <1>5, <1>6

(* One iteration of get_sync_data names at most the edit of its operation. *)
LEMMA SyncStepIds ==
  ASSUME NEW d \in SyncData, NEW op \in QueueOp
  PROVE  /\ Created(SyncStep(d, op)) = Created(d) \cup New(op)
         /\ Named(SyncStep(d, op)) \subseteq Named(d) \cup {op.id}
         /\ Functional(d) => Functional(SyncStep(d, op))
         /\ IdsOf(d.current) \cap IdsOf(d.undone) = {} /\ New(op) \cap Created(d) = {}
              => IdsOf(SyncStep(d, op).current) \cap IdsOf(SyncStep(d, op).undone) = {}
<1> DEFINE e == SyncStep(d, op)
<1>1. /\ d.current \in IdMap /\ d.undone \in IdMap
      /\ d.set_current \in IdMap /\ d.set_undone \in IdMap
  BY DEF SyncData
<1>2. op.kind \in {"push", "undo", "redo"} BY DEF QueueOp, OpKind
<1>3. \A m \in IdMap :
         /\ IdsOf(Del(m, op.id)) = IdsOf(m) \ {op.id}
         /\ IdsOf(Put(m, op)) = IdsOf(m) \cup {op.id}
         /\ Has(m, op.id) <=> op.id \in IdsOf(m)
         /\ OneEach(m) => OneEach(Del(m, op.id)) /\ OneEach(Put(m, op))
  BY MapIds
<1>4. CASE op.kind = "push"
  <2>1. /\ e.current = Put(d.current, op) /\ e.undone = d.undone
        /\ e.set_current = d.set_current /\ e.set_undone = d.set_undone
    BY <1>4 DEF SyncStep, SyncData
  <2>. QED BY <1>1, <1>3, <1>4, <2>1 DEF Created, Named, Functional, New
<1>5. CASE op.kind = "undo" /\ Has(d.current, op.id)
  <2>1. /\ e.current = Del(d.current, op.id) /\ e.undone = Put(d.undone, op)
        /\ e.set_current = d.set_current /\ e.set_undone = d.set_undone
    BY <1>5 DEF SyncStep, SyncData
  <2>. QED BY <1>1, <1>3, <1>5, <2>1 DEF Created, Named, Functional, New
<1>6. CASE op.kind = "undo" /\ ~Has(d.current, op.id)
  <2>1. /\ e.current = d.current /\ e.undone = d.undone
        /\ e.set_current = Del(d.set_current, op.id) /\ e.set_undone = Put(d.set_undone, op)
    BY <1>6 DEF SyncStep, SyncData
  <2>. QED BY <1>1, <1>3, <1>6, <2>1 DEF Created, Named, Functional, New
<1>7. CASE op.kind = "redo" /\ Has(d.undone, op.id)
  <2>1. /\ e.undone = Del(d.undone, op.id) /\ e.current = Put(d.current, op)
        /\ e.set_current = d.set_current /\ e.set_undone = d.set_undone
    BY <1>7 DEF SyncStep, SyncData
  <2>. QED BY <1>1, <1>3, <1>7, <2>1 DEF Created, Named, Functional, New
<1>8. CASE op.kind = "redo" /\ ~Has(d.undone, op.id)
  <2>1. /\ e.current = d.current /\ e.undone = d.undone
        /\ e.set_undone = Del(d.set_undone, op.id) /\ e.set_current = Put(d.set_current, op)
    BY <1>8 DEF SyncStep, SyncData
  <2>. QED BY <1>1, <1>3, <1>8, <2>1 DEF Created, Named, Functional, New
<1>. QED BY <1>2, <1>4, <1>5, <1>6, <1>7, <1>8

(* What a flush creates is what was pushed, once, and no statement names   *)
(* an edit that the queue does not.                                        *)
LEMMA SyncDataIds ==
  ASSUME NEW q \in Seq(QueueOp)
  PROVE  /\ Created(get_sync_data(q)) = Pushed(q)
         /\ Named(get_sync_data(q)) \subseteq {q[i].id : i \in DOMAIN q}
         /\ Functional(get_sync_data(q))
         /\ PushedOnce(q)
              => IdsOf(get_sync_data(q).current) \cap IdsOf(get_sync_data(q).undone) = {}
<1>1. PICK f \in [0 .. Len(q) -> SyncData] :
           /\ f[0] = NoSyncData /\ f[Len(q)] = get_sync_data(q)
           /\ \A i \in 1 .. Len(q) : f[i] = SyncStep(f[i - 1], q[i])
  BY SyncStates
<1> DEFINE Upto(n) == {q[i].id : i \in 1 .. n}
           Apart(d) == IdsOf(d.current) \cap IdsOf(d.undone) = {}
           T == {n \in 0 .. Len(q) :
                   /\ Created(f[n]) = PushedTo(q, n)
                   /\ Named(f[n]) \subseteq Upto(n)
                   /\ Functional(f[n])
                   /\ PushedOnce(q) => Apart(f[n])}
<1>2. Len(q) \in Nat /\ DOMAIN q = 1 .. Len(q) OBVIOUS
<1>3. 0 \in T
  <2>1. PushedTo(q, 0) = {} BY DEF PushedTo
  <2>2. Created(f[0]) = {} /\ Named(f[0]) = {} /\ Functional(f[0]) /\ Apart(f[0])
    BY <1>1 DEF NoSyncData, Created, Named, Functional, IdsOf, OneEach
  <2>3. Created(f[0]) = PushedTo(q, 0) /\ Named(f[0]) \subseteq Upto(0) /\ 0 \in 0 .. Len(q)
    BY <1>2, <2>1, <2>2
  <2> HIDE DEF Apart, Upto
  <2>. QED BY <2>2, <2>3
<1>4. ASSUME NEW n \in 1 .. Len(q), n - 1 \in T PROVE n \in T
  <2>1. /\ f[n - 1] \in SyncData /\ q[n] \in QueueOp
        /\ f[n] = SyncStep(f[n - 1], q[n])
    BY <1>1, <1>2, <1>4
  <2>2. /\ Created(f[n]) = Created(f[n - 1]) \cup New(q[n])
        /\ Named(f[n]) \subseteq Named(f[n - 1]) \cup {q[n].id}
        /\ Functional(f[n - 1]) => Functional(f[n])
        /\ Apart(f[n - 1]) /\ New(q[n]) \cap Created(f[n - 1]) = {} => Apart(f[n])
    BY <2>1, SyncStepIds
  <2>3. /\ PushedTo(q, n) = PushedTo(q, n - 1) \cup New(q[n])
        /\ PushedOnce(q) /\ q[n].kind = "push" => q[n].id \notin PushedTo(q, n - 1)
    BY PushedStep
  <2>4. /\ Created(f[n - 1]) = PushedTo(q, n - 1) /\ Named(f[n - 1]) \subseteq Upto(n - 1)
        /\ Functional(f[n - 1]) /\ (PushedOnce(q) => Apart(f[n - 1]))
    BY <1>4
  <2>5. Upto(n) = Upto(n - 1) \cup {q[n].id}
    <3>1. 1 .. n = (1 .. n - 1) \cup {n} BY <1>2
    <3>. QED BY <3>1
  <2>6. PushedOnce(q) => New(q[n]) \cap Created(f[n - 1]) = {} BY <2>3, <2>4 DEF New
  <2> HIDE DEF Apart, Upto
  <2>. QED BY <2>2, <2>3, <2>4, <2>5, <2>6
<1>5. \A n \in 0 .. Len(q) : n \in T
  <2> HIDE DEF T
  <2>. QED BY <1>2, <1>3, <1>4, InductionUpTo
<1>6. Len(q) \in T BY <1>2, <1>5
<1>7. Upto(Len(q)) = {q[i].id : i \in DOMAIN q} BY <1>2
<1> HIDE DEF Upto
<1>. QED BY <1>1, <1>6, <1>7 DEF Pushed

----------------------------------------------------------------------------
(* Rows of edits, and the orders a read can return them in.                *)

RowIds(R) == {r.edit_id : r \in R}
RowsOf(R, e) == {r \in R : r.edit_id = e}
OneRowEach(R) == \A x, y \in R : x.edit_id = y.edit_id => x = y

(* A COPY adds the rows of new edits.                                      *)
LEMMA CreateRows ==
  ASSUME NEW rows \in FiniteRows, NEW c \in Chunk
  PROVE  /\ RowIds(create(rows, c)) = RowIds(rows) \cup IdsOf(c.items)
         /\ \A e : e \notin IdsOf(c.items) => RowsOf(create(rows, c), e) = RowsOf(rows, e)
         /\ OneRowEach(rows) /\ OneEach(c.items) /\ RowIds(rows) \cap IdsOf(c.items) = {}
              => OneRowEach(create(rows, c))
<1> DEFINE row(it) == [edit_id |-> it.id, status |-> c.status, changed_at |-> it.at]
           new == {row(it) : it \in c.items}
<1>0. create(rows, c) = rows \cup new BY DEF create
<1>1. \A it : row(it).edit_id = it.id OBVIOUS
<1>2. \A r \in new : \E it \in c.items : r = row(it) OBVIOUS
<1>3. \A it \in c.items : row(it) \in new OBVIOUS
<1> HIDE DEF row, new
<1>4. RowIds(new) = IdsOf(c.items) BY <1>1, <1>2, <1>3 DEF RowIds, IdsOf
<1>5. RowIds(create(rows, c)) = RowIds(rows) \cup RowIds(new) BY <1>0 DEF RowIds
<1>6. \A e : e \notin IdsOf(c.items) => RowsOf(new, e) = {} BY <1>4 DEF RowIds, RowsOf
<1>7. \A e : RowsOf(create(rows, c), e) = RowsOf(rows, e) \cup RowsOf(new, e) BY <1>0 DEF RowsOf
<1>8. OneEach(c.items) => OneRowEach(new) BY <1>1, <1>2 DEF OneEach, OneRowEach
<1>9. OneRowEach(rows) /\ OneRowEach(new) /\ RowIds(rows) \cap RowIds(new) = {}
        => OneRowEach(rows \cup new)
  BY DEF OneRowEach, RowIds
<1>. QED BY <1>0, <1>4, <1>5, <1>6, <1>7, <1>8, <1>9

(* A status update keeps one row per edit.                                 *)
LEMMA SetRows ==
  ASSUME NEW rows \in FiniteRows, NEW c \in Chunk
  PROVE  /\ RowIds(set_status(rows, c)) = RowIds(rows)
         /\ \A e : e \notin IdsOf(c.items) => RowsOf(set_status(rows, c), e) = RowsOf(rows, e)
         /\ OneRowEach(rows) => OneRowEach(set_status(rows, c))
<1> DEFINE new(r) == IF Has(c.items, r.edit_id)
                     THEN [edit_id |-> r.edit_id, status |-> c.status,
                           changed_at |-> At(c.items, r.edit_id)]
                     ELSE r
<1>0. set_status(rows, c) = {new(r) : r \in rows} BY DEF set_status
<1>1. \A r : new(r).edit_id = r.edit_id OBVIOUS
<1>2. \A r : r.edit_id \notin IdsOf(c.items) => new(r) = r BY DEF Has, IdsOf
<1> HIDE DEF new
<1>3. RowIds(set_status(rows, c)) = RowIds(rows) BY <1>0, <1>1 DEF RowIds
<1>4. ASSUME NEW e, e \notin IdsOf(c.items) PROVE RowsOf(set_status(rows, c), e) = RowsOf(rows, e)
  BY <1>0, <1>1, <1>2, <1>4 DEF RowsOf
<1>5. OneRowEach(rows) => OneRowEach(set_status(rows, c)) BY <1>0, <1>1 DEF OneRowEach
<1>. QED BY <1>3, <1>4, <1>5

(* A delete only removes rows.                                             *)
LEMMA DeleteRows ==
  ASSUME NEW rows, NEW st
  PROVE  /\ RowIds(delete_bulk(rows, st)) \subseteq RowIds(rows)
         /\ OneRowEach(rows) => OneRowEach(delete_bulk(rows, st))
BY DEF delete_bulk, RowIds, OneRowEach

----------------------------------------------------------------------------
(* The order of the rows of a list.                                        *)

(* Finitely many rows have a latest one.                                   *)
LEMMA LatestRow ==
  ASSUME NEW R \in FiniteRows, R # {}
  PROVE  \E x \in R : \A r \in R : r.changed_at <= x.changed_at
<1> DEFINE Late(S) == \E x \in S : \A r \in S : r.changed_at <= x.changed_at
           T == {n \in Nat : \A S \in FiniteRows : Cardinality(S) = n /\ S # {} => Late(S)}
<1>1. IsFiniteSet(R) /\ Cardinality(R) \in Nat BY FS_CardinalityType DEF FiniteRows
<1>2. 0 \in T BY FS_EmptySet DEF FiniteRows
<1>3. ASSUME NEW n \in 1 .. Cardinality(R), n - 1 \in T PROVE n \in T
  <2> SUFFICES ASSUME NEW S \in FiniteRows, Cardinality(S) = n, S # {} PROVE Late(S)
    BY <1>1
  <2>1. PICK a \in S : TRUE OBVIOUS
  <2>2. IsFiniteSet(S) /\ S \in SUBSET Row BY DEF FiniteRows
  <2>3. S \ {a} \in FiniteRows /\ Cardinality(S \ {a}) = n - 1
    BY <2>1, <2>2, FS_RemoveElement DEF FiniteRows
  <2>4. \A r \in S : r.changed_at \in Nat BY <2>2 DEF Row
  <2>5. CASE S \ {a} = {} BY <2>1, <2>4, <2>5
  <2>6. CASE S \ {a} # {}
    <3>1. Late(S \ {a}) BY <1>3, <2>3, <2>6
    <3>2. PICK x \in S \ {a} : \A r \in S \ {a} : r.changed_at <= x.changed_at BY <3>1
    <3>3. CASE a.changed_at <= x.changed_at BY <3>2, <3>3
    <3>4. CASE ~(a.changed_at <= x.changed_at)
      <4>1. \A r \in S : r.changed_at <= a.changed_at BY <2>1, <2>4, <3>2, <3>4
      <4>. QED BY <2>1, <4>1
    <3>. QED BY <3>3, <3>4
  <2>. QED BY <2>5, <2>6
<1>4. \A n \in 0 .. Cardinality(R) : n \in T
  <2> HIDE DEF T
  <2>. QED BY <1>1, <1>2, <1>3, InductionUpTo
<1>5. Cardinality(R) \in T BY <1>1, <1>4
<1>. QED BY <1>5

(* They can be ordered by time.                                            *)
LEMMA OrdersExist ==
  ASSUME NEW R \in FiniteRows
  PROVE  Orders(R) # {}
<1> DEFINE T == {n \in Nat : \A S \in FiniteRows : Cardinality(S) = n => Orders(S) # {}}
<1>1. IsFiniteSet(R) /\ Cardinality(R) \in Nat BY FS_CardinalityType DEF FiniteRows
<1>2. 0 \in T
  <2> SUFFICES ASSUME NEW S \in FiniteRows, Cardinality(S) = 0 PROVE Orders(S) # {}
    OBVIOUS
  <2>1. S = {} BY FS_EmptySet DEF FiniteRows
  <2>2. [i \in 1 .. 0 |-> 0] \in Orders(S) BY <2>1 DEF Orders
  <2>. QED BY <2>2
<1>3. ASSUME NEW n \in 1 .. Cardinality(R), n - 1 \in T PROVE n \in T
  <2> SUFFICES ASSUME NEW S \in FiniteRows, Cardinality(S) = n PROVE Orders(S) # {}
    BY <1>1
  <2>0. IsFiniteSet(S) /\ S \in SUBSET Row /\ n \in Nat /\ n >= 1 BY <1>1 DEF FiniteRows
  <2>1. S # {} BY <2>0, FS_EmptySet
  <2>2. PICK x \in S : \A r \in S : r.changed_at <= x.changed_at BY <2>1, LatestRow
  <2>3. S \ {x} \in FiniteRows /\ Cardinality(S \ {x}) = n - 1
    BY <2>0, <2>2, FS_RemoveElement DEF FiniteRows
  <2>4. PICK s : s \in Orders(S \ {x}) BY <1>3, <2>3
  <2> DEFINE t == [i \in 1 .. n |-> IF i = n THEN x ELSE s[i]]
  <2>5. /\ s \in [1 .. n - 1 -> S \ {x}]
        /\ \A i, j \in 1 .. n - 1 : i < j => s[i] # s[j] /\ s[i].changed_at <= s[j].changed_at
    BY <2>3, <2>4 DEF Orders
  <2>6. \A i \in 1 .. n : i \in 1 .. n - 1 \/ i = n BY <2>0
  <2>7. /\ t \in [1 .. n -> S] /\ t[n] = x /\ DOMAIN t = 1 .. n
        /\ \A i \in 1 .. n - 1 : t[i] = s[i] /\ s[i] \in S \ {x}
    BY <2>0, <2>2, <2>5, <2>6
  <2> HIDE DEF t
  <2>8. ASSUME NEW i \in DOMAIN t, NEW j \in DOMAIN t, i < j
        PROVE  t[i] # t[j] /\ t[i].changed_at <= t[j].changed_at
    <3>1. i \in 1 .. n - 1 BY <2>0, <2>7, <2>8
    <3>2. CASE j = n BY <2>2, <2>7, <3>1, <3>2
    <3>3. CASE j \in 1 .. n - 1 BY <2>5, <2>7, <2>8, <3>1, <3>3
    <3>. QED BY <2>6, <2>7, <3>2, <3>3
  <2>9. t \in Orders(S) BY <2>7, <2>8 DEF Orders
  <2>. QED BY <2>9
<1>4. \A n \in 0 .. Cardinality(R) : n \in T
  <2> HIDE DEF T
  <2>. QED BY <1>1, <1>2, <1>3, InductionUpTo
<1>5. Cardinality(R) \in T BY <1>1, <1>4
<1>. QED BY <1>5

(* An order lists every row once.                                          *)
LEMMA OrdersOnto ==
  ASSUME NEW R \in FiniteRows, NEW s \in Orders(R)
  PROVE  /\ \A i, j \in DOMAIN s : s[i] = s[j] => i = j
         /\ {s[i] : i \in DOMAIN s} = R
<1> DEFINE n == Cardinality(R)
<1>1. IsFiniteSet(R) /\ n \in Nat BY FS_CardinalityType DEF FiniteRows
<1>2. s \in [1 .. n -> R] /\ DOMAIN s = 1 .. n BY DEF Orders
<1>3. \A i, j \in 1 .. n : s[i] = s[j] => i = j
  <2> TAKE i, j \in 1 .. n
  <2>1. i < j => s[i] # s[j] BY <1>2 DEF Orders
  <2>2. j < i => s[j] # s[i] BY <1>2 DEF Orders
  <2>3. i < j \/ j < i \/ i = j BY <1>1
  <2>. QED BY <2>1, <2>2, <2>3
<1>4. s \in Injection(1 .. n, R) BY <1>2, <1>3 DEF Injection, IsInjective
<1>5. IsFiniteSet(1 .. n) /\ Cardinality(1 .. n) = n BY <1>1, FS_Interval
<1> HIDE DEF n
<1>6. s \in Surjection(1 .. n, R) BY <1>1, <1>4, <1>5, FS_Injection DEF n
<1>. QED BY <1>2, <1>3, <1>6 DEF Surjection

----------------------------------------------------------------------------
(* The queue and the cache.                                                *)

LEMMA ChunksType ==
  ASSUME NEW d \in SyncData
  PROVE  CreateChunks(d) \in Seq(Chunk) /\ UpdateChunks(d) \in Seq(Chunk)
<1>1. ASSUME NEW st \in Status, NEW m \in IdMap
      PROVE  Chunks(st, m) \in Seq(Chunk)
  <2>1. [status |-> st, items |-> m] \in Chunk BY DEF Chunk
  <2>2. CASE m = {} BY <2>2 DEF Chunks
  <2>3. CASE m # {} BY <2>1, <2>3 DEF Chunks
  <2>. QED BY <2>2, <2>3
<1>2. "current" \in Status /\ "undone" \in Status BY DEF Status
<1>3. /\ d.current \in IdMap /\ d.undone \in IdMap
      /\ d.set_current \in IdMap /\ d.set_undone \in IdMap
  BY DEF SyncData
<1>. QED BY <1>1, <1>2, <1>3 DEF CreateChunks, UpdateChunks

LEMMA InitInv == ASSUME BoardAssumption PROVE Init => BoardInv
<1> SUFFICES ASSUME Init PROVE BoardInv
  OBVIOUS
<1>1. NoEdits \in EditState /\ [current |-> {}, undone |-> {}] \in View
  BY DEF NoEdits, EditState, View
<1>2. reply \in Answer BY <1>1, PullDataType DEF Init
<1>3. IsFiniteSet(edits) BY FS_EmptySet DEF Init
<1>4. TypeOK
  BY <1>2, <1>3 DEF Init, TypeOK, Pc, Todo, Nothing
<1>5. QueueBounded BY DEF Init, QueueBounded, BoardAssumption
<1>. QED
  BY <1>4, <1>5 DEF Init, BoardInv, CacheCoherent, CacheDroppedFirst, ChannelsQuiet, Stages

(* A flush drains the queue and the cache.                                 *)
LEMMA FlushInv ==
  ASSUME BoardAssumption, BoardInv, NEW then \in Todo,
         then.do \in {"queue", "delete", "stop"}, Flush(then),
         UNCHANGED <<edits, now, reply>>, known' \in SUBSET Edit, revoked' \in SUBSET known'
  PROVE  BoardInv'
<1>1. get_sync_data(queue) \in SyncData BY SyncDataType DEF BoardInv, TypeOK
<1>2. create_edit' \in Seq(Chunk) /\ update_edit' \in Seq(Chunk)
  BY <1>1, ChunksType DEF Flush
<1>3. TypeOK'
  BY <1>2 DEF BoardInv, TypeOK, Flush, Pc
<1>4. QueueBounded' BY DEF Flush, QueueBounded, BoardAssumption
<1>5. CacheCoherent' /\ CacheDroppedFirst' /\ ChannelsQuiet' /\ Stages'
  BY DEF Flush, CacheCoherent, CacheDroppedFirst, ChannelsQuiet, Stages
<1>. QED BY <1>3, <1>4, <1>5 DEF BoardInv

LEMMA EnqueueInv ==
  ASSUME BoardAssumption, BoardInv, NEW kind \in OpKind, NEW id \in Edit, Enqueue(kind, id),
         known' \in SUBSET Edit, revoked' \in SUBSET known'
  PROVE  BoardInv'
<1> DEFINE next == [do |-> "queue", kind |-> kind, id |-> id]
<1>1. CASE Flush(next) /\ UNCHANGED now
  <2>1. next \in Todo BY DEF Todo
  <2>2. next.do \in {"queue", "delete", "stop"} OBVIOUS
  <2> HIDE DEF next
  <2>. QED BY <1>1, <2>1, <2>2, FlushInv DEF Enqueue
<1>2. CASE /\ Len(queue) + 1 <= OPERATION_QUEUE_SIZE
           /\ now' \in {now + d : d \in ClockSteps}
           /\ queue' = Stamped(kind, id, now')
           /\ UNCHANGED <<db_cache, create_edit, update_edit, pc, todo>>
  <2>1. pc = "recv" /\ UNCHANGED <<edits, reply>> BY DEF Enqueue
  <2>2. now' \in Nat
    <3>1. PICK d \in ClockSteps : now' = now + d BY <1>2
    <3>. QED BY <3>1 DEF BoardInv, TypeOK, BoardAssumption
  <2>3. [kind |-> kind, id |-> id, at |-> now'] \in QueueOp BY <2>2 DEF QueueOp
  <2>4. queue' \in Seq(QueueOp) /\ Len(queue') = Len(queue) + 1
    BY <1>2, <2>3 DEF BoardInv, TypeOK, Stamped
  <2>5. TypeOK' BY <1>2, <2>1, <2>2, <2>4 DEF BoardInv, TypeOK
  <2>6. QueueBounded' BY <1>2, <2>4 DEF QueueBounded
  <2>7. CacheCoherent' /\ CacheDroppedFirst' /\ ChannelsQuiet' /\ Stages'
    BY <1>2, <2>1 DEF BoardInv, CacheCoherent, CacheDroppedFirst, ChannelsQuiet, Stages
  <2>. QED BY <2>5, <2>6, <2>7 DEF BoardInv
<1>. QED BY <1>1, <1>2 DEF Enqueue

(* The answer of a pull replayed over a typed state is typed.              *)
LEMMA AnswerType ==
  ASSUME NEW s \in EditState, NEW q \in Seq(QueueOp), NEW v \in View
  PROVE  PullData(Replay(s, q), v) \in Answer
BY ReplayType, PullDataType

LEMMA EditTaskInv ==
  ASSUME BoardAssumption, BoardInv, EditTask
  PROVE  BoardInv'
<1> USE DEF BoardInv
<1>0. edits \in FiniteRows BY DEF TypeOK, FiniteRows
<1>a. \A rows : rows \in FiniteRows => rows \in SUBSET Row /\ IsFiniteSet(rows)
  BY DEF FiniteRows
<1>1. CASE EditTaskCreate
  <2>1. create_edit # <<>> /\ create_edit \in Seq(Chunk) BY <1>1 DEF EditTaskCreate, TypeOK
  <2>2. Head(create_edit) \in Chunk /\ Tail(create_edit) \in Seq(Chunk) BY <2>1
  <2>3. edits' \in FiniteRows BY <1>0, <1>1, <2>2, CreateType DEF EditTaskCreate
  <2>4. pc = "flush" /\ db_cache = NoCache
    BY <2>1 DEF ChannelsQuiet, CacheDroppedFirst
  <2>5. TypeOK' BY <1>1, <1>a, <2>2, <2>3 DEF EditTaskCreate, TypeOK, boardVars, taskVars
  <2>. QED BY <1>1, <2>4, <2>5
       DEF EditTaskCreate, boardVars, taskVars, QueueBounded, CacheCoherent,
           CacheDroppedFirst, ChannelsQuiet, Stages
<1>2. CASE EditTaskUpdate
  <2>1. update_edit # <<>> /\ update_edit \in Seq(Chunk) BY <1>2 DEF EditTaskUpdate, TypeOK
  <2>2. Head(update_edit) \in Chunk /\ Tail(update_edit) \in Seq(Chunk) BY <2>1
  <2>3. edits' \in FiniteRows BY <1>0, <1>2, <2>2, SetStatusType DEF EditTaskUpdate
  <2>4. pc = "flush" /\ db_cache = NoCache
    BY <2>1 DEF ChannelsQuiet, CacheDroppedFirst
  <2>5. TypeOK' BY <1>2, <1>a, <2>2, <2>3 DEF EditTaskUpdate, TypeOK, boardVars, taskVars
  <2>. QED BY <1>2, <2>4, <2>5
       DEF EditTaskUpdate, boardVars, taskVars, QueueBounded, CacheCoherent,
           CacheDroppedFirst, ChannelsQuiet, Stages
<1>3. ASSUME Panic, UNCHANGED <<create_edit, update_edit, now, known, revoked>>, pc # "flush"
      PROVE  BoardInv'
  <2>1. TypeOK' BY <1>3 DEF Panic, TypeOK, Pc, Todo
  <2>2. QueueBounded' BY <1>3 DEF Panic, QueueBounded, BoardAssumption
  <2>. QED BY <1>3, <2>1, <2>2
       DEF Panic, CacheCoherent, CacheDroppedFirst, ChannelsQuiet, Stages
<1>4. CASE EditTaskDelete
  <2>1. CASE DbMayFail /\ Panic BY <1>3, <1>4, <2>1 DEF EditTaskDelete
  <2>2. CASE /\ edits' = delete_bulk(edits, todo.status)
             /\ pc' = "recv" /\ todo' = Nothing /\ UNCHANGED <<boardVars, reply>>
    <3>1. edits' \in FiniteRows BY <1>0, <2>2, DeleteType
    <3>2. pc = "delete" /\ UNCHANGED <<create_edit, update_edit, now, known, revoked>>
      BY <1>4 DEF EditTaskDelete
    <3>3. TypeOK' BY <1>a, <2>2, <3>1, <3>2 DEF TypeOK, boardVars, Pc, Todo
    <3>. QED BY <2>2, <3>2, <3>3
         DEF boardVars, QueueBounded, CacheCoherent, CacheDroppedFirst, ChannelsQuiet, Stages
  <2>. QED BY <1>4, <2>1, <2>2 DEF EditTaskDelete
<1>5. CASE EditTaskRead
  <2>1. CASE DbMayFail /\ Panic BY <1>3, <1>5, <2>1 DEF EditTaskRead
  <2>2. CASE /\ db_cache' \in read(edits)
             /\ reply' = PullData(Replay(db_cache', queue), todo.view)
             /\ pc' = "recv" /\ todo' = Nothing /\ UNCHANGED <<queue, edits>>
    <3>1. pc = "read" /\ UNCHANGED <<create_edit, update_edit, now, known, revoked>>
      BY <1>5 DEF EditTaskRead
    <3>2. db_cache' \in EditState BY <1>0, <2>2, ReadType
    <3>3. todo.view \in View
      <4>1. todo.do = "pull" BY <3>1 DEF Stages
      <4>. QED BY <4>1 DEF TypeOK, Todo, Nothing
    <3>4. reply' \in Answer BY <2>2, <3>2, <3>3, AnswerType DEF TypeOK
    <3>5. TypeOK' BY <2>2, <3>1, <3>2, <3>4 DEF TypeOK, Pc, Todo
    <3>. QED BY <2>2, <3>1, <3>5
         DEF QueueBounded, CacheCoherent, CacheDroppedFirst, ChannelsQuiet, Stages
  <2>. QED BY <1>5, <2>1, <2>2 DEF EditTaskRead
<1>. QED BY <1>1, <1>2, <1>4, <1>5 DEF EditTask

(* The queue entry for the operation that made the queue overflow.         *)
LEMMA FlushDoneInv ==
  ASSUME BoardAssumption, BoardInv, FlushDone
  PROVE  BoardInv'
<1> USE DEF BoardInv
<1>0. /\ pc = "flush" /\ queue = <<>> /\ db_cache = NoCache
      /\ create_edit = <<>> /\ update_edit = <<>>
      /\ UNCHANGED <<db_cache, edits, create_edit, update_edit, known, revoked, reply>>
  BY DEF FlushDone, dbVars, Stages, CacheDroppedFirst
<1>1. CASE /\ todo.do = "queue"
           /\ now' \in {now + d : d \in ClockSteps}
           /\ queue' = Stamped(todo.kind, todo.id, now')
           /\ pc' = "recv" /\ todo' = Nothing
  <2>1. now' \in Nat
    <3>1. PICK d \in ClockSteps : now' = now + d BY <1>1
    <3>. QED BY <3>1 DEF TypeOK, BoardAssumption
  <2>2. todo.kind \in OpKind /\ todo.id \in Edit
    BY <1>1 DEF TypeOK, Todo, Nothing
  <2>3. [kind |-> todo.kind, id |-> todo.id, at |-> now'] \in QueueOp
    BY <2>1, <2>2 DEF QueueOp
  <2>4. queue' \in Seq(QueueOp) /\ Len(queue') = 1
    BY <1>0, <1>1, <2>3 DEF Stamped
  <2>5. TypeOK' BY <1>0, <1>1, <2>1, <2>4 DEF TypeOK, Pc, Todo
  <2>6. QueueBounded' BY <2>4 DEF QueueBounded, BoardAssumption
  <2>. QED BY <1>0, <1>1, <2>5, <2>6
       DEF CacheCoherent, CacheDroppedFirst, ChannelsQuiet, Stages
<1>2. CASE todo.do = "delete" /\ pc' = "delete" /\ UNCHANGED <<queue, now, todo>>
  <2>1. TypeOK' BY <1>0, <1>2 DEF TypeOK, Pc
  <2>. QED BY <1>0, <1>2, <2>1
       DEF QueueBounded, CacheCoherent, CacheDroppedFirst, ChannelsQuiet, Stages
<1>3. CASE todo.do = "stop" /\ pc' = "stopped" /\ todo' = Nothing /\ UNCHANGED <<queue, now>>
  <2>1. TypeOK' BY <1>0, <1>3 DEF TypeOK, Pc, Todo
  <2>. QED BY <1>0, <1>3, <2>1
       DEF QueueBounded, CacheCoherent, CacheDroppedFirst, ChannelsQuiet, Stages
<1>. QED BY <1>1, <1>2, <1>3 DEF FlushDone

LEMMA PullInv ==
  ASSUME BoardAssumption, BoardInv, NEW v \in Views, Pull(v)
  PROVE  BoardInv'
<1> USE DEF BoardInv
<1>0. /\ v \in View /\ pc = "recv"
      /\ UNCHANGED <<queue, db_cache, edits, create_edit, update_edit, now, known, revoked>>
  BY DEF Pull, boardVars, dbVars, BoardAssumption
<1>1. CASE /\ db_cache # NoCache
           /\ reply' = PullData(Replay(db_cache, queue), v)
           /\ UNCHANGED taskVars
  <2>1. db_cache \in EditState /\ queue \in Seq(QueueOp) BY <1>1 DEF TypeOK
  <2>2. reply' \in Answer BY <1>0, <1>1, <2>1, AnswerType
  <2>3. TypeOK' BY <1>0, <1>1, <2>2 DEF TypeOK, taskVars
  <2>. QED BY <1>0, <1>1, <2>3
       DEF taskVars, QueueBounded, CacheCoherent, CacheDroppedFirst, ChannelsQuiet, Stages
<1>2. CASE /\ db_cache = NoCache
           /\ pc' = "read"
           /\ todo' = [do |-> "pull", view |-> v]
           /\ UNCHANGED reply
  <2>1. TypeOK' BY <1>0, <1>2 DEF TypeOK, Pc, Todo
  <2>. QED BY <1>0, <1>2, <2>1
       DEF QueueBounded, CacheCoherent, CacheDroppedFirst, ChannelsQuiet, Stages
<1>. QED BY <1>1, <1>2 DEF Pull

(* Without a room task there is neither a queue nor a cache.               *)
LEMMA ResetInv ==
  ASSUME BoardAssumption, BoardInv, pc' \in {"recv", "stopped"}, todo' = Nothing,
         queue' = <<>>, db_cache' = NoCache, create_edit' = <<>>, update_edit' = <<>>,
         UNCHANGED <<edits, now, known, revoked, reply>>
  PROVE  BoardInv'
<1>1. TypeOK' BY DEF BoardInv, TypeOK, Pc, Todo
<1>2. QueueBounded' BY DEF QueueBounded, BoardAssumption
<1>. QED BY <1>1, <1>2
     DEF BoardInv, CacheCoherent, CacheDroppedFirst, ChannelsQuiet, Stages

(* Every step of the room task and of the edit task keeps BoardInv.        *)
LEMMA NextInv ==
  ASSUME BoardAssumption, BoardInv, [Next]_vars
  PROVE  BoardInv'
<1>0. known \in SUBSET Edit /\ revoked \in SUBSET known BY DEF BoardInv, TypeOK
<1>1. ASSUME NEW e \in Edit, Push(e) PROVE BoardInv'
  BY <1>0, <1>1, EnqueueInv DEF Push, OpKind
<1>2. ASSUME NEW e \in Edit, Undo(e) PROVE BoardInv'
  BY <1>0, <1>2, EnqueueInv DEF Undo, OpKind
<1>3. ASSUME NEW e \in Edit, Redo(e) PROVE BoardInv'
  BY <1>0, <1>3, EnqueueInv DEF Redo, OpKind
<1>4. ASSUME NEW st \in Status, Empty(st) PROVE BoardInv'
  <2> DEFINE then == [do |-> "delete", status |-> st]
  <2>1. then \in Todo /\ then.do = "delete" BY DEF Todo
  <2>2. Flush(then) /\ UNCHANGED <<edits, now, known, revoked, reply>> BY <1>4 DEF Empty
  <2> HIDE DEF then
  <2>. QED BY <1>0, <2>1, <2>2, FlushInv
<1>5. CASE Save
  <2> DEFINE then == [do |-> "stop"]
  <2>1. then \in Todo /\ then.do = "stop" BY DEF Todo
  <2>2. Flush(then) /\ UNCHANGED <<edits, now, known, revoked, reply>> BY <1>5 DEF Save
  <2> HIDE DEF then
  <2>. QED BY <1>0, <2>1, <2>2, FlushInv
<1>6. CASE FlushDone BY <1>6, FlushDoneInv
<1>7. ASSUME NEW v \in Views, Pull(v) PROVE BoardInv' BY <1>7, PullInv
<1>8. CASE TryExpireCache
  <2>1. TypeOK' BY <1>8 DEF TryExpireCache, BoardInv, TypeOK, dbVars, taskVars
  <2>. QED BY <1>8, <2>1
       DEF TryExpireCache, dbVars, taskVars, BoardInv, QueueBounded, CacheCoherent,
           CacheDroppedFirst, ChannelsQuiet, Stages
<1>9. CASE Load
  <2>1. create_edit = <<>> /\ update_edit = <<>>
    BY <1>9 DEF Load, BoardInv, ChannelsQuiet
  <2>. QED BY <1>9, <2>1, ResetInv DEF Load, dbVars
<1>10. CASE Crash BY <1>10, ResetInv DEF Crash
<1>11. CASE EditTask BY <1>11, EditTaskInv
<1>12. CASE UNCHANGED vars
  BY <1>12 DEF vars, BoardInv, TypeOK, QueueBounded, CacheCoherent, CacheDroppedFirst,
               ChannelsQuiet, Stages
<1>. QED BY <1>1, <1>2, <1>3, <1>4, <1>5, <1>6, <1>7, <1>8, <1>9, <1>10, <1>11, <1>12
     DEF Next, Housekeeping

----------------------------------------------------------------------------
(* The room task and the edit task keep their invariant forever.           *)
THEOREM BoardInvariant == Spec => []BoardInv
<1>1. Init => BoardInv BY BoardAssumption, InitInv
<1>2. BoardInv /\ [Next]_vars => BoardInv' BY BoardAssumption, NextInv
<1>. QED BY <1>1, <1>2, PTL DEF Spec

(* Type correctness: among others, every answer to a pull is well formed,  *)
(* whichever handler was waiting for the database when its rows arrived.   *)
THEOREM TypeCorrect == Spec => []TypeOK
<1>1. BoardInv => TypeOK BY DEF BoardInv
<1>. QED BY <1>1, BoardInvariant, PTL

(* Board::push and Board::exec_command never let the operation queue grow  *)
(* beyond OPERATION_QUEUE_SIZE, for every capacity and number of edits.    *)
THEOREM QueueStaysBounded == Spec => []QueueBounded
<1>1. BoardInv => QueueBounded BY DEF BoardInv
<1>. QED BY <1>1, BoardInvariant, PTL

(* Board::pull never answers from stale rows: whenever there is a cache,   *)
(* it is what the database would return now, although statements run in    *)
(* another task, in any order, and may fail.                               *)
THEOREM CacheStaysCoherent == Spec => []CacheCoherent
<1>1. BoardInv => CacheCoherent BY DEF BoardInv
<1>. QED BY <1>1, BoardInvariant, PTL

----------------------------------------------------------------------------
(* What the board shows.                                                   *)

IdsIn(rows, st) == RowIds({r \in rows : r.status = st})

(* The edits a read lists are those of the rows it reads.                  *)
LEMMA OrderIds ==
  ASSUME NEW R \in FiniteRows, NEW s \in Orders(R)
  PROVE  /\ Ids(s) \in Seq(Edit) /\ ToSet(Ids(s)) = RowIds(R)
         /\ OneRowEach(R) => Distinct(Ids(s))
<1>1. /\ \A i, j \in DOMAIN s : s[i] = s[j] => i = j
      /\ {s[i] : i \in DOMAIN s} = R
  BY OrdersOnto
<1>2. DOMAIN Ids(s) = DOMAIN s /\ \A i \in DOMAIN s : Ids(s)[i] = s[i].edit_id
  BY DEF Ids
<1>3. ToSet(Ids(s)) = RowIds(R) BY <1>1, <1>2 DEF ToSet, RowIds
<1>4. ASSUME OneRowEach(R) PROVE Distinct(Ids(s)) BY <1>1, <1>2, <1>4 DEF OneRowEach, Distinct
<1>. QED BY <1>3, <1>4, OrdersType

(* A read lists the rows of each status; there always is one.              *)
LEMMA ReadLists ==
  ASSUME NEW rows \in FiniteRows
  PROVE  /\ read(rows) # {}
         /\ \A s \in read(rows) :
              /\ s \in EditState
              /\ ToSet(s.current) = IdsIn(rows, "current")
              /\ ToSet(s.undone) = IdsIn(rows, "undone")
              /\ Listed(s) = RowIds(rows)
              /\ OneRowEach(rows) => DistinctState(s)
<1> DEFINE Of(st) == {r \in rows : r.status = st}
<1>1. ASSUME NEW st PROVE Of(st) \in FiniteRows
  <2>1. IsFiniteSet(rows) /\ rows \in SUBSET Row BY DEF FiniteRows
  <2>2. Of(st) \in SUBSET rows OBVIOUS
  <2>3. IsFiniteSet(Of(st))
    <3> HIDE DEF Of
    <3>. QED BY <2>1, <2>2, FS_Subset
  <2>. QED BY <2>1, <2>2, <2>3 DEF FiniteRows
<1>2. read(rows) = {[current |-> Ids(c), undone |-> Ids(u)] :
                      c \in Orders(Of("current")), u \in Orders(Of("undone"))}
  BY DEF read
<1>3. RowIds(Of("current")) \cup RowIds(Of("undone")) = RowIds(rows)
  BY DEF FiniteRows, Row, Status, RowIds
<1>4. OneRowEach(rows) => /\ OneRowEach(Of("current")) /\ OneRowEach(Of("undone"))
                          /\ RowIds(Of("current")) \cap RowIds(Of("undone")) = {}
  BY DEF OneRowEach, RowIds
<1>5. IdsIn(rows, "current") = RowIds(Of("current")) /\ IdsIn(rows, "undone") = RowIds(Of("undone"))
  BY DEF IdsIn
<1> HIDE DEF Of
<1>6. read(rows) # {}
  <2>1. PICK c : c \in Orders(Of("current")) BY <1>1, OrdersExist
  <2>2. PICK u : u \in Orders(Of("undone")) BY <1>1, OrdersExist
  <2>3. [current |-> Ids(c), undone |-> Ids(u)] \in read(rows) BY <1>2, <2>1, <2>2
  <2>. QED BY <2>3
<1>7. ASSUME NEW s \in read(rows)
      PROVE  /\ s \in EditState
             /\ ToSet(s.current) = IdsIn(rows, "current")
             /\ ToSet(s.undone) = IdsIn(rows, "undone")
             /\ Listed(s) = RowIds(rows)
             /\ OneRowEach(rows) => DistinctState(s)
  <2>1. PICK c \in Orders(Of("current")), u \in Orders(Of("undone")) :
          s = [current |-> Ids(c), undone |-> Ids(u)]
    BY <1>2
  <2>2. /\ Ids(c) \in Seq(Edit) /\ ToSet(Ids(c)) = RowIds(Of("current"))
        /\ OneRowEach(Of("current")) => Distinct(Ids(c))
    BY <1>1, OrderIds
  <2>3. /\ Ids(u) \in Seq(Edit) /\ ToSet(Ids(u)) = RowIds(Of("undone"))
        /\ OneRowEach(Of("undone")) => Distinct(Ids(u))
    BY <1>1, OrderIds
  <2>4. s.current = Ids(c) /\ s.undone = Ids(u) /\ s \in EditState
    BY <2>1, <2>2, <2>3 DEF EditState
  <2>5. OneRowEach(rows) => DistinctState(s) BY <1>4, <2>2, <2>3, <2>4 DEF DistinctState
  <2>6. Listed(s) = RowIds(rows) BY <1>3, <2>2, <2>3, <2>4 DEF Listed
  <2>. QED BY <1>5, <2>2, <2>3, <2>4, <2>5, <2>6
<1>. QED BY <1>6, <1>7

----------------------------------------------------------------------------
(* The chunks in a channel, at most two.                                   *)

Items(chan, i) == Pending(chan, i).items
ChunkIds(chan) == IdsOf(Items(chan, 1)) \cup IdsOf(Items(chan, 2))

(* What is to be created is new, and created once.                         *)
Separate(rows, ce) ==
  /\ OneRowEach(rows) /\ OneEach(Items(ce, 1)) /\ OneEach(Items(ce, 2))
  /\ IdsOf(Items(ce, 1)) \cap IdsOf(Items(ce, 2)) = {}
  /\ ChunkIds(ce) \cap RowIds(rows) = {}

(* What waits in a channel, or nothing, is a chunk.                        *)
LEMMA PendingType ==
  ASSUME NEW chan \in Seq(Chunk), NEW i \in Nat \ {0}
  PROVE  Pending(chan, i) \in Chunk
<1>1. [status |-> "current", items |-> {}] \in Chunk
  BY FS_EmptySet DEF Chunk, IdMap, Status
<1>2. CASE i <= Len(chan) BY <1>2 DEF Pending
<1>3. CASE ~(i <= Len(chan)) BY <1>1, <1>3 DEF Pending
<1>. QED BY <1>2, <1>3

(* The rows once all chunks are executed.                                  *)
LEMMA SettledRows ==
  ASSUME NEW rows \in FiniteRows, NEW ce \in Seq(Chunk), NEW ue \in Seq(Chunk)
  PROVE  /\ Settled(rows, ce, ue) \in FiniteRows
         /\ RowIds(Settled(rows, ce, ue)) = RowIds(rows) \cup ChunkIds(ce)
         /\ Separate(rows, ce) => OneRowEach(Settled(rows, ce, ue))
         /\ \A e : e \notin ChunkIds(ce) \cup ChunkIds(ue)
                     => RowsOf(Settled(rows, ce, ue), e) = RowsOf(rows, e)
<1> DEFINE c1 == Pending(ce, 1)
           c2 == Pending(ce, 2)
           u1 == Pending(ue, 1)
           u2 == Pending(ue, 2)
           A == create(rows, c1)
           B == create(A, c2)
           C == set_status(B, u1)
           D == set_status(C, u2)
<1>1. c1 \in Chunk /\ c2 \in Chunk /\ u1 \in Chunk /\ u2 \in Chunk BY PendingType
<1>2. Settled(rows, ce, ue) = D BY DEF Settled
<1>3. /\ ChunkIds(ce) = IdsOf(c1.items) \cup IdsOf(c2.items)
      /\ ChunkIds(ue) = IdsOf(u1.items) \cup IdsOf(u2.items)
      /\ Separate(rows, ce) <=>
           /\ OneRowEach(rows) /\ OneEach(c1.items) /\ OneEach(c2.items)
           /\ IdsOf(c1.items) \cap IdsOf(c2.items) = {}
           /\ ChunkIds(ce) \cap RowIds(rows) = {}
  BY DEF ChunkIds, Items, Separate
<1> HIDE DEF c1, c2, u1, u2
<1>4. A \in FiniteRows BY <1>1, CreateType
<1>5. /\ RowIds(A) = RowIds(rows) \cup IdsOf(c1.items)
      /\ \A e : e \notin IdsOf(c1.items) => RowsOf(A, e) = RowsOf(rows, e)
      /\ OneRowEach(rows) /\ OneEach(c1.items) /\ RowIds(rows) \cap IdsOf(c1.items) = {}
           => OneRowEach(A)
  BY <1>1, CreateRows
<1> HIDE DEF A
<1>6. B \in FiniteRows BY <1>1, <1>4, CreateType
<1>7. /\ RowIds(B) = RowIds(A) \cup IdsOf(c2.items)
      /\ \A e : e \notin IdsOf(c2.items) => RowsOf(B, e) = RowsOf(A, e)
      /\ OneRowEach(A) /\ OneEach(c2.items) /\ RowIds(A) \cap IdsOf(c2.items) = {} => OneRowEach(B)
  BY <1>1, <1>4, CreateRows
<1> HIDE DEF B
<1>8. C \in FiniteRows BY <1>1, <1>6, SetStatusType
<1>9. /\ RowIds(C) = RowIds(B) /\ (OneRowEach(B) => OneRowEach(C))
      /\ \A e : e \notin IdsOf(u1.items) => RowsOf(C, e) = RowsOf(B, e)
  BY <1>1, <1>6, SetRows
<1> HIDE DEF C
<1>10. D \in FiniteRows BY <1>1, <1>8, SetStatusType
<1>11. /\ RowIds(D) = RowIds(C) /\ (OneRowEach(C) => OneRowEach(D))
       /\ \A e : e \notin IdsOf(u2.items) => RowsOf(D, e) = RowsOf(C, e)
  BY <1>1, <1>8, SetRows
<1> HIDE DEF D
<1>12. Separate(rows, ce) => OneRowEach(D)
  BY <1>3, <1>5, <1>7, <1>9, <1>11
<1>13. ASSUME NEW e, e \notin ChunkIds(ce) \cup ChunkIds(ue) PROVE RowsOf(D, e) = RowsOf(rows, e)
  BY <1>3, <1>5, <1>7, <1>9, <1>11, <1>13
<1>. QED BY <1>2, <1>3, <1>5, <1>7, <1>9, <1>10, <1>11, <1>12, <1>13

(* What the board shows: the rows, what is to be created and what is       *)
(* queued, each once; and who is named by no chunk and no operation is     *)
(* where the rows have it.                                                 *)
LEMMA ContentsListed ==
  ASSUME NEW rows \in FiniteRows, NEW ce \in Seq(Chunk), NEW ue \in Seq(Chunk),
         NEW q \in Seq(QueueOp)
  PROVE  LET c == Contents(rows, ce, ue, q) IN
         /\ c \in EditState
         /\ Listed(c) = RowIds(rows) \cup ChunkIds(ce) \cup Pushed(q)
         /\ Separate(rows, ce) /\ PushedOnce(q)
            /\ Pushed(q) \cap (RowIds(rows) \cup ChunkIds(ce)) = {}
              => DistinctState(c)
         /\ \A e : e \notin ChunkIds(ce) \cup ChunkIds(ue) \cup {q[i].id : i \in DOMAIN q} =>
              /\ e \in ToSet(c.current) <=> e \in IdsIn(rows, "current")
              /\ e \in ToSet(c.undone) <=> e \in IdsIn(rows, "undone")
<1> DEFINE R == Settled(rows, ce, ue)
           s == CHOOSE x \in read(R) : TRUE
           c == Contents(rows, ce, ue, q)
<1>1. /\ R \in FiniteRows /\ RowIds(R) = RowIds(rows) \cup ChunkIds(ce)
      /\ Separate(rows, ce) => OneRowEach(R)
      /\ \A e : e \notin ChunkIds(ce) \cup ChunkIds(ue) => RowsOf(R, e) = RowsOf(rows, e)
  BY SettledRows
<1>2. c = Replay(s, q) BY DEF Contents
<1> HIDE DEF R, c
<1>3. /\ read(R) # {}
      /\ \A x \in read(R) :
              /\ x \in EditState
              /\ ToSet(x.current) = IdsIn(R, "current")
              /\ ToSet(x.undone) = IdsIn(R, "undone")
              /\ Listed(x) = RowIds(R)
              /\ OneRowEach(R) => DistinctState(x)
  BY <1>1, ReadLists
<1>4. s \in read(R) BY <1>3
<1> HIDE DEF s
<1>5. /\ Listed(c) = Listed(s) \cup Pushed(q)
      /\ \A e : (\A i \in DOMAIN q : e # q[i].id) =>
              /\ e \in ToSet(c.current) <=> e \in ToSet(s.current)
              /\ e \in ToSet(c.undone) <=> e \in ToSet(s.undone)
      /\ DistinctState(s) /\ PushedOnce(q) /\ Pushed(q) \cap Listed(s) = {} => DistinctState(c)
      /\ c \in EditState
  BY <1>2, <1>3, <1>4, ReplayListed, ReplayType
<1>6. ASSUME NEW e, e \notin ChunkIds(ce) \cup ChunkIds(ue) \cup {q[i].id : i \in DOMAIN q}
      PROVE  /\ e \in ToSet(c.current) <=> e \in IdsIn(rows, "current")
             /\ e \in ToSet(c.undone) <=> e \in IdsIn(rows, "undone")
  <2>1. RowsOf(R, e) = RowsOf(rows, e) BY <1>1, <1>6
  <2>2. \A r : r \in R /\ r.edit_id = e <=> r \in rows /\ r.edit_id = e BY <2>1 DEF RowsOf
  <2>3. \A st : e \in IdsIn(R, st) <=> e \in IdsIn(rows, st) BY <2>2 DEF IdsIn, RowIds
  <2>. QED BY <1>3, <1>4, <1>5, <1>6, <2>3
<1>. QED BY <1>1, <1>3, <1>4, <1>5, <1>6 DEF c

(* The edit that the operation being handled will push.                    *)
Pushing(t) == IF t.do = "queue" /\ t.kind = "push" THEN {t.id} ELSE {}

(* Every edit is in one place: a row, a chunk of creations, the queue or   *)
(* the message being handled; and it is known.                             *)
Located(rows, ce, q, t, k) ==
  /\ Separate(rows, ce)
  /\ PushedOnce(q)
  /\ Pushed(q) \cap (RowIds(rows) \cup ChunkIds(ce)) = {}
  /\ Pushing(t) \cap (RowIds(rows) \cup ChunkIds(ce)) = {}
  /\ RowIds(rows) \cup ChunkIds(ce) \cup Pushed(q) \cup Pushing(t) \subseteq k

OnePlace == Located(edits, create_edit, queue, todo, known)

(* At most two chunks wait in each channel, and they name no more edits    *)
(* than the queue holds operations.                                        *)
Small(ce, ue) ==
  /\ Len(ce) <= 2 /\ Len(ue) <= 2
  /\ IsFiniteSet(ChunkIds(ce) \cup ChunkIds(ue))
  /\ Cardinality(ChunkIds(ce) \cup ChunkIds(ue)) <= OPERATION_QUEUE_SIZE

SmallFlush == Small(create_edit, update_edit)

StoppedEmpty == pc = "stopped" => queue = <<>>

Shown == contents = Contents(edits, create_edit, update_edit, queue)

ViewInv == BoardInv /\ OnePlace /\ SmallFlush /\ StoppedEmpty /\ Shown

(* The chunk c sets the edits of the map m to the status st.               *)
Carries(c, st, m) == c.items = m /\ (m # {} => c.status = st)

(* The two chunks sent to a channel, with the maps they carry.             *)
TwoMaps(b, s1, m1, s2, m2) ==
  /\ Len(b) <= 2
  /\ \/ Carries(Pending(b, 1), s1, m1) /\ Carries(Pending(b, 2), s2, m2)
     \/ m1 = {} /\ Carries(Pending(b, 1), s2, m2) /\ Carries(Pending(b, 2), s1, m1)

(* Empty maps send no chunk.                                               *)
LEMMA TwoChunks ==
  ASSUME NEW s1 \in Status, NEW m1 \in IdMap, NEW s2 \in Status, NEW m2 \in IdMap
  PROVE  TwoMaps(Chunks(s1, m1) \o Chunks(s2, m2), s1, m1, s2, m2)
<1> DEFINE x == Chunks(s1, m1)
           y == Chunks(s2, m2)
           b == x \o y
           Fit == \/ Carries(Pending(b, 1), s1, m1) /\ Carries(Pending(b, 2), s2, m2)
                  \/ /\ m1 = {}
                     /\ Carries(Pending(b, 1), s2, m2) /\ Carries(Pending(b, 2), s1, m1)
           c1 == [status |-> s1, items |-> m1]
           c2 == [status |-> s2, items |-> m2]
           none == [status |-> "current", items |-> {}]
<1>1. ASSUME NEW s \in Status, NEW m \in IdMap
      PROVE  /\ Chunks(s, m) \in Seq(Chunk)
             /\ m = {} => Len(Chunks(s, m)) = 0
             /\ m # {} => /\ Len(Chunks(s, m)) = 1
                           /\ Chunks(s, m)[1] = [status |-> s, items |-> m]
  <2>1. [status |-> s, items |-> m] \in Chunk BY DEF Chunk
  <2>2. CASE m = {} BY <2>2 DEF Chunks
  <2>3. CASE m # {} BY <2>1, <2>3 DEF Chunks
  <2>. QED BY <2>2, <2>3
<1>2. /\ x \in Seq(Chunk) /\ y \in Seq(Chunk)
      /\ (m1 = {} => Len(x) = 0) /\ (m1 # {} => Len(x) = 1 /\ x[1] = c1)
      /\ (m2 = {} => Len(y) = 0) /\ (m2 # {} => Len(y) = 1 /\ y[1] = c2)
  BY <1>1
<1> HIDE DEF x, y
<1>3. /\ b \in Seq(Chunk) /\ Len(b) = Len(x) + Len(y)
      /\ \A i \in 1 .. Len(x) + Len(y) : b[i] = IF i <= Len(x) THEN x[i] ELSE y[i - Len(x)]
  BY <1>2, ConcatProperties
<1> HIDE DEF b
<1>4. Len(b) <= 2 BY <1>2, <1>3
<1>5. /\ Pending(b, 1) = IF 1 <= Len(b) THEN b[1] ELSE none
      /\ Pending(b, 2) = IF 2 <= Len(b) THEN b[2] ELSE none
  BY DEF Pending
<1>a. /\ Carries(c1, s1, m1) /\ Carries(c2, s2, m2)
      /\ m1 = {} => Carries(none, s1, m1)
      /\ m2 = {} => Carries(none, s2, m2)
  BY DEF Carries
<1> HIDE DEF c1, c2, none
<1>6. ASSUME m1 = {} /\ m2 = {} PROVE Fit
  <2>1. Len(b) = 0 BY <1>2, <1>3, <1>6
  <2>. QED BY <1>5, <1>6, <1>a, <2>1
<1>7. ASSUME m1 = {} /\ m2 # {} PROVE Fit
  <2>1. Len(x) = 0 /\ Len(b) = 1 BY <1>2, <1>3, <1>7
  <2>2. b[1] = y[1] BY <1>3, <1>2, <1>7, <2>1
  <2>. QED BY <1>2, <1>5, <1>7, <1>a, <2>1, <2>2
<1>8. ASSUME m1 # {} /\ m2 = {} PROVE Fit
  <2>1. Len(x) = 1 /\ Len(b) = 1 BY <1>2, <1>3, <1>8
  <2>2. b[1] = x[1] BY <1>3, <1>2, <1>8, <2>1
  <2>. QED BY <1>2, <1>5, <1>8, <1>a, <2>1, <2>2
<1>9. ASSUME m1 # {} /\ m2 # {} PROVE Fit
  <2>1. Len(x) = 1 /\ Len(y) = 1 /\ Len(b) = 2 BY <1>2, <1>3, <1>9
  <2>2. b[1] = x[1] /\ b[2] = y[1] BY <1>3, <1>2, <1>9, <2>1
  <2>. QED BY <1>2, <1>5, <1>9, <1>a, <2>1, <2>2
<1>. QED BY <1>4, <1>6, <1>7, <1>8, <1>9 DEF b, x, y, TwoMaps

(* The chunks of a flush, and the maps they carry.                         *)
LEMMA FlushMaps ==
  ASSUME NEW d \in SyncData
  PROVE  /\ TwoMaps(CreateChunks(d), "current", d.current, "undone", d.undone)
         /\ TwoMaps(UpdateChunks(d), "current", d.set_current, "undone", d.set_undone)
<1>1. /\ "current" \in Status /\ "undone" \in Status
      /\ d.current \in IdMap /\ d.undone \in IdMap
      /\ d.set_current \in IdMap /\ d.set_undone \in IdMap
  BY DEF Status, SyncData
<1>. QED BY <1>1, TwoChunks DEF CreateChunks, UpdateChunks

(* The edits those chunks name.                                            *)
LEMMA FlushChunks ==
  ASSUME NEW d \in SyncData
  PROVE  /\ Len(CreateChunks(d)) <= 2 /\ Len(UpdateChunks(d)) <= 2
         /\ ChunkIds(CreateChunks(d)) = Created(d)
         /\ ChunkIds(UpdateChunks(d)) = IdsOf(d.set_current) \cup IdsOf(d.set_undone)
         /\ Functional(d)
              => OneEach(Items(CreateChunks(d), 1)) /\ OneEach(Items(CreateChunks(d), 2))
         /\ IdsOf(d.current) \cap IdsOf(d.undone) = {}
              => IdsOf(Items(CreateChunks(d), 1)) \cap IdsOf(Items(CreateChunks(d), 2)) = {}
<1> DEFINE c == CreateChunks(d)
           u == UpdateChunks(d)
<1>1. IdsOf({}) = {} /\ OneEach({}) BY DEF IdsOf, OneEach
<1>3. TwoMaps(c, "current", d.current, "undone", d.undone) BY FlushMaps
<1>4. TwoMaps(u, "current", d.set_current, "undone", d.set_undone) BY FlushMaps
<1> HIDE DEF c, u
<1>5. /\ Len(c) <= 2
      /\ \/ Items(c, 1) = d.current /\ Items(c, 2) = d.undone
         \/ d.current = {} /\ Items(c, 1) = d.undone /\ Items(c, 2) = {}
  BY <1>3 DEF TwoMaps, Carries, Items
<1>6. /\ Len(u) <= 2
      /\ \/ Items(u, 1) = d.set_current /\ Items(u, 2) = d.set_undone
         \/ d.set_current = {} /\ Items(u, 1) = d.set_undone /\ Items(u, 2) = {}
  BY <1>4 DEF TwoMaps, Carries, Items
<1>7. ChunkIds(c) = Created(d) BY <1>1, <1>5 DEF ChunkIds, Created
<1>8. ChunkIds(u) = IdsOf(d.set_current) \cup IdsOf(d.set_undone) BY <1>1, <1>6 DEF ChunkIds
<1>9. Functional(d) => OneEach(Items(c, 1)) /\ OneEach(Items(c, 2)) BY <1>1, <1>5 DEF Functional
<1>10. IdsOf(d.current) \cap IdsOf(d.undone) = {}
          => IdsOf(Items(c, 1)) \cap IdsOf(Items(c, 2)) = {}
  BY <1>1, <1>5
<1>. QED BY <1>5, <1>6, <1>7, <1>8, <1>9, <1>10 DEF c, u

(* A chunk leaves its channel.                                             *)
LEMMA TailChunks ==
  ASSUME NEW chan \in Seq(Chunk), chan # <<>>, Len(chan) <= 2
  PROVE  /\ Head(chan) \in Chunk /\ Tail(chan) \in Seq(Chunk) /\ Len(Tail(chan)) <= 2
         /\ Head(chan).items = Items(chan, 1)
         /\ Items(Tail(chan), 1) = Items(chan, 2) /\ Items(Tail(chan), 2) = {}
         /\ ChunkIds(chan) = IdsOf(Head(chan).items) \cup ChunkIds(Tail(chan))
<1> DEFINE t == Tail(chan)
           h == Head(chan)
<1>1. /\ h = chan[1] /\ h \in Chunk /\ t \in Seq(Chunk) /\ Len(t) = Len(chan) - 1
      /\ \A i \in 1 .. Len(t) : t[i] = chan[i + 1]
  BY HeadTailProperties
<1>2. Len(chan) \in Nat /\ Len(chan) # 0 OBVIOUS
<1> HIDE DEF t, h
<1>3. Len(chan) = 1 \/ Len(chan) = 2
  <2>1. \A n \in Nat : n # 0 /\ n <= 2 => n = 1 \/ n = 2 OBVIOUS
  <2>. QED BY <1>2, <2>1, Zenon
<1>7. /\ Items(chan, 1) = IF 1 <= Len(chan) THEN chan[1].items ELSE {}
      /\ Items(chan, 2) = IF 2 <= Len(chan) THEN chan[2].items ELSE {}
      /\ Items(t, 1) = IF 1 <= Len(t) THEN t[1].items ELSE {}
      /\ Items(t, 2) = IF 2 <= Len(t) THEN t[2].items ELSE {}
  BY DEF Items, Pending
<1>4. Items(chan, 1) = h.items BY <1>1, <1>3, <1>7
<1>5. CASE Len(chan) = 1
  <2>1. Len(t) = 0 /\ ~(2 <= Len(chan)) /\ ~(1 <= Len(t)) /\ ~(2 <= Len(t)) BY <1>1, <1>5
  <2>2. Items(chan, 2) = {} /\ Items(t, 1) = {} /\ Items(t, 2) = {}
    BY <1>5, <1>7, <2>1
  <2>3. Len(t) <= 2 BY <2>1
  <2>4. ChunkIds(chan) = IdsOf(h.items) \cup ChunkIds(t)
    BY <1>4, <2>2 DEF ChunkIds, IdsOf
  <2>. QED BY <1>1, <1>4, <2>2, <2>3, <2>4 DEF t, h
<1>6. CASE Len(chan) = 2
  <2>1. Len(t) = 1 /\ 2 <= Len(chan) /\ 1 <= Len(t) /\ ~(2 <= Len(t)) BY <1>1, <1>6
  <2>2. t[1] = chan[2]
    <3>1. 1 \in 1 .. Len(t) BY <2>1
    <3>2. t[1] = chan[1 + 1] BY <1>1, <3>1, Zenon
    <3>. QED BY <3>2
  <2>3. Items(t, 1) = Items(chan, 2) /\ Items(t, 2) = {}
    BY <1>6, <1>7, <2>1, <2>2
  <2>4. Len(t) <= 2 BY <2>1
  <2>5. ChunkIds(chan) = IdsOf(h.items) \cup ChunkIds(t)
    BY <1>4, <2>3 DEF ChunkIds, IdsOf
  <2>. QED BY <1>1, <1>4, <2>3, <2>4, <2>5 DEF t, h
<1>. QED BY <1>3, <1>5, <1>6

(* A closed channel, an empty queue and no message carry nothing.          *)
LEMMA NoChunks ==
  /\ Items(<<>>, 1) = {} /\ Items(<<>>, 2) = {} /\ ChunkIds(<<>>) = {}
BY DEF Items, Pending, ChunkIds, IdsOf

(* An empty queue and no message push nothing.                             *)
LEMMA NonePushed ==
  /\ Pushed(<<>>) = {} /\ PushedOnce(<<>>) /\ Pushing(Nothing) = {}
BY DEF Pushed, PushedTo, PushedOnce, Pushing, Nothing

(* An operation is queued.                                                 *)
LEMMA StampedPushes ==
  ASSUME NEW q \in Seq(QueueOp), NEW op \in QueueOp
  PROVE  /\ Pushed(Append(q, op)) = Pushed(q) \cup New(op)
         /\ PushedOnce(q) /\ New(op) \cap Pushed(q) = {} => PushedOnce(Append(q, op))
<1> DEFINE t == Append(q, op)
<1>1. /\ DOMAIN q = 1 .. Len(q) /\ DOMAIN t = 1 .. Len(q) + 1
      /\ Len(q) \in Nat /\ Len(t) = Len(q) + 1
      /\ t[Len(q) + 1] = op /\ \A i \in 1 .. Len(q) : t[i] = q[i]
  OBVIOUS
<1> HIDE DEF t
<1>2. \A i \in 1 .. Len(q) + 1 : i \in 1 .. Len(q) \/ i = Len(q) + 1 BY <1>1
<1>3. \A i \in 1 .. Len(q) : i \in 1 .. Len(q) + 1 BY <1>1
<1>4. Len(q) + 1 \in 1 .. Len(q) + 1 BY <1>1
<1>5. Pushed(t) = Pushed(q) \cup New(op)
  BY <1>1, <1>2, <1>3, <1>4 DEF Pushed, PushedTo, New
<1>6. ASSUME PushedOnce(q), New(op) \cap Pushed(q) = {} PROVE PushedOnce(t)
  BY SMTT(20), <1>1, <1>2, <1>6 DEF Pushed, PushedTo, New, PushedOnce
<1>. QED BY <1>5, <1>6 DEF t

(* Every operation names one edit.                                         *)
LEMMA QueueIds ==
  ASSUME NEW q \in Seq(QueueOp)
  PROVE  /\ IsFiniteSet({q[i].id : i \in DOMAIN q})
         /\ Cardinality({q[i].id : i \in DOMAIN q}) <= Len(q)
<1> DEFINE f == [i \in 1 .. Len(q) |-> q[i].id]
           S == {q[i].id : i \in DOMAIN q}
<1>1. Len(q) \in Nat /\ DOMAIN q = 1 .. Len(q) OBVIOUS
<1>2. f \in Surjection(1 .. Len(q), S) BY <1>1 DEF Surjection
<1>3. IsFiniteSet(1 .. Len(q)) /\ Cardinality(1 .. Len(q)) = Len(q)
  <2>1. 1 \in Int /\ Len(q) \in Int BY <1>1
  <2>2. /\ IsFiniteSet(1 .. Len(q))
        /\ Cardinality(1 .. Len(q)) = IF 1 > Len(q) THEN 0 ELSE Len(q) - 1 + 1
    BY <2>1, FS_Interval
  <2>. QED BY <1>1, <2>2
<1> HIDE DEF f, S
<1>. QED BY <1>2, <1>3, FS_Surjection DEF S

(* What only loses edits keeps every edit in one place.                    *)
LEMMA FewerLocated ==
  ASSUME NEW rows, NEW ce, NEW q, NEW t, NEW k, Located(rows, ce, q, t, k),
         NEW rows2, OneRowEach(rows2), RowIds(rows2) \subseteq RowIds(rows),
         NEW ce2 \in {ce, <<>>}, NEW q2 \in {q, <<>>}, NEW t2, Pushing(t2) \subseteq Pushing(t),
         NEW k2, k \subseteq k2
  PROVE  Located(rows2, ce2, q2, t2, k2)
<1>1. /\ Pushed(q2) \subseteq Pushed(q) /\ PushedOnce(q2) BY NonePushed DEF Located
<1>2. ChunkIds(ce2) \subseteq ChunkIds(ce) BY NoChunks
<1>3. /\ OneEach(Items(ce2, 1)) /\ OneEach(Items(ce2, 2))
      /\ IdsOf(Items(ce2, 1)) \cap IdsOf(Items(ce2, 2)) = {}
  <2>1. CASE ce2 = ce BY <2>1 DEF Located, Separate
  <2>2. CASE ce2 = <<>>
    <3>1. OneEach({}) /\ IdsOf({}) = {} BY DEF OneEach, IdsOf
    <3>. QED BY <2>2, <3>1, NoChunks
  <2>. QED BY <2>1, <2>2
<1>4. Separate(rows2, ce2) BY <1>2, <1>3 DEF Located, Separate
<1>5. /\ Pushed(q2) \cap (RowIds(rows2) \cup ChunkIds(ce2)) = {}
      /\ Pushing(t2) \cap (RowIds(rows2) \cup ChunkIds(ce2)) = {}
  BY <1>1, <1>2 DEF Located
<1>6. RowIds(rows2) \cup ChunkIds(ce2) \cup Pushed(q2) \cup Pushing(t2) \subseteq k2
  BY <1>1, <1>2 DEF Located
<1>. QED BY <1>1, <1>4, <1>5, <1>6 DEF Located

(* Idle channels are small.                                                *)
LEMMA SmallNone == Small(<<>>, <<>>)
<1>1. IsFiniteSet({}) /\ Cardinality({}) = 0 BY FS_EmptySet
<1>2. Len(<<>>) <= 2 OBVIOUS
<1>3. ChunkIds(<<>>) \cup ChunkIds(<<>>) = {} BY NoChunks
<1>4. 0 <= OPERATION_QUEUE_SIZE BY BoardAssumption
<1>5. IsFiniteSet(ChunkIds(<<>>) \cup ChunkIds(<<>>)) BY <1>1, <1>3
<1>6. Cardinality(ChunkIds(<<>>) \cup ChunkIds(<<>>)) <= OPERATION_QUEUE_SIZE BY <1>1, <1>3, <1>4
<1>. QED BY <1>2, <1>5, <1>6 DEF Small

(* A smaller pair of channels.                                             *)
LEMMA SmallFewer ==
  ASSUME NEW ce, NEW ue, Small(ce, ue), NEW ce2, NEW ue2, Len(ce2) <= 2, Len(ue2) <= 2,
         ChunkIds(ce2) \subseteq ChunkIds(ce), ChunkIds(ue2) \subseteq ChunkIds(ue)
  PROVE  Small(ce2, ue2)
<1> DEFINE S == ChunkIds(ce) \cup ChunkIds(ue)
           S2 == ChunkIds(ce2) \cup ChunkIds(ue2)
<1>1. S2 \subseteq S /\ IsFiniteSet(S) /\ Cardinality(S) <= OPERATION_QUEUE_SIZE
  BY DEF Small
<1> HIDE DEF S, S2
<1>2. /\ IsFiniteSet(S2) /\ Cardinality(S2) <= Cardinality(S)
      /\ Cardinality(S2) \in Nat /\ Cardinality(S) \in Nat
  BY <1>1, FS_Subset, FS_CardinalityType
<1>3. Cardinality(S2) <= OPERATION_QUEUE_SIZE BY <1>1, <1>2, BoardAssumption
<1>. QED BY <1>2, <1>3 DEF S2, Small

(* A flush moves the pushed edits from the queue to the chunks.            *)
LEMMA FlushPlaces ==
  ASSUME BoardInv, OnePlace, pc = "recv", NEW then \in Todo, Flush(then), edits' = edits,
         known \subseteq known',
         Pushing(then) \cap (RowIds(edits) \cup Pushed(queue)) = {}, Pushing(then) \subseteq known'
  PROVE  OnePlace' /\ SmallFlush' /\ StoppedEmpty'
<1> DEFINE d == get_sync_data(queue)
           S == ChunkIds(create_edit') \cup ChunkIds(update_edit')
           N == {queue[i].id : i \in DOMAIN queue}
<1>1. /\ queue \in Seq(QueueOp) /\ Len(queue) \in Nat /\ Len(queue) <= OPERATION_QUEUE_SIZE
      /\ create_edit = <<>> /\ update_edit = <<>>
  BY DEF BoardInv, TypeOK, QueueBounded, ChannelsQuiet
<1>2. d \in SyncData BY <1>1, SyncDataType
<1>3. /\ create_edit' = CreateChunks(d) /\ update_edit' = UpdateChunks(d)
      /\ queue' = <<>> /\ pc' = "flush" /\ todo' = then
  BY DEF Flush
<1>4. /\ Created(d) = Pushed(queue) /\ Named(d) \subseteq N /\ Functional(d)
      /\ PushedOnce(queue) => IdsOf(d.current) \cap IdsOf(d.undone) = {}
  BY <1>1, SyncDataIds
<1> HIDE DEF d
<1>5. /\ Len(create_edit') <= 2 /\ Len(update_edit') <= 2
      /\ ChunkIds(create_edit') = Created(d)
      /\ ChunkIds(update_edit') = IdsOf(d.set_current) \cup IdsOf(d.set_undone)
      /\ OneEach(Items(create_edit', 1)) /\ OneEach(Items(create_edit', 2))
      /\ IdsOf(d.current) \cap IdsOf(d.undone) = {}
           => IdsOf(Items(create_edit', 1)) \cap IdsOf(Items(create_edit', 2)) = {}
  BY <1>2, <1>3, <1>4, FlushChunks
<1>6. S \subseteq N BY <1>4, <1>5 DEF Named
<1>7. IsFiniteSet(N) /\ Cardinality(N) <= Len(queue) BY <1>1, QueueIds
<1> HIDE DEF S, N
<1>8. /\ IsFiniteSet(S) /\ Cardinality(S) <= Cardinality(N)
      /\ Cardinality(S) \in Nat /\ Cardinality(N) \in Nat
  BY <1>6, <1>7, FS_Subset, FS_CardinalityType
<1>9. Cardinality(S) <= OPERATION_QUEUE_SIZE BY <1>1, <1>7, <1>8, BoardAssumption
<1>10. SmallFlush' BY <1>5, <1>8, <1>9 DEF S, SmallFlush, Small
<1>11. PushedOnce(queue) /\ OneRowEach(edits) /\ Pushed(queue) \cap RowIds(edits) = {}
       /\ RowIds(edits) \cup Pushed(queue) \subseteq known
  BY DEF OnePlace, Located, Separate
<1>12. Separate(edits', create_edit') BY <1>4, <1>5, <1>11 DEF Separate
<1>13. OnePlace'
  BY <1>3, <1>4, <1>5, <1>11, <1>12, NonePushed DEF OnePlace, Located
<1>. QED BY <1>3, <1>10, <1>13 DEF StoppedEmpty

(* A push is queued.                                                       *)
LEMMA AppendPlaces ==
  ASSUME BoardInv, OnePlace, NEW kind \in OpKind, NEW id \in Edit, NEW t \in Nat,
         queue' = Stamped(kind, id, t), edits' = edits, create_edit' = create_edit,
         Pushing(todo') \subseteq Pushing(todo), known \subseteq known', id \in known',
         kind = "push" => id \notin RowIds(edits) \cup ChunkIds(create_edit) \cup Pushed(queue)
  PROVE  OnePlace'
<1> DEFINE op == [kind |-> kind, id |-> id, at |-> t]
<1>1. op \in QueueOp /\ queue \in Seq(QueueOp) BY DEF QueueOp, BoardInv, TypeOK
<1>2. New(op) = IF kind = "push" THEN {id} ELSE {} BY DEF New
<1>3. queue' = Append(queue, op) BY DEF Stamped
<1> HIDE DEF op
<1>4. /\ Pushed(queue') = Pushed(queue) \cup New(op)
      /\ PushedOnce(queue) /\ New(op) \cap Pushed(queue) = {} => PushedOnce(queue')
  BY <1>1, <1>3, StampedPushes
<1>5. New(op) \cap (RowIds(edits) \cup ChunkIds(create_edit) \cup Pushed(queue)) = {}
      /\ New(op) \subseteq known'
  BY <1>2
<1>. QED BY <1>4, <1>5 DEF OnePlace, Located

Places == OnePlace /\ SmallFlush /\ StoppedEmpty

(* The queue and the rows stay, or lose edits.                             *)
LEMMA LosingPlaces ==
  ASSUME Places, OneRowEach(edits'), RowIds(edits') \subseteq RowIds(edits),
         \/ create_edit' = create_edit /\ update_edit' = update_edit
         \/ create_edit' = <<>> /\ update_edit' = <<>>,
         queue' \in {queue, <<>>}, Pushing(todo') \subseteq Pushing(todo),
         known \subseteq known', pc' = "stopped" => queue' = <<>>
  PROVE  Places'
<1>1. create_edit' \in {create_edit, <<>>} OBVIOUS
<1>2. Located(edits, create_edit, queue, todo, known) BY DEF Places, OnePlace
<1>3. Located(edits', create_edit', queue', todo', known') BY <1>1, <1>2, FewerLocated
<1>4. SmallFlush'
  <2>1. CASE create_edit' = create_edit /\ update_edit' = update_edit
    BY <2>1 DEF Places, SmallFlush, Small
  <2>2. CASE create_edit' = <<>> /\ update_edit' = <<>>
    BY <2>2, SmallNone DEF SmallFlush
  <2>. QED BY <2>1, <2>2
<1>. QED BY <1>3, <1>4 DEF Places, OnePlace, StoppedEmpty

(* An operation is queued, at once or after a flush.                       *)
LEMMA EnqueuePlaces ==
  ASSUME BoardInv, Places, NEW kind \in OpKind, NEW id \in Edit, Enqueue(kind, id),
         known \subseteq known', id \in known', kind = "push" => id \notin known
  PROVE  Places'
<1> DEFINE then == [do |-> "queue", kind |-> kind, id |-> id]
<1>0. /\ RowIds(edits) \cup ChunkIds(create_edit) \cup Pushed(queue) \subseteq known
      /\ OnePlace /\ pc = "recv" /\ edits' = edits
  BY DEF Places, OnePlace, Located, Enqueue
<1>1. CASE Flush(then)
  <2>1. then \in Todo BY DEF Todo
  <2>2. Pushing(then) = IF kind = "push" THEN {id} ELSE {} BY DEF Pushing
  <2>3. Pushing(then) \cap (RowIds(edits) \cup Pushed(queue)) = {} /\ Pushing(then) \subseteq known'
    BY <1>0, <2>2
  <2> HIDE DEF then
  <2>. QED BY <1>0, <1>1, <2>1, <2>3, FlushPlaces DEF Places
<1>2. CASE /\ Len(queue) + 1 <= OPERATION_QUEUE_SIZE
           /\ now' \in {now + d : d \in ClockSteps}
           /\ queue' = Stamped(kind, id, now')
           /\ UNCHANGED <<db_cache, create_edit, update_edit, pc, todo>>
  <2>1. now' \in Nat
    <3>1. PICK d \in ClockSteps : now' = now + d BY <1>2
    <3>. QED BY <3>1, BoardAssumption DEF BoardInv, TypeOK
  <2>2. OnePlace'
    BY <1>0, <1>2, <2>1, AppendPlaces
  <2>3. SmallFlush' BY <1>2 DEF Places, SmallFlush, Small
  <2>4. StoppedEmpty' BY <1>0, <1>2 DEF StoppedEmpty
  <2>. QED BY <2>2, <2>3, <2>4 DEF Places
<1>. QED BY <1>1, <1>2 DEF Enqueue

(* A flush ends, and the operation that caused it is queued.               *)
LEMMA FlushDonePlaces ==
  ASSUME BoardInv, Places, FlushDone
  PROVE  Places'
<1>0. /\ pc = "flush" /\ queue = <<>>
      /\ UNCHANGED <<db_cache, edits, create_edit, update_edit, known, revoked, reply>>
      /\ OneRowEach(edits)
  BY DEF FlushDone, dbVars, BoardInv, Stages, Places, OnePlace, Located, Separate
<1>1. CASE /\ todo.do = "queue"
           /\ now' \in {now + d : d \in ClockSteps}
           /\ queue' = Stamped(todo.kind, todo.id, now')
           /\ pc' = "recv" /\ todo' = Nothing
  <2>1. now' \in Nat
    <3>1. PICK d \in ClockSteps : now' = now + d BY <1>1
    <3>. QED BY <3>1, BoardAssumption DEF BoardInv, TypeOK
  <2>2. todo.kind \in OpKind /\ todo.id \in Edit
    BY <1>1 DEF BoardInv, TypeOK, Todo, Nothing
  <2>3. todo.kind = "push" => /\ todo.id \in known
                              /\ todo.id \notin RowIds(edits) \cup ChunkIds(create_edit)
    BY <1>1 DEF Places, OnePlace, Located, Pushing
  <2>4. Pushed(queue) = {} BY <1>0, NonePushed
  <2>5. Located(edits', create_edit', queue', todo', known')
    <3> DEFINE k == todo.kind
               e == todo.id
               op == [kind |-> k, id |-> e, at |-> now']
    <3>1. op \in QueueOp BY <2>1, <2>2 DEF QueueOp
    <3>2. queue' = Append(<<>>, op) BY <1>0, <1>1 DEF Stamped
    <3>3. New(op) = Pushing(todo) BY <1>1 DEF New, Pushing
    <3> HIDE DEF op
    <3>4. Pushed(queue') = New(op) /\ PushedOnce(queue')
      <4>1. <<>> \in Seq(QueueOp) OBVIOUS
      <4>2. /\ Pushed(Append(<<>>, op)) = Pushed(<<>>) \cup New(op)
            /\ PushedOnce(<<>>) /\ New(op) \cap Pushed(<<>>) = {} => PushedOnce(Append(<<>>, op))
        BY <4>1, <3>1, StampedPushes
      <4>. QED BY <3>2, <4>2, NonePushed
    <3>. QED BY <1>0, <1>1, <3>3, <3>4, NonePushed DEF Places, OnePlace, Located
  <2>. QED BY <1>0, <1>1, <2>5 DEF Places, OnePlace, SmallFlush, Small, StoppedEmpty
<1>2. CASE todo.do = "delete" /\ pc' = "delete" /\ UNCHANGED <<queue, now, todo>>
  BY <1>0, <1>2, LosingPlaces
<1>3. CASE todo.do = "stop" /\ pc' = "stopped" /\ todo' = Nothing /\ UNCHANGED <<queue, now>>
  BY <1>0, <1>3, NonePushed, LosingPlaces
<1>. QED BY <1>1, <1>2, <1>3 DEF FlushDone

(* A statement of the edit task succeeds or fails.                         *)
LEMMA EditTaskPlaces ==
  ASSUME BoardInv, Places, EditTask
  PROVE  Places'
<1>0. /\ edits \in FiniteRows /\ OneRowEach(edits)
      /\ create_edit \in Seq(Chunk) /\ update_edit \in Seq(Chunk)
      /\ Len(create_edit) <= 2 /\ Len(update_edit) <= 2 /\ OnePlace
  BY DEF BoardInv, TypeOK, FiniteRows, Places, OnePlace, SmallFlush, Small, Located, Separate
<1>1. CASE EditTaskCreate
  <2> DEFINE h == Head(create_edit)
             t == Tail(create_edit)
  <2>1. create_edit # <<>> /\ create_edit' = t /\ UNCHANGED <<queue, update_edit, pc, todo, known>>
    BY <1>1 DEF EditTaskCreate, boardVars, taskVars
  <2>2. /\ h \in Chunk /\ Len(t) <= 2
        /\ h.items = Items(create_edit, 1)
        /\ Items(t, 1) = Items(create_edit, 2) /\ Items(t, 2) = {}
        /\ ChunkIds(create_edit) = IdsOf(h.items) \cup ChunkIds(t)
    BY <1>0, <2>1, TailChunks
  <2>3. edits' = create(edits, h) \/ edits' = edits BY <1>1 DEF EditTaskCreate
  <2> HIDE DEF h, t
  <2>4. SmallFlush' BY <1>0, <2>1, <2>2, SmallFewer DEF Places, SmallFlush
  <2>5. OneEach({}) /\ IdsOf({}) = {} BY DEF OneEach, IdsOf
  <2>6. Separate(edits, create_edit) BY <1>0 DEF OnePlace, Located
  <2>7. IdsOf(h.items) \cap ChunkIds(t) = {}
    BY <2>2, <2>5, <2>6 DEF Separate, ChunkIds
  <2>8. /\ RowIds(edits') \subseteq RowIds(edits) \cup IdsOf(h.items)
        /\ OneRowEach(edits')
    <3>1. CASE edits' = edits BY <1>0, <3>1
    <3>2. CASE edits' = create(edits, h)
      BY <1>0, <2>2, <2>6, <3>2, CreateRows DEF Separate
    <3>. QED BY <2>3, <3>1, <3>2
  <2>9. Separate(edits', t)
    <3>1. OneEach(Items(t, 1)) /\ OneEach(Items(t, 2)) BY <2>2, <2>5, <2>6 DEF Separate
    <3>2. IdsOf(Items(t, 1)) \cap IdsOf(Items(t, 2)) = {} BY <2>2, <2>5
    <3>3. ChunkIds(t) \cap RowIds(edits') = {} BY <2>2, <2>6, <2>7, <2>8 DEF Separate
    <3>. QED BY <2>8, <3>1, <3>2, <3>3 DEF Separate
  <2>10. RowIds(edits') \cup ChunkIds(t) \subseteq RowIds(edits) \cup ChunkIds(create_edit)
    BY <2>2, <2>8
  <2>11. OnePlace'
    BY <1>0, <2>1, <2>9, <2>10 DEF OnePlace, Located
  <2>. QED BY <2>1, <2>4, <2>11 DEF Places, StoppedEmpty
<1>2. CASE EditTaskUpdate
  <2> DEFINE h == Head(update_edit)
             t == Tail(update_edit)
  <2>1. update_edit # <<>> /\ update_edit' = t /\ UNCHANGED <<queue, create_edit, pc, todo, known>>
    BY <1>2 DEF EditTaskUpdate, boardVars, taskVars
  <2>2. /\ h \in Chunk /\ Len(t) <= 2
        /\ ChunkIds(update_edit) = IdsOf(h.items) \cup ChunkIds(t)
    BY <1>0, <2>1, TailChunks
  <2>3. edits' = set_status(edits, h) \/ edits' = edits BY <1>2 DEF EditTaskUpdate
  <2> HIDE DEF h, t
  <2>4. SmallFlush' BY <1>0, <2>1, <2>2, SmallFewer DEF Places, SmallFlush
  <2>5. RowIds(edits') = RowIds(edits) /\ OneRowEach(edits')
    BY <1>0, <2>2, <2>3, SetRows
  <2>6. Separate(edits', create_edit') BY <1>0, <2>1, <2>5 DEF OnePlace, Located, Separate
  <2>7. OnePlace' BY <1>0, <2>1, <2>5, <2>6 DEF OnePlace, Located
  <2>. QED BY <2>1, <2>4, <2>7 DEF Places, StoppedEmpty
<1>3. CASE EditTaskDelete
  <2>1. UNCHANGED <<create_edit, update_edit, known>> /\ pc = "delete" BY <1>3 DEF EditTaskDelete
  <2>2. CASE Panic
    BY <1>0, <2>1, <2>2, NonePushed, LosingPlaces DEF Panic
  <2>3. CASE /\ edits' = delete_bulk(edits, todo.status)
             /\ pc' = "recv" /\ todo' = Nothing /\ UNCHANGED <<boardVars, reply>>
    <3>1. RowIds(edits') \subseteq RowIds(edits) /\ OneRowEach(edits')
      BY <1>0, <2>3, DeleteRows
    <3>. QED BY <2>1, <2>3, <3>1, NonePushed, LosingPlaces DEF boardVars
  <2>. QED BY <1>3, <2>2, <2>3 DEF EditTaskDelete
<1>4. CASE EditTaskRead
  <2>1. UNCHANGED <<create_edit, update_edit, known>> BY <1>4 DEF EditTaskRead
  <2>2. CASE Panic
    BY <1>0, <2>1, <2>2, NonePushed, LosingPlaces DEF Panic
  <2>3. CASE pc' = "recv" /\ todo' = Nothing /\ UNCHANGED <<queue, edits>>
    BY <1>0, <2>1, <2>3, NonePushed, LosingPlaces
  <2>. QED BY <1>4, <2>2, <2>3 DEF EditTaskRead
<1>. QED BY <1>1, <1>2, <1>3, <1>4 DEF EditTask

(* Every step of the room task and of the edit task keeps edits in place.  *)
LEMMA NextPlaces ==
  ASSUME BoardInv, Places, [Next]_vars
  PROVE  Places'
<1>0. OneRowEach(edits) /\ OnePlace /\ known \subseteq Edit /\ revoked \subseteq known
  BY DEF Places, OnePlace, Located, Separate, BoardInv, TypeOK
<1>1. ASSUME NEW e \in Edit, Push(e) PROVE Places'
  BY <1>1, EnqueuePlaces DEF Push, OpKind
<1>2. ASSUME NEW e \in Edit, Undo(e) PROVE Places'
  BY <1>2, EnqueuePlaces DEF Undo, OpKind
<1>3. ASSUME NEW e \in Edit, Redo(e) PROVE Places'
  BY <1>0, <1>3, EnqueuePlaces DEF Redo, OpKind
<1>4. ASSUME NEW st \in Status, Empty(st) PROVE Places'
  <2> DEFINE then == [do |-> "delete", status |-> st]
  <2>1. then \in Todo /\ Pushing(then) = {} BY DEF Todo, Pushing
  <2>2. pc = "recv" /\ Flush(then) /\ UNCHANGED <<edits, now, known, revoked, reply>>
    BY <1>4 DEF Empty
  <2> HIDE DEF then
  <2>. QED BY <1>0, <2>1, <2>2, FlushPlaces DEF Places
<1>5. CASE Save
  <2> DEFINE then == [do |-> "stop"]
  <2>1. then \in Todo /\ Pushing(then) = {} BY DEF Todo, Pushing
  <2>2. pc = "recv" /\ Flush(then) /\ UNCHANGED <<edits, now, known, revoked, reply>>
    BY <1>5 DEF Save
  <2> HIDE DEF then
  <2>. QED BY <1>0, <2>1, <2>2, FlushPlaces DEF Places
<1>6. CASE FlushDone BY <1>6, FlushDonePlaces
<1>7. ASSUME NEW v \in Views, Pull(v) PROVE Places'
  <2>1. UNCHANGED <<queue, edits, create_edit, update_edit, known>>
    BY <1>7 DEF Pull, boardVars, dbVars
  <2>2. Pushing(todo') \subseteq Pushing(todo) /\ pc' # "stopped"
    BY <1>7 DEF Pull, taskVars, Pushing
  <2>. QED BY <1>0, <2>1, <2>2, LosingPlaces
<1>8. CASE TryExpireCache
  BY <1>0, <1>8, LosingPlaces DEF TryExpireCache, dbVars, taskVars
<1>9. CASE Load BY <1>0, <1>9, NonePushed, LosingPlaces DEF Load, dbVars
<1>10. CASE Crash BY <1>0, <1>10, NonePushed, LosingPlaces DEF Crash
<1>11. CASE EditTask BY <1>11, EditTaskPlaces
<1>12. CASE UNCHANGED vars
  BY <1>12 DEF vars, Places, OnePlace, SmallFlush, Small, StoppedEmpty
<1>. QED BY <1>1, <1>2, <1>3, <1>4, <1>5, <1>6, <1>7, <1>8, <1>9, <1>10, <1>11, <1>12
     DEF Next, Housekeeping

(* The edits that the rows, the chunks and the queue hold.                 *)
Held == RowIds(edits) \cup ChunkIds(create_edit) \cup Pushed(queue)

(* The edits that a chunk or a queued operation names.                     *)
InMotion ==
  ChunkIds(create_edit) \cup ChunkIds(update_edit) \cup {queue[i].id : i \in DOMAIN queue}

(* What the board shows, in terms of rows, chunks and queue.               *)
LEMMA ShownListed ==
  ASSUME BoardInv, Places, Shown
  PROVE  /\ contents \in EditState
         /\ InEither(contents) = Held
         /\ DistinctState(contents)
         /\ \A e : e \notin InMotion =>
              /\ e \in ToSet(contents.current) <=> e \in IdsIn(edits, "current")
              /\ e \in ToSet(contents.undone) <=> e \in IdsIn(edits, "undone")
<1>1. /\ edits \in FiniteRows /\ create_edit \in Seq(Chunk) /\ update_edit \in Seq(Chunk)
      /\ queue \in Seq(QueueOp)
  BY DEF BoardInv, TypeOK, FiniteRows
<1>2. /\ Separate(edits, create_edit) /\ PushedOnce(queue)
      /\ Pushed(queue) \cap (RowIds(edits) \cup ChunkIds(create_edit)) = {}
  BY DEF Places, OnePlace, Located
<1> DEFINE c == Contents(edits, create_edit, update_edit, queue)
<1>3. /\ c \in EditState
      /\ Listed(c) = Held
      /\ DistinctState(c)
      /\ \A e : e \notin InMotion =>
              /\ e \in ToSet(c.current) <=> e \in IdsIn(edits, "current")
              /\ e \in ToSet(c.undone) <=> e \in IdsIn(edits, "undone")
  BY <1>1, <1>2, ContentsListed DEF Held, InMotion
<1>4. contents = c BY DEF Shown
<1> HIDE DEF c
<1>5. InEither(contents) = Listed(c) BY <1>4 DEF InEither, Listed
<1>. QED BY <1>3, <1>4, <1>5

(* A list without repetitions is as long as what it lists.                 *)
LEMMA DistinctLength ==
  ASSUME NEW s \in Seq(Edit), Distinct(s)
  PROVE  Len(s) = Cardinality(ToSet(s))
<1> DEFINE n == Len(s)
           T == ToSet(s)
<1>1. n \in Nat /\ DOMAIN s = 1 .. n /\ s \in [1 .. n -> Edit] OBVIOUS
<1>2. T = {s[i] : i \in 1 .. n} BY <1>1 DEF ToSet
<1>3. \A i, j \in 1 .. n : s[i] = s[j] => i = j BY <1>1 DEF Distinct
<1>a. n \in Nat BY <1>1
<1> HIDE DEF n, T
<1>4. IsFiniteSet(1 .. n) /\ Cardinality(1 .. n) = n
  <2>1. /\ IsFiniteSet(1 .. n)
        /\ Cardinality(1 .. n) = IF 1 > n THEN 0 ELSE n - 1 + 1
    BY <1>a, FS_Interval
  <2>. QED BY <1>a, <2>1
<1>5. s \in [1 .. n -> T] BY <1>1, <1>2
<1>6. s \in Surjection(1 .. n, T) BY <1>2, <1>5 DEF Surjection
<1>7. s \in Injection(1 .. n, T) BY <1>3, <1>5 DEF Injection, IsInjective
<1>8. Cardinality(T) = n BY <1>4, <1>6, <1>7, FS_Surjection
<1>. QED BY <1>8 DEF n, T

(* The invariant is inductive.                                             *)
LEMMA ViewNextInv ==
  ASSUME ViewInv, [ViewNext]_viewVars
  PROVE  ViewInv'
<1>0. BoardInv /\ Places /\ Shown BY DEF ViewInv, Places
<1>1. [Next]_vars BY DEF ViewNext, viewVars
<1>2. BoardInv' BY <1>0, <1>1, BoardAssumption, NextInv
<1>3. Places' BY <1>0, <1>1, NextPlaces
<1>4. Shown'
  <2>1. CASE ViewNext BY <2>1 DEF ViewNext, Observe, Shown
  <2>2. CASE UNCHANGED viewVars BY <1>0, <2>2 DEF viewVars, vars, Shown
  <2>. QED BY <2>1, <2>2
<1>. QED BY <1>2, <1>3, <1>4 DEF ViewInv, Places

(* It holds of a board that was just created.                              *)
LEMMA ViewInitInv == ViewInit => ViewInv
<1> SUFFICES ASSUME ViewInit PROVE ViewInv OBVIOUS
<1>0. Init /\ contents = NoEdits BY DEF ViewInit
<1>1. BoardInv BY <1>0, BoardAssumption, InitInv
<1>2. /\ edits = {} /\ create_edit = <<>> /\ update_edit = <<>> /\ queue = <<>>
      /\ todo = Nothing /\ pc = "recv"
  BY <1>0 DEF Init
<1>3. /\ OneEach({}) /\ OneRowEach({}) /\ RowIds({}) = {} /\ IdsOf({}) = {}
  BY DEF OneEach, OneRowEach, RowIds, IdsOf
<1>4. OnePlace
  <2>1. Separate({}, <<>>) BY <1>3, NoChunks DEF Separate
  <2>. QED BY <1>2, <1>3, <2>1, NoChunks, NonePushed DEF OnePlace, Located
<1>5. SmallFlush BY <1>2, SmallNone DEF SmallFlush
<1>6. StoppedEmpty BY <1>2 DEF StoppedEmpty
<1>7. Shown
  <2> DEFINE c == Contents(edits, create_edit, update_edit, queue)
  <2>1. /\ edits \in FiniteRows /\ create_edit \in Seq(Chunk) /\ update_edit \in Seq(Chunk)
        /\ queue \in Seq(QueueOp)
    BY <1>1 DEF BoardInv, TypeOK, FiniteRows
  <2>2. c \in EditState /\ Listed(c) = RowIds(edits) \cup ChunkIds(create_edit) \cup Pushed(queue)
    BY <2>1, ContentsListed
  <2> HIDE DEF c
  <2>3. Listed(c) = {} BY <1>2, <1>3, <2>2, NoChunks, NonePushed
  <2>4. ToSet(c.current) = {} /\ ToSet(c.undone) = {} BY <2>3 DEF Listed
  <2>5. /\ c.current \in Seq(Edit) /\ c.undone \in Seq(Edit)
        /\ c = [current |-> c.current, undone |-> c.undone]
    BY <2>2 DEF EditState
  <2>6. \A s \in Seq(Edit) : ToSet(s) = {} => s = <<>>
    <3> SUFFICES ASSUME NEW s \in Seq(Edit), ToSet(s) = {} PROVE s = <<>> OBVIOUS
    <3>1. \A i \in 1 .. Len(s) : s[i] \in ToSet(s) BY DEF ToSet
    <3>2. Len(s) \in Nat OBVIOUS
    <3>3. Len(s) = 0
      <4>1. Len(s) # 0 => 1 \in 1 .. Len(s) BY <3>2
      <4>. QED BY <3>1, <3>2, <4>1
    <3>. QED BY <3>3, EmptySeq
  <2>7. c = NoEdits BY <2>4, <2>5, <2>6 DEF NoEdits
  <2>. QED BY <1>0, <2>7 DEF Shown, c
<1>. QED BY <1>1, <1>4, <1>5, <1>6, <1>7 DEF ViewInv

(* The invariant holds forever: wherever the room task and the edit task   *)
(* are, every edit is a row, in a chunk, in the queue or at hand, once.    *)
THEOREM ViewInvariant == ViewSpec => []ViewInv
<1>1. ViewInit => ViewInv BY ViewInitInv
<1>2. ViewInv /\ [ViewNext]_viewVars => ViewInv' BY ViewNextInv
<1>. QED BY <1>1, <1>2, PTL DEF ViewSpec

(* No flush, save, reload, failing statement or kill makes two rows of one *)
(* edit: what sync_with_queue creates was never created before.            *)
THEOREM NoDuplicatesHolds == ViewSpec => []NoDuplicates
<1>1. ViewInv => NoDuplicates
  <2> SUFFICES ASSUME ViewInv PROVE NoDuplicates OBVIOUS
  <2>1. BoardInv /\ Places /\ Shown BY DEF ViewInv, Places
  <2>2. contents \in EditState /\ DistinctState(contents) BY <2>1, ShownListed
  <2>3. contents.current \in Seq(Edit) /\ contents.undone \in Seq(Edit) BY <2>2 DEF EditState
  <2>4. /\ Distinct(contents.current) /\ Distinct(contents.undone)
        /\ ToSet(contents.current) \cap ToSet(contents.undone) = {}
    BY <2>2 DEF DistinctState
  <2>. QED BY <2>3, <2>4, DistinctLength DEF NoDuplicates
<1>. QED BY <1>1, ViewInvariant, PTL

(* A flush neither adds nor drops an edit.                                 *)
LEMMA FlushHolds ==
  ASSUME BoardInv, pc = "recv", NEW then, Flush(then), edits' = edits
  PROVE  Held' = Held
<1> DEFINE d == get_sync_data(queue)
<1>1. /\ queue \in Seq(QueueOp) /\ create_edit = <<>>
  BY DEF BoardInv, TypeOK, ChannelsQuiet
<1>2. d \in SyncData BY <1>1, SyncDataType
<1>3. create_edit' = CreateChunks(d) /\ queue' = <<>> BY DEF Flush
<1>4. Created(d) = Pushed(queue) BY <1>1, SyncDataIds
<1> HIDE DEF d
<1>5. ChunkIds(create_edit') = Created(d) BY <1>2, <1>3, FlushChunks
<1>. QED BY <1>1, <1>3, <1>4, <1>5, NoChunks, NonePushed DEF Held

(* Queueing an operation drops no edit.                                    *)
LEMMA EnqueueHolds ==
  ASSUME BoardInv, NEW kind \in OpKind, NEW id \in Edit, Enqueue(kind, id)
  PROVE  Held \subseteq Held'
<1> DEFINE then == [do |-> "queue", kind |-> kind, id |-> id]
<1>0. pc = "recv" /\ edits' = edits BY DEF Enqueue
<1>1. CASE Flush(then)
  <2> HIDE DEF then
  <2>. QED BY <1>0, <1>1, FlushHolds
<1>2. CASE /\ now' \in {now + d : d \in ClockSteps}
           /\ queue' = Stamped(kind, id, now')
           /\ UNCHANGED <<db_cache, create_edit, update_edit, pc, todo>>
  <2>1. now' \in Nat
    <3>1. PICK d \in ClockSteps : now' = now + d BY <1>2
    <3>. QED BY <3>1, BoardAssumption DEF BoardInv, TypeOK
  <2>2. [kind |-> kind, id |-> id, at |-> now'] \in QueueOp /\ queue \in Seq(QueueOp)
    BY <2>1 DEF QueueOp, BoardInv, TypeOK
  <2>3. Pushed(queue) \subseteq Pushed(queue') BY <1>2, <2>2, StampedPushes DEF Stamped
  <2>. QED BY <1>0, <1>2, <2>3 DEF Held
<1>. QED BY <1>1, <1>2 DEF Enqueue

(* No step but a delete and a fault takes an edit away.                    *)
LEMMA NextHolds ==
  ASSUME BoardInv, Places, [Next]_vars, ~EditTaskDelete, ~Faulty
  PROVE  Held \subseteq Held'
<1>0. /\ edits \in FiniteRows /\ create_edit \in Seq(Chunk) /\ update_edit \in Seq(Chunk)
      /\ Len(create_edit) <= 2 /\ Len(update_edit) <= 2
  BY DEF BoardInv, TypeOK, FiniteRows, Places, SmallFlush, Small
<1>1. ASSUME NEW e \in Edit, Push(e) PROVE Held \subseteq Held'
  BY <1>1, EnqueueHolds DEF Push, OpKind
<1>2. ASSUME NEW e \in Edit, Undo(e) PROVE Held \subseteq Held'
  BY <1>2, EnqueueHolds DEF Undo, OpKind
<1>3. ASSUME NEW e \in Edit, Redo(e) PROVE Held \subseteq Held'
  BY <1>3, EnqueueHolds DEF Redo, OpKind
<1>4. ASSUME NEW st \in Status, Empty(st) PROVE Held \subseteq Held'
  <2> DEFINE then == [do |-> "delete", status |-> st]
  <2>1. pc = "recv" /\ Flush(then) /\ edits' = edits BY <1>4 DEF Empty
  <2> HIDE DEF then
  <2>. QED BY <2>1, FlushHolds
<1>5. CASE Save
  <2> DEFINE then == [do |-> "stop"]
  <2>1. pc = "recv" /\ Flush(then) /\ edits' = edits BY <1>5 DEF Save
  <2> HIDE DEF then
  <2>. QED BY <2>1, FlushHolds
<1>6. CASE FlushDone
  <2>1. queue = <<>> /\ edits' = edits /\ create_edit' = create_edit
    BY <1>6 DEF FlushDone, BoardInv, Stages, dbVars
  <2>. QED BY <2>1, NonePushed DEF Held
<1>7. ASSUME NEW v \in Views, Pull(v) PROVE Held \subseteq Held'
  BY <1>7 DEF Pull, boardVars, dbVars, Held
<1>8. CASE TryExpireCache BY <1>8 DEF TryExpireCache, dbVars, Held
<1>9. CASE Load BY <1>9 DEF Load, Places, StoppedEmpty, dbVars, Held
<1>10. CASE EditTaskCreate
  <2> DEFINE h == Head(create_edit)
             t == Tail(create_edit)
  <2>1. /\ create_edit # <<>> /\ create_edit' = t /\ queue' = queue /\ edits' = create(edits, h)
    BY <1>10 DEF EditTaskCreate, Faulty, boardVars
  <2>2. h \in Chunk /\ ChunkIds(create_edit) = IdsOf(h.items) \cup ChunkIds(t)
    BY <1>0, <2>1, TailChunks
  <2> HIDE DEF h, t
  <2>3. RowIds(edits') = RowIds(edits) \cup IdsOf(h.items) BY <1>0, <2>1, <2>2, CreateRows
  <2>. QED BY <2>1, <2>2, <2>3 DEF Held
<1>11. CASE EditTaskUpdate
  <2> DEFINE h == Head(update_edit)
  <2>1. /\ update_edit # <<>> /\ UNCHANGED <<queue, create_edit>>
        /\ edits' = set_status(edits, h) \/ edits' = edits
    BY <1>11 DEF EditTaskUpdate, boardVars
  <2>2. h \in Chunk BY <1>0, <2>1, TailChunks
  <2> HIDE DEF h
  <2>3. RowIds(edits') = RowIds(edits) BY <1>0, <2>1, <2>2, SetRows
  <2>. QED BY <2>1, <2>3 DEF Held
<1>12. CASE EditTaskRead BY <1>12 DEF EditTaskRead, Panic, Faulty, Held
<1>13. CASE UNCHANGED vars BY <1>13 DEF vars, Held
<1>. QED BY <1>1, <1>2, <1>3, <1>4, <1>5, <1>6, <1>7, <1>8, <1>9, <1>10, <1>11, <1>12, <1>13
     DEF Next, Housekeeping, EditTask, Faulty

(* What is shown are the edits held; those not in motion as the rows say.  *)
ShownWell ==
  /\ InEither(contents) = Held
  /\ \A e : e \notin InMotion =>
       /\ e \in ToSet(contents.current) <=> e \in IdsIn(edits, "current")
       /\ e \in ToSet(contents.undone) <=> e \in IdsIn(edits, "undone")

(* It does so forever.                                                     *)
LEMMA ShownWellHolds == ViewSpec => []ShownWell
<1>1. ViewInv => ShownWell
  BY ShownListed DEF ViewInv, Places, ShownWell
<1>. QED BY <1>1, ViewInvariant, PTL

(* A push accepted by Board::push stays on the board, in one list or the   *)
(* other, through every flush, save and reload, whoever sends whatever     *)
(* commands, until a list is emptied, the statement that carries it fails  *)
(* or its task dies.                                                       *)
THEOREM NothingStaysLost == ViewSpec => NothingLost
<1>1. ViewInv /\ ShownWell /\ ShownWell' /\ [ViewNext]_viewVars
        => [InEither(contents) \subseteq InEither(contents') \/ EditTaskDelete \/ Faulty]_viewVars
  <2> SUFFICES ASSUME ViewInv, ShownWell, ShownWell', [ViewNext]_viewVars, ~EditTaskDelete, ~Faulty
               PROVE  InEither(contents) \subseteq InEither(contents')
    OBVIOUS
  <2>1. BoardInv /\ Places /\ Shown /\ [Next]_vars BY DEF ViewInv, Places, ViewNext, viewVars
  <2>2. InEither(contents) = Held /\ InEither(contents') = Held' BY DEF ShownWell, InEither
  <2>. QED BY <2>1, <2>2, NextHolds
<1>. QED BY <1>1, ViewInvariant, ShownWellHolds, PTL DEF ViewSpec, NothingLost

(* At most OPERATION_QUEUE_SIZE edits are in motion: those of the chunks   *)
(* or those of the queue.                                                  *)
LEMMA MotionBounded ==
  ASSUME BoardInv, Places
  PROVE  IsFiniteSet(InMotion) /\ Cardinality(InMotion) <= OPERATION_QUEUE_SIZE
<1> DEFINE N == {queue[i].id : i \in DOMAIN queue}
           C == ChunkIds(create_edit) \cup ChunkIds(update_edit)
<1>1. queue \in Seq(QueueOp) /\ Len(queue) \in Nat /\ Len(queue) <= OPERATION_QUEUE_SIZE
  BY DEF BoardInv, TypeOK, QueueBounded
<1>2. CASE pc = "flush"
  <2>1. queue = <<>> BY <1>2 DEF BoardInv, Stages
  <2>2. N = {} BY <2>1
  <2>3. IsFiniteSet(C) /\ Cardinality(C) <= OPERATION_QUEUE_SIZE
    BY DEF Places, SmallFlush, Small
  <2> HIDE DEF C, N
  <2>4. C \cup N = C BY <2>2
  <2>. QED BY <2>3, <2>4 DEF C, N, InMotion
<1>3. CASE pc # "flush"
  <2>1. create_edit = <<>> /\ update_edit = <<>> BY <1>3 DEF BoardInv, ChannelsQuiet
  <2>2. C = {} BY <2>1, NoChunks
  <2>3. IsFiniteSet(N) /\ Cardinality(N) <= Len(queue) BY <1>1, QueueIds
  <2>4. Cardinality(N) \in Nat BY <2>3, FS_CardinalityType
  <2> HIDE DEF C, N
  <2>5. Cardinality(N) <= OPERATION_QUEUE_SIZE BY <1>1, <2>3, <2>4, BoardAssumption
  <2>6. C \cup N = N BY <2>2
  <2>. QED BY <2>3, <2>5, <2>6 DEF C, N, InMotion
<1>. QED BY <1>2, <1>3

(* A kill at any moment, between any two statements of a flush, moves at   *)
(* most OPERATION_QUEUE_SIZE edits.                                        *)
THEOREM LossStaysBounded == ViewSpec => LossBounded
<1> DEFINE Moved == {e \in Edit : Place(contents, e) # Place(contents', e)}
<1>1. ViewInv /\ ShownWell /\ ShownWell' /\ [ViewNext]_viewVars
        => [Crash => Cardinality(Moved) <= OPERATION_QUEUE_SIZE]_viewVars
  <2> SUFFICES ASSUME ViewInv, ShownWell, ShownWell', Crash
               PROVE  Cardinality(Moved) <= OPERATION_QUEUE_SIZE
    OBVIOUS
  <2>1. BoardInv /\ Places BY DEF ViewInv, Places
  <2>2. IsFiniteSet(InMotion) /\ Cardinality(InMotion) <= OPERATION_QUEUE_SIZE
    BY <2>1, MotionBounded
  <2>3. edits' = edits /\ create_edit' = <<>> /\ update_edit' = <<>> /\ queue' = <<>> BY DEF Crash
  <2>4. InMotion' = {} BY <2>3, NoChunks DEF InMotion
  <2>5. \A e : e \notin InMotion =>
          /\ e \in ToSet(contents.current) <=> e \in ToSet(contents'.current)
          /\ e \in ToSet(contents.undone) <=> e \in ToSet(contents'.undone)
    BY <2>3, <2>4 DEF ShownWell, IdsIn
  <2>6. \A e : e \notin InMotion => Place(contents, e) = Place(contents', e)
    BY <2>5 DEF Place
  <2>7. Moved \subseteq InMotion BY <2>6
  <2> HIDE DEF Moved
  <2>8. /\ IsFiniteSet(Moved) /\ Cardinality(Moved) <= Cardinality(InMotion)
        /\ Cardinality(Moved) \in Nat /\ Cardinality(InMotion) \in Nat
    BY <2>2, <2>7, FS_Subset, FS_CardinalityType
  <2>. QED BY <2>2, <2>8, BoardAssumption
<1>. QED BY <1>1, ViewInvariant, ShownWellHolds, PTL DEF ViewSpec, LossBounded

----------------------------------------------------------------------------
(* Rows of different ages and the lists they show.                         *)

(* The lists of a read: older rows come before younger ones, strictly or   *)
(* not.                                                                    *)
Before(R, d, e) ==
  \A x, y \in R : x.edit_id = d /\ y.edit_id = e => x.changed_at < y.changed_at
NotAfter(R, d, e) ==
  \A x, y \in R : x.edit_id = d /\ y.edit_id = e => x.changed_at <= y.changed_at
InOrder(s, R) == \A i, j \in DOMAIN s : i < j => Before(R, s[i], s[j])
InWeakOrder(s, R) == \A i, j \in DOMAIN s : i < j => NotAfter(R, s[i], s[j])

(* The rows R show the lists s, and could show no others.                  *)
Shows(R, s) ==
  /\ s \in EditState /\ DistinctState(s) /\ OneRowEach(R)
  /\ ToSet(s.current) = IdsIn(R, "current") /\ ToSet(s.undone) = IdsIn(R, "undone")
  /\ InOrder(s.current, R) /\ InOrder(s.undone, R)

(* Two orders of one list, one of them strict, are equal.                  *)
LEMMA OneOrder ==
  ASSUME NEW R \in FiniteRows, NEW s \in Seq(Edit), NEW t \in Seq(Edit),
         Distinct(s), Distinct(t), ToSet(s) = ToSet(t), ToSet(s) \subseteq RowIds(R),
         InOrder(s, R), InWeakOrder(t, R)
  PROVE  s = t
<1> DEFINE B == {i \in 1 .. Len(s) : s[i] # t[i]}
<1>1. Len(s) = Len(t) /\ Len(s) \in Nat /\ DOMAIN s = 1 .. Len(s) /\ DOMAIN t = 1 .. Len(s)
  <2>1. Len(s) = Len(t) BY DistinctLength
  <2>. QED BY <2>1
<1>2. ASSUME B # {} PROVE FALSE
  <2>1. B \in SUBSET Nat OBVIOUS
  <2>2. PICK m \in B : \A n \in B : m <= n
    <3> HIDE DEF B
    <3>. QED BY <1>2, <2>1, LeastNumber
  <2>3. m \in 1 .. Len(s) /\ s[m] # t[m] OBVIOUS
  <2>4. \A i \in 1 .. Len(s) : i < m => s[i] = t[i]
    <3> TAKE i \in 1 .. Len(s)
    <3>1. i \in B => m <= i BY <2>2
    <3>. QED BY <1>1, <2>3, <3>1
  <2> HIDE DEF B
  <2>5. s[m] \in ToSet(t) /\ t[m] \in ToSet(s) BY <1>1, <2>3 DEF ToSet
  <2>6. PICK j \in 1 .. Len(s) : t[j] = s[m] BY <1>1, <2>5 DEF ToSet
  <2>7. PICK k \in 1 .. Len(s) : s[k] = t[m] BY <1>1, <2>5 DEF ToSet
  <2>8. m < j
    <3>1. j < m => s[j] = s[m] BY <2>4, <2>6
    <3>2. ~(j < m) BY <1>1, <2>3, <3>1 DEF Distinct
    <3>3. j # m BY <2>3, <2>6
    <3>. QED BY <1>1, <2>3, <3>2, <3>3
  <2>9. m < k
    <3>1. k < m => t[k] = t[m] BY <2>4, <2>7
    <3>2. ~(k < m) BY <1>1, <2>3, <3>1 DEF Distinct
    <3>3. k # m BY <2>3, <2>7
    <3>. QED BY <1>1, <2>3, <3>2, <3>3
  <2>10. PICK x \in R : x.edit_id = s[m] BY <1>1, <2>3 DEF RowIds, ToSet
  <2>11. PICK y \in R : y.edit_id = t[m] BY <1>1, <2>5 DEF RowIds
  <2>12. Before(R, s[m], s[k]) BY <1>1, <2>3, <2>9 DEF InOrder
  <2>13. NotAfter(R, t[m], t[j]) BY <1>1, <2>3, <2>8 DEF InWeakOrder
  <2>14. x.changed_at < y.changed_at BY <2>7, <2>10, <2>11, <2>12 DEF Before
  <2>15. y.changed_at <= x.changed_at BY <2>6, <2>10, <2>11, <2>13 DEF NotAfter
  <2>16. x.changed_at \in Nat /\ y.changed_at \in Nat BY DEF FiniteRows, Row
  <2>. QED BY <2>14, <2>15, <2>16
<1>3. s \in [1 .. Len(s) -> Edit] /\ t \in [1 .. Len(s) -> Edit] BY <1>1
<1>. QED BY <1>1, <1>2, <1>3

(* A read lists older rows first.                                          *)
LEMMA ReadInOrder ==
  ASSUME NEW R \in FiniteRows, OneRowEach(R), NEW s \in read(R)
  PROVE  InWeakOrder(s.current, R) /\ InWeakOrder(s.undone, R)
<1> DEFINE Of(st) == {r \in R : r.status = st}
<1>1. PICK c \in Orders(Of("current")), u \in Orders(Of("undone")) :
        s = [current |-> Ids(c), undone |-> Ids(u)]
  BY DEF read
<1>2. ASSUME NEW st, NEW o \in Orders(Of(st)) PROVE InWeakOrder(Ids(o), R)
  <2> SUFFICES ASSUME NEW i \in DOMAIN Ids(o), NEW j \in DOMAIN Ids(o), i < j,
                      NEW x \in R, NEW y \in R, x.edit_id = Ids(o)[i], y.edit_id = Ids(o)[j]
               PROVE  x.changed_at <= y.changed_at
    BY DEF InWeakOrder, NotAfter
  <2>1. i \in DOMAIN o /\ j \in DOMAIN o /\ x.edit_id = o[i].edit_id /\ y.edit_id = o[j].edit_id
    BY DEF Ids
  <2>2. o[i] \in R /\ o[j] \in R /\ o[i].changed_at <= o[j].changed_at BY <2>1 DEF Orders
  <2>3. x = o[i] /\ y = o[j] BY <2>1, <2>2 DEF OneRowEach
  <2>. QED BY <2>2, <2>3
<1>. QED BY <1>1, <1>2

(* What rows show is their only read.                                      *)
LEMMA OnlyRead ==
  ASSUME NEW R \in FiniteRows, NEW s, Shows(R, s), NEW t \in read(R)
  PROVE  t = s
<1>1. /\ t \in EditState
      /\ ToSet(t.current) = IdsIn(R, "current") /\ ToSet(t.undone) = IdsIn(R, "undone")
      /\ DistinctState(t) /\ InWeakOrder(t.current, R) /\ InWeakOrder(t.undone, R)
  BY ReadLists, ReadInOrder DEF Shows
<1>2. s \in EditState /\ DistinctState(s) /\ InOrder(s.current, R) /\ InOrder(s.undone, R)
      /\ ToSet(s.current) = ToSet(t.current) /\ ToSet(s.undone) = ToSet(t.undone)
  BY <1>1 DEF Shows
<1>3. ToSet(t.current) \subseteq RowIds(R) /\ ToSet(t.undone) \subseteq RowIds(R)
  BY <1>1 DEF IdsIn, RowIds
<1>4. s.current = t.current BY <1>1, <1>2, <1>3, OneOrder DEF EditState, DistinctState
<1>5. s.undone = t.undone BY <1>1, <1>2, <1>3, OneOrder DEF EditState, DistinctState
<1>. QED BY <1>1, <1>2, <1>4, <1>5 DEF EditState

----------------------------------------------------------------------------
(* An operation on the rows.                                               *)

(* The row of an edit after an operation on it.                            *)
RowAfter(op) ==
  [edit_id |-> op.id, changed_at |-> op.at,
   status |-> IF op.kind = "undo" THEN "undone" ELSE "current"]
RowStep(R, op) == {r \in R : r.edit_id # op.id} \cup {RowAfter(op)}

(* An operation that has an effect on the lists s.                         *)
Effective(s, op) ==
  /\ op.kind = "push" => op.id \notin Listed(s)
  /\ op.kind = "undo" => op.id \in ToSet(s.current)
  /\ op.kind = "redo" => op.id \in ToSet(s.undone)

(* The rows, the ids in each list, one row per edit after an operation.    *)
LEMMA RowStepRows ==
  ASSUME NEW R \in FiniteRows, NEW op \in QueueOp
  PROVE  /\ RowStep(R, op) \in FiniteRows
         /\ RowIds(RowStep(R, op)) = RowIds(R) \cup {op.id}
         /\ OneRowEach(R) => OneRowEach(RowStep(R, op))
         /\ \A st : IdsIn(RowStep(R, op), st)
                      = (IdsIn(R, st) \ {op.id})
                          \cup (IF RowAfter(op).status = st THEN {op.id} ELSE {})
<1> DEFINE x == RowAfter(op)
           K == {r \in R : r.edit_id # op.id}
           R2 == RowStep(R, op)
<1>1. x \in Row /\ x.edit_id = op.id BY DEF RowAfter, Row, QueueOp, Status
<1>2. IsFiniteSet(R) /\ R \in SUBSET Row BY DEF FiniteRows
<1>3. R2 = K \cup {x} BY DEF RowStep
<1> HIDE DEF x, R2
<1>4. IsFiniteSet(K) /\ K \in SUBSET Row
  <2>1. K \in SUBSET R OBVIOUS
  <2> HIDE DEF K
  <2>. QED BY <1>2, <2>1, FS_Subset
<1>5. R2 \in FiniteRows
  <2> HIDE DEF K
  <2>1. IsFiniteSet(K \cup {x}) BY <1>4, FS_AddElement
  <2>. QED BY <1>1, <1>3, <1>4, <2>1 DEF FiniteRows
<1>6. RowIds(R2) = RowIds(R) \cup {op.id} BY <1>1, <1>3 DEF RowIds
<1>7. OneRowEach(R) => OneRowEach(R2) BY <1>1, <1>3 DEF OneRowEach
<1>8. ASSUME NEW st
      PROVE  IdsIn(R2, st) = (IdsIn(R, st) \ {op.id}) \cup (IF x.status = st THEN {op.id} ELSE {})
  BY <1>1, <1>3 DEF IdsIn, RowIds
<1>. QED BY <1>5, <1>6, <1>7, <1>8 DEF R2, x

(* A list keeps its order when a younger row replaces one outside it, when *)
(* that row's edit is appended, and when an edit is removed.               *)
LEMMA KeepOrder ==
  ASSUME NEW R \in FiniteRows, NEW op \in QueueOp, NEW s \in Seq(Edit),
         InOrder(s, R), op.id \notin ToSet(s)
  PROVE  InOrder(s, RowStep(R, op))
<1> SUFFICES ASSUME NEW i \in DOMAIN s, NEW j \in DOMAIN s, i < j,
                    NEW x \in RowStep(R, op), NEW y \in RowStep(R, op),
                    x.edit_id = s[i], y.edit_id = s[j]
             PROVE  x.changed_at < y.changed_at
  BY DEF InOrder, Before
<1>1. s[i] # op.id /\ s[j] # op.id BY DEF ToSet
<1>2. x \in R /\ y \in R BY <1>1 DEF RowStep, RowAfter
<1>. QED BY <1>2 DEF InOrder, Before

(* An edit whose row is the youngest comes last,                           *)
LEMMA AppendOrder ==
  ASSUME NEW R \in FiniteRows, NEW op \in QueueOp, NEW s \in Seq(Edit),
         InOrder(s, R), op.id \notin ToSet(s), \A r \in R : r.changed_at < op.at
  PROVE  InOrder(Append(s, op.id), RowStep(R, op))
<1> DEFINE t == Append(s, op.id)
           n == Len(s)
           R2 == RowStep(R, op)
<1>1. /\ DOMAIN s = 1 .. n /\ DOMAIN t = 1 .. n + 1 /\ n \in Nat
      /\ t[n + 1] = op.id /\ \A i \in 1 .. n : t[i] = s[i]
  BY DEF QueueOp
<1>2. InOrder(s, R2) BY KeepOrder
<1> HIDE DEF t, n
<1> SUFFICES ASSUME NEW i \in DOMAIN t, NEW j \in DOMAIN t, i < j
             PROVE  Before(R2, t[i], t[j])
  BY DEF t, InOrder
<1>3. i \in 1 .. n BY <1>1
<1>4. CASE j \in 1 .. n BY <1>1, <1>2, <1>3, <1>4 DEF InOrder
<1>5. CASE j = n + 1
  <2>1. t[i] # op.id BY <1>1, <1>3 DEF ToSet
  <2>2. ASSUME NEW x \in R2, NEW y \in R2, x.edit_id = t[i], y.edit_id = t[j]
        PROVE  x.changed_at < y.changed_at
    <3>1. x \in R BY <2>1, <2>2 DEF RowStep, RowAfter
    <3>2. y = RowAfter(op) BY <1>1, <1>5, <2>2 DEF RowStep
    <3>. QED BY <3>1, <3>2 DEF RowAfter
  <2>. QED BY <2>2 DEF Before
<1>. QED BY <1>1, <1>4, <1>5

(* and one less keeps the order.                                           *)
LEMMA RemoveOrder ==
  ASSUME NEW R, NEW s \in Seq(Edit), NEW e \in ToSet(s), InOrder(s, R)
  PROVE  InOrder(RemoveLast(s, e), R)
<1> DEFINE t == RemoveLast(s, e)
<1>1. PICK k \in 1 .. Len(s) :
           /\ s[k] = e
           /\ t \in Seq(Edit) /\ Len(t) = Len(s) - 1
           /\ \A i \in 1 .. Len(s) - 1 : t[i] = IF i < k THEN s[i] ELSE s[i + 1]
  BY RemoveLastAt
<1> HIDE DEF t
<1>2. DOMAIN s = 1 .. Len(s) /\ DOMAIN t = 1 .. Len(s) - 1 /\ Len(s) \in Nat BY <1>1
<1> DEFINE pos(i) == IF i < k THEN i ELSE i + 1
<1>3. ASSUME NEW i \in DOMAIN t PROVE pos(i) \in DOMAIN s /\ t[i] = s[pos(i)]
  BY <1>1, <1>2
<1>4. ASSUME NEW i \in DOMAIN t, NEW j \in DOMAIN t, i < j PROVE pos(i) < pos(j)
  BY <1>1, <1>2, <1>4
<1> HIDE DEF pos
<1>. QED BY <1>3, <1>4 DEF InOrder, t

(* One operation changes the rows as it changes what they show.            *)
LEMMA ShowsStep ==
  ASSUME NEW R \in FiniteRows, NEW s, Shows(R, s), NEW op \in QueueOp, Effective(s, op),
         \A r \in R : r.changed_at < op.at
  PROVE  Shows(RowStep(R, op), ReplayStep(s, op))
<1> DEFINE R2 == RowStep(R, op)
           id == op.id
<1>1. /\ s.current \in Seq(Edit) /\ s.undone \in Seq(Edit) /\ s \in EditState
      /\ Distinct(s.current) /\ Distinct(s.undone) /\ ToSet(s.current) \cap ToSet(s.undone) = {}
      /\ ToSet(s.current) = IdsIn(R, "current") /\ ToSet(s.undone) = IdsIn(R, "undone")
      /\ InOrder(s.current, R) /\ InOrder(s.undone, R) /\ OneRowEach(R)
      /\ op.id \in Edit /\ op.kind \in {"push", "undo", "redo"}
  BY DEF Shows, EditState, DistinctState, QueueOp, OpKind
<1>2. /\ OneRowEach(R2)
      /\ \A st : IdsIn(R2, st)
                      = (IdsIn(R, st) \ {id}) \cup (IF RowAfter(op).status = st THEN {id} ELSE {})
  BY <1>1, RowStepRows
<1>3. ReplayStep(s, op) \in EditState BY <1>1, ReplayStepType
<1>7. ASSUME NEW c, NEW u, ReplayStep(s, op) = [current |-> c, undone |-> u],
             Distinct(c), Distinct(u), ToSet(c) \cap ToSet(u) = {},
             ToSet(c) = IdsIn(R2, "current"), ToSet(u) = IdsIn(R2, "undone"),
             InOrder(c, R2), InOrder(u, R2)
      PROVE  Shows(R2, ReplayStep(s, op))
  <2> DEFINE t == ReplayStep(s, op)
  <2>1. t.current = c /\ t.undone = u BY <1>7
  <2>2. t \in EditState BY <1>3
  <2> HIDE DEF t, R2
  <2>. QED BY <1>2, <1>7, <2>1, <2>2 DEF Shows, DistinctState, t
<1>4. CASE op.kind = "push"
  <2> DEFINE c == Append(s.current, id)
  <2>1. id \notin ToSet(s.current) /\ id \notin ToSet(s.undone)
    BY <1>4 DEF Effective, Listed
  <2>2. ReplayStep(s, op) = [current |-> c, undone |-> s.undone]
    BY <1>4 DEF ReplayStep
  <2>3. InOrder(c, R2) /\ InOrder(s.undone, R2)
    BY <1>1, <2>1, KeepOrder, AppendOrder
  <2>4. ToSet(c) = ToSet(s.current) \cup {id} /\ Distinct(c)
    BY <1>1, <2>1, AppendSet
  <2> HIDE DEF c
  <2>5. RowAfter(op).status = "current" BY <1>4 DEF RowAfter
  <2>6. IdsIn(R2, "current") = ToSet(s.current) \cup {id} /\ IdsIn(R2, "undone") = ToSet(s.undone)
    <3> HIDE DEF R2
    <3>1. IdsIn(R2, "current") = (IdsIn(R, "current") \ {id}) \cup {id} BY <1>2, <2>5
    <3>2. IdsIn(R2, "undone") = IdsIn(R, "undone") \ {id} BY <1>2, <2>5
    <3>. QED BY <1>1, <2>1, <3>1, <3>2
  <2>7. ToSet(c) \cap ToSet(s.undone) = {} BY <1>1, <2>1, <2>4
  <2>. QED BY <1>1, <1>7, <2>2, <2>3, <2>4, <2>6, <2>7
<1>5. CASE op.kind = "undo"
  <2> DEFINE c == RemoveLast(s.current, id)
             u == Append(s.undone, id)
  <2>1. id \in ToSet(s.current) /\ id \notin ToSet(s.undone)
    BY <1>1, <1>5 DEF Effective
  <2>2. ReplayStep(s, op) = [current |-> c, undone |-> u]
    BY <1>5, <2>1 DEF ReplayStep
  <2>3. c \in Seq(Edit) /\ Distinct(c) /\ ToSet(c) = ToSet(s.current) \ {id} /\ InOrder(c, R)
    BY <1>1, <2>1, RemoveLastType, RemoveLastSet, RemoveOrder
  <2> HIDE DEF c
  <2>4. InOrder(c, R2) /\ InOrder(u, R2)
    BY <1>1, <2>1, <2>3, KeepOrder, AppendOrder
  <2>5. ToSet(u) = ToSet(s.undone) \cup {id} /\ Distinct(u)
    BY <1>1, <2>1, AppendSet
  <2> HIDE DEF u
  <2>6. /\ IdsIn(R2, "undone") = ToSet(s.undone) \cup {id}
        /\ IdsIn(R2, "current") = ToSet(s.current) \ {id}
    BY <1>1, <1>2, <1>5, <2>1 DEF RowAfter
  <2>7. ToSet(c) \cap ToSet(u) = {} BY <1>1, <2>3, <2>5
  <2>. QED BY <1>1, <1>7, <2>2, <2>3, <2>4, <2>5, <2>6, <2>7
<1>6. CASE op.kind = "redo"
  <2> DEFINE u == RemoveLast(s.undone, id)
             c == Append(s.current, id)
  <2>1. id \in ToSet(s.undone) /\ id \notin ToSet(s.current)
    BY <1>1, <1>6 DEF Effective
  <2>2. ReplayStep(s, op) = [current |-> c, undone |-> u]
    BY <1>6, <2>1 DEF ReplayStep
  <2>3. u \in Seq(Edit) /\ Distinct(u) /\ ToSet(u) = ToSet(s.undone) \ {id} /\ InOrder(u, R)
    BY <1>1, <2>1, RemoveLastType, RemoveLastSet, RemoveOrder
  <2> HIDE DEF u
  <2>4. InOrder(c, R2) /\ InOrder(u, R2)
    BY <1>1, <2>1, <2>3, KeepOrder, AppendOrder
  <2>5. ToSet(c) = ToSet(s.current) \cup {id} /\ Distinct(c)
    BY <1>1, <2>1, AppendSet
  <2> HIDE DEF c
  <2>6. /\ IdsIn(R2, "current") = ToSet(s.current) \cup {id}
        /\ IdsIn(R2, "undone") = ToSet(s.undone) \ {id}
    BY <1>1, <1>2, <1>6, <2>1 DEF RowAfter
  <2>7. ToSet(c) \cap ToSet(u) = {} BY <1>1, <2>3, <2>5
  <2>. QED BY <1>1, <1>7, <2>2, <2>3, <2>4, <2>5, <2>6, <2>7
<1>. QED BY <1>1, <1>4, <1>5, <1>6

----------------------------------------------------------------------------
(* An operation on the maps of get_sync_data.                              *)

(* The rows a map stands for.                                              *)
NewRows(m, st) == {[edit_id |-> it.id, status |-> st, changed_at |-> it.at] : it \in m}

(* The rows R once the maps of a flush are executed, in one step.          *)
Flat(R, d) ==
  {r \in R : r.edit_id \notin Named(d)}
    \cup NewRows(d.current \cup d.set_current, "current")
    \cup NewRows(d.undone \cup d.set_undone, "undone")

(* What is created has no row, what is updated has one, and no edit is in  *)
(* two maps.                                                               *)
Tidy(R, d) ==
  /\ Functional(d)
  /\ IdsOf(d.current) \cap IdsOf(d.undone) = {}
  /\ IdsOf(d.set_current) \cap IdsOf(d.set_undone) = {}
  /\ Created(d) \cap RowIds(R) = {}
  /\ IdsOf(d.set_current) \cup IdsOf(d.set_undone) \subseteq RowIds(R)

(* An operation the rows R with the maps d can take.                       *)
Fits(R, d, op) ==
  /\ op.kind = "push" => op.id \notin RowIds(R) \cup Named(d)
  /\ op.kind = "undo" => /\ op.id \in RowIds(R) \cup Created(d)
                         /\ op.id \notin IdsOf(d.undone) \cup IdsOf(d.set_undone)
  /\ op.kind = "redo" => /\ op.id \in RowIds(R) \cup Created(d)
                         /\ op.id \notin IdsOf(d.current) \cup IdsOf(d.set_current)

(* The maps e have taken in the operation op.                              *)
Took(R, d, op, e) ==
  LET it == [id |-> op.id, at |-> op.at]
  IN  /\ Tidy(R, e)
      /\ Named(e) = Named(d) \cup {op.id}
      /\ e.current \cup e.set_current
           = Del(d.current \cup d.set_current, op.id) \cup (IF op.kind = "undo" THEN {} ELSE {it})
      /\ e.undone \cup e.set_undone
           = Del(d.undone \cup d.set_undone, op.id) \cup (IF op.kind = "undo" THEN {it} ELSE {})

(* One iteration of get_sync_data, on the ids and on the entries.          *)
LEMMA TidyStep ==
  ASSUME NEW R, NEW d \in SyncData, NEW op \in QueueOp, Tidy(R, d), Fits(R, d, op)
  PROVE  Took(R, d, op, SyncStep(d, op))
<1> DEFINE e == SyncStep(d, op)
           it == [id |-> op.id, at |-> op.at]
           id == op.id
           Goal == /\ Tidy(R, e)
                   /\ Named(e) = Named(d) \cup {op.id}
                   /\ e.current \cup e.set_current
                        = Del(d.current \cup d.set_current, op.id)
                            \cup (IF op.kind = "undo" THEN {} ELSE {it})
                   /\ e.undone \cup e.set_undone
                        = Del(d.undone \cup d.set_undone, op.id)
                            \cup (IF op.kind = "undo" THEN {it} ELSE {})
<1>1. /\ op.kind \in {"push", "undo", "redo"}
      /\ d.current \in IdMap /\ d.undone \in IdMap
      /\ d.set_current \in IdMap /\ d.set_undone \in IdMap
  BY DEF QueueOp, OpKind, SyncData
<1>2. ASSUME NEW m
      PROVE  /\ Put(m, op) = Del(m, id) \cup {it}
             /\ IdsOf(Del(m, id)) = IdsOf(m) \ {id}
             /\ IdsOf(Put(m, op)) = (IdsOf(m) \ {id}) \cup {id}
             /\ id \notin IdsOf(m) => Del(m, id) = m
             /\ Has(m, id) <=> id \in IdsOf(m)
             /\ OneEach(m) => OneEach(Del(m, id)) /\ OneEach(Put(m, op))
  <2>1. Put(m, op) = Del(m, id) \cup {it} BY DEF Put
  <2>2. \A x : x \in Del(m, id) <=> x \in m /\ x.id # id BY DEF Del
  <2>3. it.id = id OBVIOUS
  <2> HIDE DEF it
  <2>4. IdsOf(Del(m, id)) = IdsOf(m) \ {id} BY <2>2 DEF IdsOf
  <2>5. IdsOf(Put(m, op)) = (IdsOf(m) \ {id}) \cup {id}
    <3>1. IdsOf(Put(m, op)) = IdsOf(Del(m, id)) \cup {it.id} BY <2>1 DEF IdsOf
    <3>. QED BY <2>3, <2>4, <3>1
  <2>6. ASSUME id \notin IdsOf(m) PROVE Del(m, id) = m
    <3>1. \A x \in m : x.id # id BY <2>6 DEF IdsOf
    <3>2. \A x : x \in Del(m, id) <=> x \in m BY <2>2, <3>1
    <3>. QED BY <3>2
  <2>7. Has(m, id) <=> id \in IdsOf(m) BY DEF Has, IdsOf
  <2>8. OneEach(m) => OneEach(Del(m, id)) /\ OneEach(Put(m, op)) BY <2>1, <2>2, <2>3 DEF OneEach
  <2>. QED BY <2>1, <2>4, <2>5, <2>6, <2>7, <2>8
<1>3. /\ Del(d.current \cup d.set_current, id) = Del(d.current, id) \cup Del(d.set_current, id)
      /\ Del(d.undone \cup d.set_undone, id) = Del(d.undone, id) \cup Del(d.set_undone, id)
  BY DEF Del
<1>a. /\ op.kind = "undo" => /\ (IF op.kind = "undo" THEN {} ELSE {it}) = {}
                             /\ (IF op.kind = "undo" THEN {it} ELSE {}) = {it}
      /\ op.kind # "undo" => /\ (IF op.kind = "undo" THEN {} ELSE {it}) = {it}
                             /\ (IF op.kind = "undo" THEN {it} ELSE {}) = {}
  OBVIOUS
<1>b. /\ Put(d.current, op) = Del(d.current, id) \cup {it}
      /\ Put(d.undone, op) = Del(d.undone, id) \cup {it}
      /\ Put(d.set_current, op) = Del(d.set_current, id) \cup {it}
      /\ Put(d.set_undone, op) = Del(d.set_undone, id) \cup {it}
      /\ id \notin IdsOf(d.current) => Del(d.current, id) = d.current
      /\ id \notin IdsOf(d.undone) => Del(d.undone, id) = d.undone
      /\ id \notin IdsOf(d.set_current) => Del(d.set_current, id) = d.set_current
      /\ id \notin IdsOf(d.set_undone) => Del(d.set_undone, id) = d.set_undone
  <2>1. /\ Put(d.current, op) = Del(d.current, id) \cup {it}
        /\ id \notin IdsOf(d.current) => Del(d.current, id) = d.current
    BY <1>2
  <2>2. /\ Put(d.undone, op) = Del(d.undone, id) \cup {it}
        /\ id \notin IdsOf(d.undone) => Del(d.undone, id) = d.undone
    BY <1>2
  <2>3. /\ Put(d.set_current, op) = Del(d.set_current, id) \cup {it}
        /\ id \notin IdsOf(d.set_current) => Del(d.set_current, id) = d.set_current
    BY <1>2
  <2>4. /\ Put(d.set_undone, op) = Del(d.set_undone, id) \cup {it}
        /\ id \notin IdsOf(d.set_undone) => Del(d.set_undone, id) = d.set_undone
    BY <1>2
  <2>. QED BY <2>1, <2>2, <2>3, <2>4
<1>4. /\ OneEach(d.current) /\ OneEach(d.undone) /\ OneEach(d.set_current) /\ OneEach(d.set_undone)
      /\ IdsOf(d.current) \cap IdsOf(d.undone) = {}
      /\ IdsOf(d.set_current) \cap IdsOf(d.set_undone) = {}
      /\ (IdsOf(d.current) \cup IdsOf(d.undone)) \cap RowIds(R) = {}
      /\ IdsOf(d.set_current) \cup IdsOf(d.set_undone) \subseteq RowIds(R)
  BY DEF Tidy, Functional, Created
<1>c. /\ IdsOf(Put(d.current, op)) = IdsOf(d.current) \cup {id} /\ OneEach(Put(d.current, op))
      /\ IdsOf(Del(d.current, id)) = IdsOf(d.current) \ {id} /\ OneEach(Del(d.current, id))
      /\ IdsOf(Put(d.undone, op)) = IdsOf(d.undone) \cup {id} /\ OneEach(Put(d.undone, op))
      /\ IdsOf(Del(d.undone, id)) = IdsOf(d.undone) \ {id} /\ OneEach(Del(d.undone, id))
  <2>1. /\ IdsOf(Put(d.current, op)) = IdsOf(d.current) \cup {id} /\ OneEach(Put(d.current, op))
        /\ IdsOf(Del(d.current, id)) = IdsOf(d.current) \ {id} /\ OneEach(Del(d.current, id))
    BY <1>2, <1>4
  <2>2. /\ IdsOf(Put(d.undone, op)) = IdsOf(d.undone) \cup {id} /\ OneEach(Put(d.undone, op))
        /\ IdsOf(Del(d.undone, id)) = IdsOf(d.undone) \ {id} /\ OneEach(Del(d.undone, id))
    BY <1>2, <1>4
  <2>. QED BY <2>1, <2>2
<1>d. /\ IdsOf(Put(d.set_current, op)) = IdsOf(d.set_current) \cup {id} /\ OneEach(Put(d.set_current, op))
      /\ IdsOf(Del(d.set_current, id)) = IdsOf(d.set_current) \ {id} /\ OneEach(Del(d.set_current, id))
      /\ IdsOf(Put(d.set_undone, op)) = IdsOf(d.set_undone) \cup {id} /\ OneEach(Put(d.set_undone, op))
      /\ IdsOf(Del(d.set_undone, id)) = IdsOf(d.set_undone) \ {id} /\ OneEach(Del(d.set_undone, id))
  <2>1. /\ IdsOf(Put(d.set_current, op)) = IdsOf(d.set_current) \cup {id} /\ OneEach(Put(d.set_current, op))
        /\ IdsOf(Del(d.set_current, id)) = IdsOf(d.set_current) \ {id} /\ OneEach(Del(d.set_current, id))
    BY <1>2, <1>4
  <2>2. /\ IdsOf(Put(d.set_undone, op)) = IdsOf(d.set_undone) \cup {id} /\ OneEach(Put(d.set_undone, op))
        /\ IdsOf(Del(d.set_undone, id)) = IdsOf(d.set_undone) \ {id} /\ OneEach(Del(d.set_undone, id))
    BY <1>2, <1>4
  <2>. QED BY <2>1, <2>2
<1> HIDE DEF it
<1>5. ASSUME op.kind = "push" PROVE Goal
  <2>1. /\ e.current = Put(d.current, op) /\ e.undone = d.undone
        /\ e.set_current = d.set_current /\ e.set_undone = d.set_undone
    BY <1>5 DEF SyncStep, SyncData
  <2>2. id \notin RowIds(R) /\ id \notin IdsOf(d.current) /\ id \notin IdsOf(d.undone)
        /\ id \notin IdsOf(d.set_current) /\ id \notin IdsOf(d.set_undone)
    BY <1>5 DEF Fits, Named, Created
  <2> HIDE DEF e
  <2>b. IdsOf(e.current) = IdsOf(d.current) \cup {id} /\ OneEach(e.current)
    BY <1>c, <1>d, <2>1
  <2>3. Tidy(R, e) BY <1>4, <2>b, <2>1, <2>2 DEF Tidy, Functional, Created
  <2>4. Named(e) = Named(d) \cup {id} BY <2>b, <2>1 DEF Named, Created
  <2>a. /\ e.current = Del(d.current, id) \cup {it}
        /\ e.undone = Del(d.undone, id)
        /\ e.set_current = Del(d.set_current, id)
        /\ e.set_undone = Del(d.set_undone, id)
    BY <1>b, <2>1, <2>2
  <2>5. e.current \cup e.set_current = Del(d.current \cup d.set_current, id) \cup {it}
    BY <1>3, <2>a
  <2>6. e.undone \cup e.set_undone = Del(d.undone \cup d.set_undone, id)
    BY <1>3, <2>a
  <2>. QED BY <1>5, <1>a, <2>3, <2>4, <2>5, <2>6
<1>6. ASSUME op.kind = "undo" /\ Has(d.current, id) PROVE Goal
  <2>1. /\ e.current = Del(d.current, id) /\ e.undone = Put(d.undone, op)
        /\ e.set_current = d.set_current /\ e.set_undone = d.set_undone
    BY <1>6 DEF SyncStep, SyncData
  <2>2. id \notin RowIds(R) /\ id \in IdsOf(d.current) /\ id \notin IdsOf(d.undone)
        /\ id \notin IdsOf(d.set_current) /\ id \notin IdsOf(d.set_undone)
    BY <1>2, <1>4, <1>6
  <2> HIDE DEF e
  <2>b. /\ IdsOf(e.current) = IdsOf(d.current) \ {id} /\ OneEach(e.current)
        /\ IdsOf(e.undone) = IdsOf(d.undone) \cup {id} /\ OneEach(e.undone)
    <3>1. IdsOf(e.current) = IdsOf(d.current) \ {id} /\ OneEach(e.current) BY <1>c, <1>d, <2>1
    <3>2. IdsOf(e.undone) = IdsOf(d.undone) \cup {id} /\ OneEach(e.undone) BY <1>c, <1>d, <2>1
    <3>. QED BY <3>1, <3>2
  <2>3. Tidy(R, e) BY <1>4, <2>b, <2>1, <2>2 DEF Tidy, Functional, Created
  <2>4. Named(e) = Named(d) \cup {id} BY <2>b, <2>1, <2>2 DEF Named, Created
  <2>a. /\ e.current = Del(d.current, id)
        /\ e.undone = Del(d.undone, id) \cup {it}
        /\ e.set_current = Del(d.set_current, id)
        /\ e.set_undone = Del(d.set_undone, id)
    BY <1>b, <2>1, <2>2
  <2>5. e.current \cup e.set_current = Del(d.current \cup d.set_current, id)
    BY <1>3, <2>a
  <2>6. e.undone \cup e.set_undone = Del(d.undone \cup d.set_undone, id) \cup {it}
    BY <1>3, <2>a
  <2>. QED BY <1>6, <1>a, <2>3, <2>4, <2>5, <2>6
<1>7. ASSUME op.kind = "undo" /\ ~Has(d.current, id) PROVE Goal
  <2>1. /\ e.current = d.current /\ e.undone = d.undone
        /\ e.set_current = Del(d.set_current, id) /\ e.set_undone = Put(d.set_undone, op)
    BY <1>7 DEF SyncStep, SyncData
  <2>2. id \in RowIds(R) /\ id \notin IdsOf(d.current) /\ id \notin IdsOf(d.undone)
        /\ id \notin IdsOf(d.set_undone)
    BY <1>2, <1>7 DEF Fits, Created
  <2> HIDE DEF e
  <2>b. /\ IdsOf(e.set_current) = IdsOf(d.set_current) \ {id} /\ OneEach(e.set_current)
        /\ IdsOf(e.set_undone) = IdsOf(d.set_undone) \cup {id} /\ OneEach(e.set_undone)
    <3>1. IdsOf(e.set_current) = IdsOf(d.set_current) \ {id} /\ OneEach(e.set_current) BY <1>c, <1>d, <2>1
    <3>2. IdsOf(e.set_undone) = IdsOf(d.set_undone) \cup {id} /\ OneEach(e.set_undone) BY <1>c, <1>d, <2>1
    <3>. QED BY <3>1, <3>2
  <2>3. Tidy(R, e) BY <1>4, <2>b, <2>1, <2>2 DEF Tidy, Functional, Created
  <2>4. Named(e) = Named(d) \cup {id} BY <2>b, <2>1, <2>2 DEF Named, Created
  <2>a. /\ e.current = Del(d.current, id)
        /\ e.undone = Del(d.undone, id)
        /\ e.set_current = Del(d.set_current, id)
        /\ e.set_undone = Del(d.set_undone, id) \cup {it}
    BY <1>b, <2>1, <2>2
  <2>5. e.current \cup e.set_current = Del(d.current \cup d.set_current, id)
    BY <1>3, <2>a
  <2>6. e.undone \cup e.set_undone = Del(d.undone \cup d.set_undone, id) \cup {it}
    BY <1>3, <2>a
  <2>. QED BY <1>7, <1>a, <2>3, <2>4, <2>5, <2>6
<1>8. ASSUME op.kind = "redo" /\ Has(d.undone, id) PROVE Goal
  <2>1. /\ e.current = Put(d.current, op) /\ e.undone = Del(d.undone, id)
        /\ e.set_current = d.set_current /\ e.set_undone = d.set_undone
    BY <1>8 DEF SyncStep, SyncData
  <2>2. id \notin RowIds(R) /\ id \notin IdsOf(d.current) /\ id \in IdsOf(d.undone)
        /\ id \notin IdsOf(d.set_current) /\ id \notin IdsOf(d.set_undone)
    BY <1>2, <1>4, <1>8
  <2> HIDE DEF e
  <2>b. /\ IdsOf(e.undone) = IdsOf(d.undone) \ {id} /\ OneEach(e.undone)
        /\ IdsOf(e.current) = IdsOf(d.current) \cup {id} /\ OneEach(e.current)
    <3>1. IdsOf(e.undone) = IdsOf(d.undone) \ {id} /\ OneEach(e.undone) BY <1>c, <1>d, <2>1
    <3>2. IdsOf(e.current) = IdsOf(d.current) \cup {id} /\ OneEach(e.current) BY <1>c, <1>d, <2>1
    <3>. QED BY <3>1, <3>2
  <2>3. Tidy(R, e) BY <1>4, <2>b, <2>1, <2>2 DEF Tidy, Functional, Created
  <2>4. Named(e) = Named(d) \cup {id} BY <2>b, <2>1, <2>2 DEF Named, Created
  <2>a. /\ e.current = Del(d.current, id) \cup {it}
        /\ e.undone = Del(d.undone, id)
        /\ e.set_current = Del(d.set_current, id)
        /\ e.set_undone = Del(d.set_undone, id)
    BY <1>b, <2>1, <2>2
  <2>5. e.current \cup e.set_current = Del(d.current \cup d.set_current, id) \cup {it}
    BY <1>3, <2>a
  <2>6. e.undone \cup e.set_undone = Del(d.undone \cup d.set_undone, id)
    BY <1>3, <2>a
  <2>. QED BY <1>8, <1>a, <2>3, <2>4, <2>5, <2>6
<1>9. ASSUME op.kind = "redo" /\ ~Has(d.undone, id) PROVE Goal
  <2>1. /\ e.current = d.current /\ e.undone = d.undone
        /\ e.set_undone = Del(d.set_undone, id) /\ e.set_current = Put(d.set_current, op)
    BY <1>9 DEF SyncStep, SyncData
  <2>2. id \in RowIds(R) /\ id \notin IdsOf(d.current) /\ id \notin IdsOf(d.undone)
        /\ id \notin IdsOf(d.set_current)
    BY <1>2, <1>9 DEF Fits, Created
  <2> HIDE DEF e
  <2>b. /\ IdsOf(e.set_undone) = IdsOf(d.set_undone) \ {id} /\ OneEach(e.set_undone)
        /\ IdsOf(e.set_current) = IdsOf(d.set_current) \cup {id} /\ OneEach(e.set_current)
    <3>1. IdsOf(e.set_undone) = IdsOf(d.set_undone) \ {id} /\ OneEach(e.set_undone) BY <1>c, <1>d, <2>1
    <3>2. IdsOf(e.set_current) = IdsOf(d.set_current) \cup {id} /\ OneEach(e.set_current) BY <1>c, <1>d, <2>1
    <3>. QED BY <3>1, <3>2
  <2>3. Tidy(R, e) BY <1>4, <2>b, <2>1, <2>2 DEF Tidy, Functional, Created
  <2>4. Named(e) = Named(d) \cup {id} BY <2>b, <2>1, <2>2 DEF Named, Created
  <2>a. /\ e.current = Del(d.current, id)
        /\ e.undone = Del(d.undone, id)
        /\ e.set_current = Del(d.set_current, id) \cup {it}
        /\ e.set_undone = Del(d.set_undone, id)
    BY <1>b, <2>1, <2>2
  <2>5. e.current \cup e.set_current = Del(d.current \cup d.set_current, id) \cup {it}
    BY <1>3, <2>a
  <2>6. e.undone \cup e.set_undone = Del(d.undone \cup d.set_undone, id)
    BY <1>3, <2>a
  <2>. QED BY <1>9, <1>a, <2>3, <2>4, <2>5, <2>6
<1>10. Goal BY <1>1, <1>5, <1>6, <1>7, <1>8, <1>9
<1>. QED BY <1>10 DEF e, it, Took

(* The maps of a flush follow the rows, operation by operation.            *)
LEMMA FlatStep ==
  ASSUME NEW R, NEW d \in SyncData, NEW op \in QueueOp, Tidy(R, d), Fits(R, d, op)
  PROVE  Flat(R, SyncStep(d, op)) = RowStep(Flat(R, d), op)
<1> DEFINE e == SyncStep(d, op)
           it == [id |-> op.id, at |-> op.at]
           id == op.id
           C == d.current \cup d.set_current
           U == d.undone \cup d.set_undone
           C2 == e.current \cup e.set_current
           U2 == e.undone \cup e.set_undone
           x == RowAfter(op)
           K == {r \in R : r.edit_id \notin Named(d)}
<1>0. Took(R, d, op, e) BY TidyStep
<1> HIDE DEF e
<1>1. /\ Named(e) = Named(d) \cup {id}
      /\ C2 = Del(C, id) \cup (IF op.kind = "undo" THEN {} ELSE {it})
      /\ U2 = Del(U, id) \cup (IF op.kind = "undo" THEN {it} ELSE {})
  BY <1>0 DEF Took
<1>2. Flat(R, e) = {r \in R : r.edit_id \notin Named(e)}
                      \cup NewRows(C2, "current") \cup NewRows(U2, "undone")
  BY DEF Flat
<1>3. RowStep(Flat(R, d), op)
        = {r \in K \cup NewRows(C, "current") \cup NewRows(U, "undone") : r.edit_id # id} \cup {x}
  BY DEF RowStep, Flat
<1>4. ASSUME NEW m, NEW st
      PROVE  /\ NewRows(Del(m, id), st) = {r \in NewRows(m, st) : r.edit_id # id}
             /\ NewRows(Del(m, id) \cup {it}, st)
                  = {r \in NewRows(m, st) : r.edit_id # id}
                      \cup {[edit_id |-> id, status |-> st, changed_at |-> op.at]}
  <2>1. NewRows(Del(m, id), st) = {r \in NewRows(m, st) : r.edit_id # id} BY DEF NewRows, Del
  <2>2. NewRows(Del(m, id) \cup {it}, st)
          = NewRows(Del(m, id), st) \cup {[edit_id |-> id, status |-> st, changed_at |-> op.at]}
    <3> DEFINE y == [edit_id |-> id, status |-> st, changed_at |-> op.at]
    <3>1. NewRows({it}, st) = {y} BY DEF NewRows
    <3>2. \A n : NewRows(n \cup {it}, st) = NewRows(n, st) \cup NewRows({it}, st) BY DEF NewRows
    <3>. QED BY <3>1, <3>2
  <2>. QED BY <2>1, <2>2
<1>5. {r \in R : r.edit_id \notin Named(d) \cup {id}} = {r \in K : r.edit_id # id} OBVIOUS
<1> HIDE DEF e, it, C, U, C2, U2, x, K
<1>6. CASE op.kind = "undo"
  <2>1. x = [edit_id |-> id, status |-> "undone", changed_at |-> op.at] BY <1>6 DEF x, RowAfter
  <2>2. C2 = Del(C, id) /\ U2 = Del(U, id) \cup {it} BY <1>1, <1>6
  <2>3. NewRows(C2, "current") = {r \in NewRows(C, "current") : r.edit_id # id} BY <1>4, <2>2
  <2>4. NewRows(U2, "undone") = {r \in NewRows(U, "undone") : r.edit_id # id} \cup {x}
    BY <1>4, <2>1, <2>2
  <2>. QED BY <1>1, <1>2, <1>3, <1>5, <2>3, <2>4 DEF e
<1>7. CASE op.kind # "undo"
  <2>1. x = [edit_id |-> id, status |-> "current", changed_at |-> op.at] BY <1>7 DEF x, RowAfter
  <2>2. C2 = Del(C, id) \cup {it} /\ U2 = Del(U, id) BY <1>1, <1>7
  <2>3. NewRows(U2, "undone") = {r \in NewRows(U, "undone") : r.edit_id # id} BY <1>4, <2>2
  <2>4. NewRows(C2, "current") = {r \in NewRows(C, "current") : r.edit_id # id} \cup {x}
    BY <1>4, <2>1, <2>2
  <2>. QED BY <1>1, <1>2, <1>3, <1>5, <2>3, <2>4 DEF e
<1>. QED BY <1>6, <1>7

----------------------------------------------------------------------------
(* The chunks of a flush.                                                  *)

(* Statements in terms of the map they carry.                              *)
LEMMA CreateMap ==
  ASSUME NEW R, NEW c, NEW st, NEW m, Carries(c, st, m)
  PROVE  create(R, c) = R \cup NewRows(m, st)
<1>1. create(R, c) = R \cup NewRows(m, c.status) BY DEF create, NewRows, Carries
<1>2. CASE m = {} BY <1>1, <1>2 DEF NewRows
<1>3. CASE m # {} BY <1>1, <1>3 DEF Carries
<1>. QED BY <1>2, <1>3

(* A chunk of status updates writes the rows of its map.                   *)
LEMMA SetMap ==
  ASSUME NEW R \in FiniteRows, NEW c, NEW st, NEW m \in IdMap, Carries(c, st, m),
         OneEach(m), IdsOf(m) \subseteq RowIds(R)
  PROVE  set_status(R, c) = {r \in R : r.edit_id \notin IdsOf(m)} \cup NewRows(m, st)
<1> DEFINE upd(r) == [edit_id |-> r.edit_id, status |-> c.status, changed_at |-> At(m, r.edit_id)]
           new(it) == [edit_id |-> it.id, status |-> st, changed_at |-> it.at]
           K == {r \in R : r.edit_id \notin IdsOf(m)}
<1>1. c.items = m /\ (m # {} => c.status = st) BY DEF Carries
<1>2. \A id : Has(m, id) <=> id \in IdsOf(m) BY DEF Has, IdsOf
<1>3. ASSUME NEW it \in m PROVE At(m, it.id) = it.at
  <2> DEFINE i == CHOOSE x \in m : x.id = it.id
  <2>1. i \in m /\ i.id = it.id OBVIOUS
  <2>2. i = it BY <2>1 DEF OneEach
  <2>. QED BY <2>2 DEF At
<1>4. ASSUME NEW r \in R, NEW it \in m, r.edit_id = it.id PROVE upd(r) = new(it)
  BY <1>1, <1>3, <1>4
<1>5. set_status(R, c) = {IF Has(m, r.edit_id) THEN upd(r) ELSE r : r \in R}
  BY <1>1 DEF set_status
<1>6. NewRows(m, st) = {new(it) : it \in m} BY DEF NewRows
<1> HIDE DEF upd, new
<1>7. ASSUME NEW x \in set_status(R, c) PROVE x \in K \cup NewRows(m, st)
  <2>1. PICK r \in R : x = IF Has(m, r.edit_id) THEN upd(r) ELSE r BY <1>5, <1>7
  <2>2. CASE r.edit_id \in IdsOf(m)
    <3>1. PICK it \in m : it.id = r.edit_id BY <2>2 DEF IdsOf
    <3>. QED BY <1>2, <1>4, <1>6, <2>1, <2>2, <3>1
  <2>3. CASE r.edit_id \notin IdsOf(m) BY <1>2, <2>1, <2>3
  <2>. QED BY <2>2, <2>3
<1>8. ASSUME NEW x \in K PROVE x \in set_status(R, c)
  BY <1>2, <1>5, <1>8
<1>9. ASSUME NEW x \in NewRows(m, st) PROVE x \in set_status(R, c)
  <2>1. PICK it \in m : x = new(it) BY <1>6, <1>9
  <2>2. PICK r \in R : r.edit_id = it.id BY DEF IdsOf, RowIds
  <2>3. Has(m, r.edit_id) BY <2>2 DEF Has
  <2>. QED BY <1>4, <1>5, <2>1, <2>2, <2>3
<1>. QED BY <1>7, <1>8, <1>9

(* The chunks of a flush, executed one by one, make the rows of Flat.      *)
LEMMA SettledFlat ==
  ASSUME NEW R \in FiniteRows, NEW d \in SyncData, Tidy(R, d)
  PROVE  Settled(R, CreateChunks(d), UpdateChunks(d)) = Flat(R, d)
<1> DEFINE ce == CreateChunks(d)
           ue == UpdateChunks(d)
           A == create(create(R, Pending(ce, 1)), Pending(ce, 2))
           B == set_status(A, Pending(ue, 1))
           D == set_status(B, Pending(ue, 2))
           N == NewRows(d.current, "current") \cup NewRows(d.undone, "undone")
           c == d.set_current
           u == d.set_undone
<1>1. /\ TwoMaps(ce, "current", d.current, "undone", d.undone)
      /\ TwoMaps(ue, "current", d.set_current, "undone", d.set_undone)
  BY FlushMaps
<1>2. Settled(R, ce, ue) = D BY DEF Settled
<1>3. /\ d.current \in IdMap /\ d.undone \in IdMap /\ c \in IdMap /\ u \in IdMap
      /\ OneEach(c) /\ OneEach(u) /\ IdsOf(c) \cap IdsOf(u) = {}
      /\ (IdsOf(d.current) \cup IdsOf(d.undone)) \cap RowIds(R) = {}
      /\ IdsOf(c) \cup IdsOf(u) \subseteq RowIds(R)
  BY DEF Tidy, Functional, SyncData, Created
<1>4. ce \in Seq(Chunk) /\ ue \in Seq(Chunk) BY ChunksType
<1> HIDE DEF ce, ue
<1>5. /\ Pending(ce, 1) \in Chunk /\ Pending(ce, 2) \in Chunk
      /\ Pending(ue, 1) \in Chunk /\ Pending(ue, 2) \in Chunk
  BY <1>4, PendingType
<1>6. A \in FiniteRows /\ A = R \cup N
  <2>1. A \in FiniteRows BY <1>5, CreateType
  <2>2. CASE /\ Carries(Pending(ce, 1), "current", d.current)
             /\ Carries(Pending(ce, 2), "undone", d.undone)
    <3>1. create(R, Pending(ce, 1)) = R \cup NewRows(d.current, "current") BY <2>2, CreateMap
    <3>2. A = create(R, Pending(ce, 1)) \cup NewRows(d.undone, "undone") BY <2>2, CreateMap
    <3>. QED BY <2>1, <3>1, <3>2
  <2>3. CASE /\ Carries(Pending(ce, 1), "undone", d.undone)
             /\ Carries(Pending(ce, 2), "current", d.current)
    <3>1. create(R, Pending(ce, 1)) = R \cup NewRows(d.undone, "undone") BY <2>3, CreateMap
    <3>2. A = create(R, Pending(ce, 1)) \cup NewRows(d.current, "current") BY <2>3, CreateMap
    <3>. QED BY <2>1, <3>1, <3>2
  <2>. QED BY <1>1, <2>2, <2>3 DEF TwoMaps
<1> DEFINE S(X, m, st) == {r \in X : r.edit_id \notin IdsOf(m)} \cup NewRows(m, st)
<1> HIDE DEF A, N
<1>7. RowIds(R) \subseteq RowIds(A) BY <1>6 DEF RowIds
<1>8. \/ D = S(S(A, c, "current"), u, "undone")
      \/ D = S(S(A, u, "undone"), c, "current")
  <2>0. B \in FiniteRows /\ RowIds(B) = RowIds(A) BY <1>5, <1>6, SetStatusType, SetRows
  <2>1. CASE /\ Carries(Pending(ue, 1), "current", c) /\ Carries(Pending(ue, 2), "undone", u)
    <3>1. B = S(A, c, "current") BY <1>3, <1>6, <1>7, <2>1, SetMap
    <3>2. D = S(B, u, "undone") BY <1>3, <1>7, <2>0, <2>1, SetMap
    <3>. QED BY <3>1, <3>2
  <2>2. CASE /\ Carries(Pending(ue, 1), "undone", u) /\ Carries(Pending(ue, 2), "current", c)
    <3>1. B = S(A, u, "undone") BY <1>3, <1>6, <1>7, <2>2, SetMap
    <3>2. D = S(B, c, "current") BY <1>3, <1>7, <2>0, <2>2, SetMap
    <3>. QED BY <3>1, <3>2
  <2>. QED BY <1>1, <2>1, <2>2 DEF TwoMaps
<1> HIDE DEF D
<1>9. ASSUME NEW x
      PROVE  /\ x \in NewRows(c, "current") => x.edit_id \in IdsOf(c)
             /\ x \in NewRows(u, "undone") => x.edit_id \in IdsOf(u)
             /\ x \in N => x.edit_id \in IdsOf(d.current) \cup IdsOf(d.undone)
             /\ x \in R => x.edit_id \in RowIds(R)
  BY DEF N, NewRows, IdsOf, RowIds
<1>10. Flat(R, d) = {r \in R : r.edit_id \notin Named(d)} \cup N
                      \cup NewRows(c, "current") \cup NewRows(u, "undone")
  <2>1. NewRows(d.current \cup c, "current")
          = NewRows(d.current, "current") \cup NewRows(c, "current")
    BY DEF NewRows
  <2>2. NewRows(d.undone \cup u, "undone") = NewRows(d.undone, "undone") \cup NewRows(u, "undone")
    BY DEF NewRows
  <2>. QED BY <2>1, <2>2 DEF Flat, N
<1>11. Named(d) = IdsOf(d.current) \cup IdsOf(d.undone) \cup IdsOf(c) \cup IdsOf(u)
  BY DEF Named, Created
<1>12. {r \in R : r.edit_id \notin Named(d)} = {r \in R : r.edit_id \notin IdsOf(c) \cup IdsOf(u)}
  BY <1>3, <1>9, <1>11
<1> HIDE DEF c, u
<1>13. S(S(A, c, "current"), u, "undone") = Flat(R, d)
  BY <1>3, <1>6, <1>9, <1>10, <1>12
<1>14. S(S(A, u, "undone"), c, "current") = Flat(R, d)
  BY <1>3, <1>6, <1>9, <1>10, <1>12
<1>. QED BY <1>2, <1>8, <1>13, <1>14 DEF ce, ue

----------------------------------------------------------------------------
(* Longer queues, shorter channels, answers.                               *)

(* One more operation is one more step of the replay.                      *)
LEMMA ReplayAppend ==
  ASSUME NEW s \in EditState, NEW q \in Seq(QueueOp), NEW op \in QueueOp
  PROVE  Replay(s, Append(q, op)) = ReplayStep(Replay(s, q), op)
<1> DEFINE t == Append(q, op)
           n == Len(q)
<1>1. /\ t \in Seq(QueueOp) /\ n \in Nat /\ Len(t) = n + 1 /\ t[n + 1] = op
      /\ \A i \in 1 .. n : t[i] = q[i]
  OBVIOUS
<1> HIDE DEF t
<1>2. PICK f \in [0 .. n -> EditState] :
           /\ f[0] = s /\ f[n] = Replay(s, q)
           /\ \A i \in 1 .. n : f[i] = ReplayStep(f[i - 1], q[i])
  BY ReplayStates
<1>3. PICK g \in [0 .. n + 1 -> EditState] :
           /\ g[0] = s /\ g[n + 1] = Replay(s, t)
           /\ \A i \in 1 .. n + 1 : g[i] = ReplayStep(g[i - 1], t[i])
  <2>1. \E g \in [0 .. Len(t) -> EditState] :
           /\ g[0] = s /\ g[Len(t)] = Replay(s, t)
           /\ \A i \in 1 .. Len(t) : g[i] = ReplayStep(g[i - 1], t[i])
    BY <1>1, ReplayStates
  <2>2. Len(t) = n + 1 BY <1>1
  <2> HIDE DEF n
  <2>. QED BY <2>1, <2>2
<1> DEFINE T == {i \in 0 .. n : f[i] = g[i]}
<1>4. 0 \in T BY <1>1, <1>2, <1>3
<1>5. ASSUME NEW i \in 1 .. n, i - 1 \in T PROVE i \in T
  <2>1. i \in 1 .. n + 1 /\ t[i] = q[i] /\ f[i - 1] = g[i - 1] BY <1>1, <1>5
  <2>. QED BY <1>2, <1>3, <2>1
<1>6. \A i \in 0 .. n : i \in T
  <2> HIDE DEF T
  <2>. QED BY <1>1, <1>4, <1>5, InductionUpTo
<1>7. f[n] = g[n] BY <1>1, <1>6
<1>8. n + 1 \in 1 .. n + 1 /\ n + 1 - 1 = n BY <1>1
<1>9. g[n + 1] = ReplayStep(g[n], op) BY <1>1, <1>3, <1>8
<1>. QED BY <1>2, <1>3, <1>7, <1>9 DEF t

(* ... and of get_sync_data.                                               *)
LEMMA SyncAppend ==
  ASSUME NEW q \in Seq(QueueOp), NEW op \in QueueOp
  PROVE  get_sync_data(Append(q, op)) = SyncStep(get_sync_data(q), op)
<1> DEFINE t == Append(q, op)
           n == Len(q)
<1>1. /\ t \in Seq(QueueOp) /\ n \in Nat /\ Len(t) = n + 1 /\ t[n + 1] = op
      /\ \A i \in 1 .. n : t[i] = q[i]
  OBVIOUS
<1> HIDE DEF t
<1>2. PICK f \in [0 .. n -> SyncData] :
           /\ f[0] = NoSyncData /\ f[n] = get_sync_data(q)
           /\ \A i \in 1 .. n : f[i] = SyncStep(f[i - 1], q[i])
  BY SyncStates
<1>3. PICK g \in [0 .. n + 1 -> SyncData] :
           /\ g[0] = NoSyncData /\ g[n + 1] = get_sync_data(t)
           /\ \A i \in 1 .. n + 1 : g[i] = SyncStep(g[i - 1], t[i])
  <2>1. \E g \in [0 .. Len(t) -> SyncData] :
           /\ g[0] = NoSyncData /\ g[Len(t)] = get_sync_data(t)
           /\ \A i \in 1 .. Len(t) : g[i] = SyncStep(g[i - 1], t[i])
    BY <1>1, SyncStates
  <2>2. Len(t) = n + 1 BY <1>1
  <2> HIDE DEF n
  <2>. QED BY <2>1, <2>2
<1> DEFINE T == {i \in 0 .. n : f[i] = g[i]}
<1>4. 0 \in T BY <1>1, <1>2, <1>3
<1>5. ASSUME NEW i \in 1 .. n, i - 1 \in T PROVE i \in T
  <2>1. i \in 1 .. n + 1 /\ t[i] = q[i] /\ f[i - 1] = g[i - 1] BY <1>1, <1>5
  <2>. QED BY <1>2, <1>3, <2>1
<1>6. \A i \in 0 .. n : i \in T
  <2> HIDE DEF T
  <2>. QED BY <1>1, <1>4, <1>5, InductionUpTo
<1>7. f[n] = g[n] BY <1>1, <1>6
<1>8. n + 1 \in 1 .. n + 1 /\ n + 1 - 1 = n BY <1>1
<1>9. g[n + 1] = SyncStep(g[n], op)
  <2>1. g[n + 1] = SyncStep(g[n + 1 - 1], t[n + 1]) BY <1>3, <1>8
  <2>2. t[n + 1] = op BY <1>1
  <2> HIDE DEF n
  <2>. QED BY <1>8, <2>1, <2>2
<1>. QED BY <1>2, <1>3, <1>7, <1>9 DEF t

(* An empty queue changes nothing.                                         *)
LEMMA EmptyQueue ==
  ASSUME NEW R
  PROVE  /\ get_sync_data(<<>>) = NoSyncData /\ NoSyncData \in SyncData
         /\ Flat(R, NoSyncData) = R /\ Tidy(R, NoSyncData)
         /\ \A s \in EditState : Replay(s, <<>>) = s
<1>1. <<>> \in Seq(QueueOp) /\ Len(<<>>) = 0 OBVIOUS
<1>2. get_sync_data(<<>>) = NoSyncData BY <1>1, SyncStates
<1>3. NoSyncData \in SyncData BY <1>1, <1>2, SyncDataType
<1>4. IdsOf({}) = {} /\ OneEach({}) BY DEF IdsOf, OneEach
<1>5. Named(NoSyncData) = {} /\ Created(NoSyncData) = {}
  BY <1>4 DEF Named, Created, NoSyncData
<1>6. \A st : NewRows({}, st) = {} BY DEF NewRows
<1>7. Flat(R, NoSyncData) = R BY <1>5, <1>6 DEF Flat, NoSyncData
<1>8. Tidy(R, NoSyncData) BY <1>4, <1>5 DEF Tidy, Functional, NoSyncData
<1>9. ASSUME NEW s \in EditState PROVE Replay(s, <<>>) = s
  <2>1. PICK f \in [0 .. Len(<<>>) -> EditState] :
             f[0] = s /\ f[Len(<<>>)] = Replay(s, <<>>)
    BY <1>1, ReplayStates
  <2>. QED BY <1>1, <2>1
<1>. QED BY <1>2, <1>3, <1>7, <1>8, <1>9

(* The answer to a pull says of each list what the client lacks.           *)
LEMMA MissingLacks ==
  ASSUME NEW s \in Seq(Edit), NEW have
  PROVE  Plain!Lacking(Missing(s, have), s, have)
<1> DEFINE n == Len(s)
<1>1. n \in Nat /\ DOMAIN s = 1 .. n OBVIOUS
<1>2. PICK f \in [0 .. n -> Seq(Edit)] :
           /\ f[0] = <<>> /\ f[n] = Missing(s, have)
           /\ \A i \in 1 .. n : f[i] = IF s[i] \in have THEN f[i - 1] ELSE Append(f[i - 1], s[i])
  BY MissingStates
<1> DEFINE Picks(at, t, m) ==
             /\ at \in [DOMAIN t -> 1 .. m]
             /\ \A i, j \in DOMAIN t : i < j => at[i] < at[j]
             /\ \A i \in DOMAIN t : t[i] = s[at[i]]
             /\ {at[i] : i \in DOMAIN t} = {j \in 1 .. m : s[j] \notin have}
           T == {m \in 0 .. n : \E at : Picks(at, f[m], m)}
<1>3. 0 \in T
  <2>1. f[0] = <<>> /\ DOMAIN <<>> = {} /\ 1 .. 0 = {} BY <1>2
  <2>2. Picks(<<>>, f[0], 0) BY <2>1
  <2> HIDE DEF Picks
  <2>. QED BY <1>1, <2>2
<1>4. ASSUME NEW m \in 1 .. n, m - 1 \in T PROVE m \in T
  <2>1. PICK at : Picks(at, f[m - 1], m - 1)
    <3> HIDE DEF Picks
    <3>. QED BY <1>4
  <2> DEFINE t == f[m - 1]
             k == Len(t)
  <2>2. t \in Seq(Edit) /\ k \in Nat /\ DOMAIN t = 1 .. k /\ 1 .. m = (1 .. m - 1) \cup {m}
    <3>1. m - 1 \in 0 .. n /\ 1 .. m = (1 .. m - 1) \cup {m} BY <1>1
    <3>2. t \in Seq(Edit) BY <1>2, <3>1
    <3> HIDE DEF t
    <3>. QED BY <3>1, <3>2
  <2>3. CASE s[m] \in have
    <3>1. f[m] = t BY <1>2, <2>3
    <3> HIDE DEF t, k
    <3>2. at \in [DOMAIN t -> 1 .. m]
      <4>1. at \in [DOMAIN t -> 1 .. m - 1] BY <2>1 DEF t
      <4>. QED BY <2>2, <4>1
    <3>3. {j \in 1 .. m : s[j] \notin have} = {j \in 1 .. m - 1 : s[j] \notin have}
      BY <2>2, <2>3
    <3>4. Picks(at, t, m) BY <2>1, <3>2, <3>3 DEF t
    <3> HIDE DEF Picks
    <3>. QED BY <1>1, <3>1, <3>4
  <2>4. CASE s[m] \notin have
    <3> DEFINE u == Append(t, s[m])
               up == [i \in 1 .. k + 1 |-> IF i = k + 1 THEN m ELSE at[i]]
    <3>1. f[m] = u BY <1>2, <2>4
    <3>2. /\ DOMAIN u = 1 .. k + 1 /\ u[k + 1] = s[m] /\ \A i \in 1 .. k : u[i] = t[i]
      <4>1. s[m] \in Edit BY <1>1
      <4> HIDE DEF t
      <4>2. Len(u) = k + 1 /\ DOMAIN u = 1 .. Len(u) /\ u[k + 1] = s[m] BY <2>2, <4>1
      <4>3. \A i \in 1 .. k : u[i] = t[i] BY <2>2, <4>1
      <4>. QED BY <2>2, <4>2, <4>3
    <3>3. /\ 1 .. k + 1 = (1 .. k) \cup {k + 1} /\ k + 1 \notin 1 .. k
          /\ \A i \in 1 .. k : at[i] \in 1 .. m - 1
      <4>1. at \in [DOMAIN t -> 1 .. m - 1] BY <2>1
      <4> HIDE DEF t, k
      <4>2. 1 .. k + 1 = (1 .. k) \cup {k + 1} /\ k + 1 \notin 1 .. k BY <2>2
      <4>. QED BY <2>2, <4>1, <4>2
    <3> HIDE DEF t, k, u
    <3>4. up[k + 1] = m /\ \A i \in 1 .. k : up[i] = at[i] BY <2>2, <3>3
    <3>5. up \in [DOMAIN u -> 1 .. m]
      <4>1. \A i \in 1 .. k + 1 : up[i] \in 1 .. m BY <2>2, <3>3, <3>4
      <4>. QED BY <3>2, <4>1
    <3> HIDE DEF up
    <3>6. ASSUME NEW i \in DOMAIN u, NEW j \in DOMAIN u, i < j PROVE up[i] < up[j]
      <4>1. i \in 1 .. k BY <2>2, <3>2, <3>6
      <4>2. CASE j \in 1 .. k
        <5>1. at[i] < at[j] BY <2>1, <2>2, <3>6, <4>1, <4>2 DEF t
        <5>. QED BY <3>4, <4>1, <4>2, <5>1
      <4>3. CASE j = k + 1
        <5>1. at[i] \in 1 .. m - 1 /\ up[i] = at[i] /\ up[j] = m BY <3>3, <3>4, <4>1, <4>3
        <5>. QED BY <1>1, <5>1
      <4>. QED BY <3>2, <3>3, <4>2, <4>3
    <3>7. ASSUME NEW i \in DOMAIN u PROVE u[i] = s[up[i]]
      <4>1. CASE i \in 1 .. k BY <2>1, <2>2, <3>2, <3>4, <4>1 DEF t
      <4>2. CASE i = k + 1 BY <3>2, <3>4, <4>2
      <4>. QED BY <3>2, <3>3, <4>1, <4>2
    <3>8. {up[i] : i \in DOMAIN u} = {j \in 1 .. m : s[j] \notin have}
      <4>1. {up[i] : i \in DOMAIN u} = {at[i] : i \in 1 .. k} \cup {m}
        <5>1. DOMAIN u = (1 .. k) \cup {k + 1} BY <3>2, <3>3
        <5>2. {up[i] : i \in (1 .. k) \cup {k + 1}} = {up[i] : i \in 1 .. k} \cup {up[k + 1]}
          OBVIOUS
        <5>3. {up[i] : i \in 1 .. k} = {at[i] : i \in 1 .. k} BY <3>4
        <5>. QED BY <3>4, <5>1, <5>2, <5>3
      <4>2. {at[i] : i \in 1 .. k} = {j \in 1 .. m - 1 : s[j] \notin have} BY <2>1, <2>2 DEF t
      <4>3. {j \in 1 .. m : s[j] \notin have} = {j \in 1 .. m - 1 : s[j] \notin have} \cup {m}
        BY <2>2, <2>4
      <4>. QED BY <4>1, <4>2, <4>3
    <3>9. Picks(up, u, m) BY <3>5, <3>6, <3>7, <3>8
    <3> HIDE DEF Picks
    <3>. QED BY <1>1, <3>1, <3>9
  <2>. QED BY <2>3, <2>4
<1>5. \A m \in 0 .. n : m \in T
  <2> HIDE DEF T
  <2>. QED BY <1>1, <1>3, <1>4, InductionUpTo
<1>6. PICK at : Picks(at, f[n], n)
  <2> HIDE DEF Picks
  <2>. QED BY <1>1, <1>5
<1>. QED BY <1>1, <1>2, <1>6 DEF Plain!Lacking

(* ... and what it has in excess.                                          *)
LEMMA PullAnswers ==
  ASSUME contents \in EditState, NEW v
  PROVE  Plain!Answers(PullData(contents, v), v)
<1>1. contents.current \in Seq(Edit) /\ contents.undone \in Seq(Edit) BY DEF EditState
<1>2. /\ Plain!Lacking(Missing(contents.current, v.current), contents.current, v.current)
      /\ Plain!Lacking(Missing(contents.undone, v.undone), contents.undone, v.undone)
  BY <1>1, MissingLacks
<1>. QED BY <1>2 DEF PullData, Plain!Answers, Plain!ToSet, ToSet

(* A list is emptied.                                                      *)
Emptied(s, st) == [current |-> IF st = "current" THEN <<>> ELSE s.current,
                   undone  |-> IF st = "undone" THEN <<>> ELSE s.undone]

(* Its rows are deleted: the rest is shown as before.                      *)
LEMMA ShowsDelete ==
  ASSUME NEW R \in FiniteRows, NEW s, Shows(R, s), NEW st \in Status
  PROVE  Shows(delete_bulk(R, st), Emptied(s, st))
<1> DEFINE K == delete_bulk(R, st)
           t == Emptied(s, st)
<1>1. K \subseteq R BY DEF delete_bulk
<1>2. /\ s \in EditState /\ s.current \in Seq(Edit) /\ s.undone \in Seq(Edit)
      /\ Distinct(s.current) /\ Distinct(s.undone) /\ ToSet(s.current) \cap ToSet(s.undone) = {}
      /\ InOrder(s.current, R) /\ InOrder(s.undone, R)
  BY DEF Shows, EditState, DistinctState
<1>3. ASSUME NEW q, InOrder(q, R) PROVE InOrder(q, K) BY <1>1, <1>3 DEF InOrder, Before
<1>4. Distinct(<<>>) /\ ToSet(<<>>) = {} /\ InOrder(<<>>, K) /\ <<>> \in Seq(Edit)
  BY DEF Distinct, ToSet, InOrder
<1>5. OneRowEach(K) BY <1>1 DEF Shows, OneRowEach
<1>6. /\ IdsIn(K, st) = {}
      /\ \A x : x # st => IdsIn(K, x) = IdsIn(R, x)
  <2>1. {r \in K : r.status = st} = {} BY DEF delete_bulk
  <2>2. ASSUME NEW x, x # st PROVE {r \in K : r.status = x} = {r \in R : r.status = x}
    BY <2>2 DEF delete_bulk
  <2>. QED BY <2>1, <2>2 DEF IdsIn, RowIds
<1> HIDE DEF K
<1>7. CASE st = "current"
  <2>1. t = [current |-> <<>>, undone |-> s.undone] BY <1>7 DEF Emptied
  <2>2. t.current = <<>> /\ t.undone = s.undone BY <2>1
  <2>3. t \in EditState /\ DistinctState(t) BY <1>2, <1>4, <2>1, <2>2 DEF EditState, DistinctState
  <2>4. IdsIn(K, "current") = {} /\ IdsIn(K, "undone") = IdsIn(R, "undone") BY <1>6, <1>7
  <2>5. InOrder(s.undone, K) BY <1>2, <1>3
  <2> HIDE DEF t
  <2>. QED BY <1>4, <1>5, <2>2, <2>3, <2>4, <2>5 DEF Shows, K, t
<1>8. CASE st = "undone"
  <2>1. t = [current |-> s.current, undone |-> <<>>] BY <1>8 DEF Emptied
  <2>2. t.current = s.current /\ t.undone = <<>> BY <2>1
  <2>3. t \in EditState /\ DistinctState(t) BY <1>2, <1>4, <2>1, <2>2 DEF EditState, DistinctState
  <2>4. IdsIn(K, "current") = IdsIn(R, "current") /\ IdsIn(K, "undone") = {} BY <1>6, <1>8
  <2>5. InOrder(s.current, K) BY <1>2, <1>3
  <2> HIDE DEF t
  <2>. QED BY <1>4, <1>5, <2>2, <2>3, <2>4, <2>5 DEF Shows, K, t
<1>. QED BY <1>7, <1>8 DEF Status

(* Statements of a flush: creations come first, whichever runs first.      *)
LEMMA CommuteRows ==
  ASSUME NEW R, NEW c, NEW u, IdsOf(c.items) \cap IdsOf(u.items) = {}
  PROVE  set_status(create(R, c), u) = create(set_status(R, u), c)
<1> DEFINE new == {[edit_id |-> it.id, status |-> c.status, changed_at |-> it.at] : it \in c.items}
           upd(r) == IF Has(u.items, r.edit_id)
                       THEN [edit_id |-> r.edit_id, status |-> u.status,
                             changed_at |-> At(u.items, r.edit_id)]
                       ELSE r
<1>1. ASSUME NEW r \in new PROVE upd(r) = r
  <2>1. PICK it \in c.items : r = [edit_id |-> it.id, status |-> c.status, changed_at |-> it.at]
    OBVIOUS
  <2>2. it.id \notin IdsOf(u.items) BY DEF IdsOf
  <2>3. ~Has(u.items, r.edit_id) BY <2>1, <2>2 DEF Has, IdsOf
  <2>. QED BY <2>3
<1>2. /\ set_status(create(R, c), u) = {upd(r) : r \in R \cup new}
      /\ create(set_status(R, u), c) = {upd(r) : r \in R} \cup new
  BY DEF set_status, create
<1> HIDE DEF upd, new
<1>3. {upd(r) : r \in R \cup new} = {upd(r) : r \in R} \cup {upd(r) : r \in new} OBVIOUS
<1>4. {upd(r) : r \in new} = new BY <1>1
<1>. QED BY <1>2, <1>3, <1>4

(* An empty chunk changes nothing.                                         *)
LEMMA EmptyChunk ==
  ASSUME NEW R, NEW c, c.items = {}
  PROVE  create(R, c) = R /\ set_status(R, c) = R
BY DEF create, set_status, Has

(* A chunk is executed: what the channels will leave behind is the same.   *)
LEMMA TailPending ==
  ASSUME NEW chan \in Seq(Chunk), chan # <<>>, Len(chan) <= 2
  PROVE  /\ Pending(chan, 1) = Head(chan)
         /\ Pending(Tail(chan), 1) = Pending(chan, 2)
         /\ Pending(Tail(chan), 2).items = {}
<1> DEFINE t == Tail(chan)
           none == [status |-> "current", items |-> {}]
<1>1. /\ Head(chan) = chan[1] /\ t \in Seq(Chunk) /\ Len(t) = Len(chan) - 1
      /\ \A i \in 1 .. Len(t) : t[i] = chan[i + 1]
  BY HeadTailProperties
<1>2. Len(chan) = 1 \/ Len(chan) = 2
  <2>1. Len(chan) \in Nat /\ Len(chan) # 0 OBVIOUS
  <2>2. \A n \in Nat : n # 0 /\ n <= 2 => n = 1 \/ n = 2 OBVIOUS
  <2>. QED BY <2>1, <2>2, Zenon
<1> HIDE DEF t
<1>3. /\ Pending(chan, 1) = IF 1 <= Len(chan) THEN chan[1] ELSE none
      /\ Pending(chan, 2) = IF 2 <= Len(chan) THEN chan[2] ELSE none
      /\ Pending(t, 1) = IF 1 <= Len(t) THEN t[1] ELSE none
      /\ Pending(t, 2) = IF 2 <= Len(t) THEN t[2] ELSE none
  BY DEF Pending
<1>4. none.items = {} OBVIOUS
<1> HIDE DEF none
<1>5. CASE Len(chan) = 1
  <2>1. Len(t) = 0 /\ 1 <= Len(chan) /\ ~(2 <= Len(chan)) /\ ~(1 <= Len(t)) /\ ~(2 <= Len(t))
    BY <1>1, <1>5
  <2>. QED BY <1>1, <1>3, <1>4, <2>1 DEF t
<1>6. CASE Len(chan) = 2
  <2>1. Len(t) = 1 /\ 1 <= Len(chan) /\ 2 <= Len(chan) /\ 1 <= Len(t) /\ ~(2 <= Len(t))
    BY <1>1, <1>6
  <2>2. t[1] = chan[2]
    <3>1. 1 \in 1 .. Len(t) BY <2>1
    <3>2. t[1] = chan[1 + 1] BY <1>1, <3>1, Zenon
    <3>. QED BY <3>2
  <2>. QED BY <1>1, <1>3, <1>4, <2>1, <2>2 DEF t
<1>. QED BY <1>2, <1>5, <1>6

(* A creation is executed: what is left to come is the same;               *)
LEMMA SettledCreate ==
  ASSUME NEW R, NEW ce \in Seq(Chunk), ce # <<>>, Len(ce) <= 2, NEW ue
  PROVE  Settled(create(R, Head(ce)), Tail(ce), ue) = Settled(R, ce, ue)
<1>1. /\ Pending(ce, 1) = Head(ce) /\ Pending(Tail(ce), 1) = Pending(ce, 2)
      /\ Pending(Tail(ce), 2).items = {}
  BY TailPending
<1>. QED BY <1>1, EmptyChunk DEF Settled

(* so it is when an update is executed, even before the creations.         *)
LEMMA SettledUpdate ==
  ASSUME NEW R, NEW ce, NEW ue \in Seq(Chunk), ue # <<>>, Len(ue) <= 2,
         ChunkIds(ce) \cap ChunkIds(ue) = {}
  PROVE  Settled(set_status(R, Head(ue)), ce, Tail(ue)) = Settled(R, ce, ue)
<1> DEFINE c1 == Pending(ce, 1)
           c2 == Pending(ce, 2)
           u1 == Head(ue)
           u2 == Pending(ue, 2)
           e == Pending(Tail(ue), 2)
<1>1. Pending(ue, 1) = u1 /\ Pending(Tail(ue), 1) = u2 /\ e.items = {}
  BY TailPending
<1>2. IdsOf(c1.items) \cap IdsOf(u1.items) = {} /\ IdsOf(c2.items) \cap IdsOf(u1.items) = {}
  BY <1>1 DEF ChunkIds, Items
<1>3. Settled(R, ce, ue) = set_status(set_status(create(create(R, c1), c2), u1), u2)
  BY <1>1 DEF Settled
<1>4. Settled(set_status(R, u1), ce, Tail(ue))
        = set_status(set_status(create(create(set_status(R, u1), c1), c2), u2), e)
  BY <1>1 DEF Settled
<1> HIDE DEF c1, c2, u1, u2, e
<1>5. create(set_status(R, u1), c1) = set_status(create(R, c1), u1) BY <1>2, CommuteRows
<1>6. create(set_status(create(R, c1), u1), c2) = set_status(create(create(R, c1), c2), u1)
  BY <1>2, CommuteRows
<1>7. Settled(set_status(R, u1), ce, Tail(ue))
        = set_status(set_status(create(create(R, c1), c2), u1), u2)
  BY <1>1, <1>4, <1>5, <1>6, EmptyChunk
<1>. QED BY <1>3, <1>7 DEF u1

(* Nothing waits: the rows are what they are.                              *)
LEMMA SettledEmpty == ASSUME NEW R PROVE Settled(R, <<>>, <<>>) = R
<1> DEFINE none == [status |-> "current", items |-> {}]
<1>1. Len(<<>>) = 0 OBVIOUS
<1>2. Pending(<<>>, 1) = none /\ Pending(<<>>, 2) = none BY <1>1 DEF Pending
<1>3. none.items = {} OBVIOUS
<1> HIDE DEF none
<1>. QED BY <1>2, <1>3, EmptyChunk DEF Settled

----------------------------------------------------------------------------
(* The rows and the queue together.                                        *)

(* The queue q over the rows R makes s, read from the rows after a flush   *)
(* or replayed over a read of them, and nothing in it is younger than t.   *)
Follows(R, q, s, t) ==
  LET d == get_sync_data(q)
  IN  /\ Tidy(R, d)
      /\ Shows(Flat(R, d), s)
      /\ \A r \in Flat(R, d) : r.changed_at <= t
      /\ \E c \in EditState : Shows(R, c) /\ s = Replay(c, q)

(* What the rows become is finite, whatever the maps.                      *)
LEMMA FlatRows ==
  ASSUME NEW R \in FiniteRows, NEW d \in SyncData, Tidy(R, d)
  PROVE  Flat(R, d) \in FiniteRows
<1>1. CreateChunks(d) \in Seq(Chunk) /\ UpdateChunks(d) \in Seq(Chunk) BY ChunksType
<1>. QED BY <1>1, SettledRows, SettledFlat

(* An operation that has an effect is one the maps can take.               *)
LEMMA EffectiveFits ==
  ASSUME NEW R \in FiniteRows, NEW d \in SyncData, Tidy(R, d), NEW s, Shows(Flat(R, d), s),
         NEW op \in QueueOp, Effective(s, op)
  PROVE  Fits(R, d, op)
<1> DEFINE F == Flat(R, d)
           C == IdsOf(d.current) \cup IdsOf(d.set_current)
           U == IdsOf(d.undone) \cup IdsOf(d.set_undone)
           K == {r \in R : r.edit_id \notin Named(d)}
           NC == NewRows(d.current \cup d.set_current, "current")
           NU == NewRows(d.undone \cup d.set_undone, "undone")
<1>1. F = K \cup NC \cup NU BY DEF Flat
<1>2. ASSUME NEW r \in NC PROVE r.edit_id \in C /\ r.status = "current"
  BY DEF NewRows, IdsOf
<1>3. ASSUME NEW r \in NU PROVE r.edit_id \in U /\ r.status = "undone"
  BY DEF NewRows, IdsOf
<1>4. ASSUME NEW e \in C PROVE \E r \in NC : r.edit_id = e
  <2>1. PICK it \in d.current \cup d.set_current : it.id = e BY DEF IdsOf
  <2> DEFINE r == [edit_id |-> it.id, status |-> "current", changed_at |-> it.at]
  <2>2. r \in NC /\ r.edit_id = e BY <2>1 DEF NewRows
  <2>. QED BY <2>2
<1>5. ASSUME NEW e \in U PROVE \E r \in NU : r.edit_id = e
  <2>1. PICK it \in d.undone \cup d.set_undone : it.id = e BY DEF IdsOf
  <2> DEFINE r == [edit_id |-> it.id, status |-> "undone", changed_at |-> it.at]
  <2>2. r \in NU /\ r.edit_id = e BY <2>1 DEF NewRows
  <2>. QED BY <2>2
<1> HIDE DEF NC, NU, K, F
<1>6. /\ OneRowEach(F) /\ ToSet(s.current) = IdsIn(F, "current")
      /\ ToSet(s.undone) = IdsIn(F, "undone")
  BY DEF Shows, F
<1>7. /\ Named(d) = C \cup U
      /\ Named(d) = Created(d) \cup IdsOf(d.set_current) \cup IdsOf(d.set_undone)
  BY DEF Named, Created
<1>8. IdsOf(d.set_current) \cup IdsOf(d.set_undone) \subseteq RowIds(R) BY DEF Tidy
<1>9. C \subseteq IdsIn(F, "current")
  <2> SUFFICES ASSUME NEW e \in C PROVE e \in IdsIn(F, "current") OBVIOUS
  <2>1. PICK r \in NC : r.edit_id = e BY <1>4
  <2>. QED BY <1>1, <1>2, <2>1 DEF IdsIn, RowIds
<1>10. U \subseteq IdsIn(F, "undone")
  <2> SUFFICES ASSUME NEW e \in U PROVE e \in IdsIn(F, "undone") OBVIOUS
  <2>1. PICK r \in NU : r.edit_id = e BY <1>5
  <2>. QED BY <1>1, <1>3, <2>1 DEF IdsIn, RowIds
<1>11. ASSUME NEW e, NEW st, e \in IdsIn(F, st)
       PROVE  e \in RowIds(R) \cup Created(d)
  <2>1. PICK r \in F : r.edit_id = e BY <1>11 DEF IdsIn, RowIds
  <2>2. r \in K => e \in RowIds(R) BY <2>1 DEF K, RowIds
  <2>3. r \in NC \cup NU => e \in Named(d) BY <1>2, <1>3, <1>7, <2>1
  <2>. QED BY <1>1, <1>7, <1>8, <2>2, <2>3
<1>12. RowIds(R) \subseteq IdsIn(F, "current") \cup IdsIn(F, "undone")
  <2> SUFFICES ASSUME NEW x \in R PROVE x.edit_id \in IdsIn(F, "current") \cup IdsIn(F, "undone")
    BY DEF RowIds
  <2>1. CASE x.edit_id \in Named(d) BY <1>7, <1>9, <1>10, <2>1
  <2>2. CASE x.edit_id \notin Named(d)
    <3>1. x \in F BY <1>1, <2>2 DEF K
    <3>2. x.status = "current" \/ x.status = "undone" BY DEF FiniteRows, Row, Status
    <3>. QED BY <3>1, <3>2 DEF IdsIn, RowIds
  <2>. QED BY <2>1, <2>2
<1>13. IdsIn(F, "current") \cap IdsIn(F, "undone") = {}
  BY <1>6 DEF IdsIn, RowIds, OneRowEach
<1> HIDE DEF C, U
<1>14. op.kind = "push" => op.id \notin RowIds(R) \cup Named(d)
  BY <1>6, <1>7, <1>9, <1>10, <1>12 DEF Effective, Listed
<1>15. op.kind = "undo" => op.id \in RowIds(R) \cup Created(d) /\ op.id \notin U
  BY <1>6, <1>10, <1>11, <1>13 DEF Effective
<1>16. op.kind = "redo" => op.id \in RowIds(R) \cup Created(d) /\ op.id \notin C
  BY <1>6, <1>9, <1>11, <1>13 DEF Effective
<1>. QED BY <1>14, <1>15, <1>16 DEF Fits, C, U

(* An operation with an effect is queued.                                  *)
LEMMA FollowsAppend ==
  ASSUME NEW R \in FiniteRows, NEW q \in Seq(QueueOp), NEW s, NEW t \in Nat, Follows(R, q, s, t),
         NEW op \in QueueOp, Effective(s, op), t < op.at
  PROVE  Follows(R, Append(q, op), ReplayStep(s, op), op.at)
<1> DEFINE d == get_sync_data(q)
           d2 == get_sync_data(Append(q, op))
           F == Flat(R, d)
<1>1. Tidy(R, d) /\ Shows(F, s) /\ \A r \in F : r.changed_at <= t BY DEF Follows
<1>2. PICK c \in EditState : Shows(R, c) /\ s = Replay(c, q) BY DEF Follows
<1>3. d \in SyncData /\ d2 = SyncStep(d, op) BY SyncDataType, SyncAppend
<1> HIDE DEF d, d2
<1>4. F \in FiniteRows BY <1>1, <1>3, FlatRows
<1>5. Fits(R, d, op) BY <1>1, <1>3, EffectiveFits
<1>6. Tidy(R, d2) /\ Flat(R, d2) = RowStep(F, op)
  <2>1. Took(R, d, op, SyncStep(d, op)) BY <1>1, <1>3, <1>5, TidyStep
  <2>2. Flat(R, SyncStep(d, op)) = RowStep(Flat(R, d), op) BY <1>1, <1>3, <1>5, FlatStep
  <2>. QED BY <1>3, <2>1, <2>2 DEF Took
<1> HIDE DEF F
<1>7. \A r \in F : r.changed_at < op.at
  <2> TAKE r \in F
  <2>1. r.changed_at \in Nat /\ r.changed_at <= t BY <1>1, <1>4 DEF FiniteRows, Row
  <2>2. op.at \in Nat BY DEF QueueOp
  <2>. QED BY <2>1, <2>2
<1>8. Shows(Flat(R, d2), ReplayStep(s, op)) BY <1>1, <1>4, <1>6, <1>7, ShowsStep
<1>9. ASSUME NEW r \in Flat(R, d2) PROVE r.changed_at <= op.at
  <2>1. op.at \in Nat BY DEF QueueOp
  <2>2. CASE r \in F
    <3>1. r.changed_at < op.at /\ r.changed_at \in Nat BY <1>4, <1>7, <2>2 DEF FiniteRows, Row
    <3>. QED BY <2>1, <3>1
  <2>3. CASE r = RowAfter(op) BY <2>1, <2>3 DEF RowAfter
  <2>. QED BY <1>6, <2>2, <2>3 DEF RowStep
<1>10. ReplayStep(s, op) = Replay(c, Append(q, op)) BY <1>2, ReplayAppend
<1>. QED BY <1>2, <1>6, <1>8, <1>9, <1>10 DEF Follows, d2

(* The queue is flushed: its rows show what was shown.                     *)
LEMMA FollowsFlush ==
  ASSUME NEW R \in FiniteRows, NEW q \in Seq(QueueOp), NEW s, NEW t, Follows(R, q, s, t)
  PROVE  Follows(Flat(R, get_sync_data(q)), <<>>, s, t)
<1> DEFINE F == Flat(R, get_sync_data(q))
<1>1. Shows(F, s) /\ \A r \in F : r.changed_at <= t BY DEF Follows
<1> HIDE DEF F
<1>2. s \in EditState BY <1>1 DEF Shows
<1>3. get_sync_data(<<>>) = NoSyncData /\ Flat(F, NoSyncData) = F /\ Tidy(F, NoSyncData)
      /\ Replay(s, <<>>) = s
  BY <1>2, EmptyQueue
<1>. QED BY <1>1, <1>2, <1>3 DEF Follows, F

(* A list is emptied once the queue is flushed.                            *)
LEMMA FollowsDelete ==
  ASSUME NEW R \in FiniteRows, NEW s, NEW t, Follows(R, <<>>, s, t), NEW st \in Status
  PROVE  Follows(delete_bulk(R, st), <<>>, Emptied(s, st), t)
<1> DEFINE K == delete_bulk(R, st)
           e == Emptied(s, st)
<1>1. \A X : get_sync_data(<<>>) = NoSyncData /\ Flat(X, NoSyncData) = X /\ Tidy(X, NoSyncData)
  BY EmptyQueue
<1>2. Shows(R, s) /\ \A r \in R : r.changed_at <= t BY <1>1 DEF Follows
<1>3. Shows(K, e) BY <1>2, ShowsDelete
<1>4. e \in EditState BY <1>3 DEF Shows
<1>5. Replay(e, <<>>) = e BY <1>4, EmptyQueue
<1>6. \A r \in K : r.changed_at <= t BY <1>2 DEF delete_bulk
<1> HIDE DEF K, e
<1>7. Follows(K, <<>>, e, t) BY <1>1, <1>3, <1>4, <1>5, <1>6 DEF Follows
<1>. QED BY <1>7 DEF K, e

(* Every read of the rows, with the queue replayed over it, is what the    *)
(* board shows.                                                            *)
LEMMA FollowsRead ==
  ASSUME NEW R \in FiniteRows, NEW q, NEW s, NEW t, Follows(R, q, s, t), NEW c \in read(R)
  PROVE  Replay(c, q) = s
<1>1. PICK x \in EditState : Shows(R, x) /\ s = Replay(x, q) BY DEF Follows
<1>2. c = x BY <1>1, OnlyRead
<1>. QED BY <1>1, <1>2

(* What Contents computes is what the board shows.                         *)
LEMMA FollowsContents ==
  ASSUME NEW rows, NEW ce, NEW ue, Settled(rows, ce, ue) \in FiniteRows,
         NEW q, NEW s, NEW t, Follows(Settled(rows, ce, ue), q, s, t)
  PROVE  Contents(rows, ce, ue, q) = s
<1> DEFINE c == CHOOSE x \in read(Settled(rows, ce, ue)) : TRUE
<1>1. c \in read(Settled(rows, ce, ue)) BY ReadLists
<1>. QED BY <1>1, FollowsRead DEF Contents

----------------------------------------------------------------------------
(* The steps of the room task and of the edit task.                        *)

(* The rows once the channels are empty.                                   *)
Base == Settled(edits, create_edit, update_edit)

(* One editor at a time: the rows and the queue agree with what is shown,  *)
(* the chunks of one flush do not meet, and the operation a flush delays   *)
(* still has an effect.                                                    *)
InStep ==
  /\ Follows(Base, queue, contents, now)
  /\ ChunkIds(create_edit) \cap ChunkIds(update_edit) = {}
  /\ pc = "flush" /\ todo.do = "queue" => Effective(contents, todo)
  /\ pc = "read" => todo.view \in Views
  /\ pc = "delete" => queue = <<>>

(* A board without failing statements and kills, on a clock that moves.    *)
Healthy == ~DbMayFail /\ ~MayCrash /\ 0 \notin ClockSteps

(* The rows are finite, and outside a flush they are settled.              *)
LEMMA BaseType ==
  ASSUME BoardInv
  PROVE  /\ Base \in FiniteRows /\ edits \in FiniteRows
         /\ pc # "flush" => Base = edits
<1>1. /\ edits \in FiniteRows /\ create_edit \in Seq(Chunk) /\ update_edit \in Seq(Chunk)
  BY DEF BoardInv, TypeOK, FiniteRows
<1>2. Base \in FiniteRows BY <1>1, SettledRows DEF Base
<1>3. pc # "flush" => Base = edits BY SettledEmpty DEF Base, BoardInv, ChannelsQuiet
<1>. QED BY <1>1, <1>2, <1>3

(* What the board shows follows from the rows and the queue.               *)
LEMMA ShownFollows ==
  ASSUME BoardInv', Shown', NEW s, Follows(Base', queue', s, now')
  PROVE  contents' = s
<1>1. Settled(edits', create_edit', update_edit') \in FiniteRows
  <2>1. /\ edits' \in FiniteRows /\ create_edit' \in Seq(Chunk) /\ update_edit' \in Seq(Chunk)
    BY DEF BoardInv, TypeOK, FiniteRows
  <2>. QED BY <2>1, SettledRows
<1>2. Contents(edits', create_edit', update_edit', queue') = s
  BY <1>1, FollowsContents DEF Base
<1>. QED BY <1>2 DEF Shown

(* Nothing that is shown changes.                                          *)
LEMMA StillShown ==
  ASSUME BoardInv', Shown', InStep, Base' = Base, queue' = queue, now' = now
  PROVE  contents' = contents /\ Follows(Base', queue', contents', now')
<1>1. Follows(Base', queue', contents, now') BY DEF InStep
<1>2. contents' = contents BY <1>1, ShownFollows
<1>. QED BY <1>1, <1>2

(* A flush begins.                                                         *)
LEMMA FlushInStep ==
  ASSUME BoardInv, BoardInv', Shown', InStep, pc = "recv", NEW then, Flush(then),
         UNCHANGED <<edits, now>>, then.do = "queue" => Effective(contents, then)
  PROVE  InStep' /\ contents' = contents
<1> DEFINE d == get_sync_data(queue)
<1>1. queue \in Seq(QueueOp) /\ d \in SyncData BY SyncDataType DEF BoardInv, TypeOK
<1>2. Base = edits /\ edits \in FiniteRows BY BaseType
<1>3. Tidy(edits, d) /\ Follows(edits, queue, contents, now) BY <1>2 DEF InStep, Follows
<1>4. /\ create_edit' = CreateChunks(d) /\ update_edit' = UpdateChunks(d)
      /\ queue' = <<>> /\ pc' = "flush" /\ todo' = then
  BY DEF Flush
<1>5. Base' = Flat(edits, d)
  <2> HIDE DEF d
  <2>1. Base' = Settled(edits, CreateChunks(d), UpdateChunks(d)) BY <1>4 DEF Base
  <2>. QED BY <1>1, <1>2, <1>3, <2>1, SettledFlat
<1>6. Follows(Base', queue', contents, now')
  BY <1>1, <1>2, <1>3, <1>4, <1>5, FollowsFlush
<1>7. contents' = contents BY <1>6, ShownFollows
<1>8. ChunkIds(create_edit') \cap ChunkIds(update_edit') = {}
  <2> HIDE DEF d
  <2>1. /\ ChunkIds(CreateChunks(d)) = Created(d)
        /\ ChunkIds(UpdateChunks(d)) = IdsOf(d.set_current) \cup IdsOf(d.set_undone)
    BY <1>1, FlushChunks
  <2>. QED BY <1>3, <1>4, <2>1 DEF Tidy
<1>9. pc' = "flush" /\ todo'.do = "queue" => Effective(contents', todo') BY <1>4, <1>7
<1>. QED BY <1>4, <1>6, <1>7, <1>8, <1>9 DEF InStep

(* An operation with an effect is appended to the queue.                   *)
LEMMA AppendInStep ==
  ASSUME BoardInv, BoardInv', Shown', InStep, Healthy, NEW kind \in OpKind, NEW id \in Edit,
         Effective(contents, [kind |-> kind, id |-> id]),
         now' \in {now + d : d \in ClockSteps}, queue' = Stamped(kind, id, now'),
         UNCHANGED <<edits, create_edit, update_edit>>, pc' = "recv"
  PROVE  /\ InStep'
         /\ contents' = ReplayStep(contents, [kind |-> kind, id |-> id, at |-> now'])
<1> DEFINE op == [kind |-> kind, id |-> id, at |-> now']
<1>1. queue \in Seq(QueueOp) /\ now \in Nat /\ Base \in FiniteRows
  BY BaseType DEF BoardInv, TypeOK
<1>2. now' \in Nat /\ now < now'
  <2>1. PICK d \in ClockSteps : now' = now + d OBVIOUS
  <2>2. d \in Nat /\ d # 0 BY BoardAssumption DEF Healthy
  <2>. QED BY <1>1, <2>1, <2>2
<1>3. op \in QueueOp /\ op.at = now' BY <1>2 DEF QueueOp
<1>4. Effective(contents, op) BY DEF Effective
<1>5. queue' = Append(queue, op) BY DEF Stamped
<1>6. Base' = Base BY DEF Base
<1> HIDE DEF op
<1>7. Follows(Base', queue', ReplayStep(contents, op), now')
  BY <1>1, <1>2, <1>3, <1>4, <1>5, <1>6, FollowsAppend DEF InStep
<1>8. contents' = ReplayStep(contents, op) BY <1>7, ShownFollows
<1>. QED BY <1>7, <1>8 DEF InStep, op

(* An operation with an effect is queued, at once or after a flush.        *)
LEMMA EnqueueInStep ==
  ASSUME BoardInv, BoardInv', Shown', InStep, Healthy, NEW kind \in OpKind, NEW id \in Edit,
         Effective(contents, [kind |-> kind, id |-> id]), Enqueue(kind, id)
  PROVE  /\ InStep' /\ reply' = reply
         /\ \/ contents' = contents
            \/ contents' = ReplayStep(contents, [kind |-> kind, id |-> id, at |-> now'])
<1> DEFINE then == [do |-> "queue", kind |-> kind, id |-> id]
<1>1. pc = "recv" /\ UNCHANGED <<edits, reply>> BY DEF Enqueue
<1>2. Effective(contents, then) BY DEF Effective
<1>3. CASE Flush(then) /\ UNCHANGED now
  <2> HIDE DEF then
  <2>. QED BY <1>1, <1>2, <1>3, FlushInStep
<1>4. CASE /\ now' \in {now + d : d \in ClockSteps}
           /\ queue' = Stamped(kind, id, now')
           /\ UNCHANGED <<db_cache, create_edit, update_edit, pc, todo>>
  BY <1>1, <1>4, AppendInStep
<1>. QED BY <1>3, <1>4 DEF Enqueue

(* The flush ends: the operation it delayed is appended.                   *)
LEMMA FlushDoneInStep ==
  ASSUME BoardInv, BoardInv', Shown', InStep, Healthy, FlushDone
  PROVE  /\ InStep' /\ reply' = reply
         /\ \/ contents' = contents
            \/ \E op \in QueueOp : Effective(contents, op) /\ contents' = ReplayStep(contents, op)
<1>1. /\ pc = "flush" /\ UNCHANGED <<edits, create_edit, update_edit, reply>> /\ Base' = Base
  BY DEF FlushDone, dbVars, Base
<1>2. CASE /\ todo.do = "queue"
           /\ now' \in {now + d : d \in ClockSteps}
           /\ queue' = Stamped(todo.kind, todo.id, now')
           /\ pc' = "recv" /\ todo' = Nothing
  <2> DEFINE k == todo.kind
             e == todo.id
             op == [kind |-> k, id |-> e, at |-> now']
  <2>1. k \in OpKind /\ e \in Edit BY <1>2 DEF BoardInv, TypeOK, Todo, Nothing
  <2>2. Effective(contents, [kind |-> k, id |-> e]) BY <1>1, <1>2 DEF InStep, Effective
  <2>3. Effective(contents, op) BY <2>2 DEF Effective
  <2>4. now' \in Nat BY DEF BoardInv, TypeOK
  <2>5. op \in QueueOp BY <2>1, <2>4 DEF QueueOp
  <2> HIDE DEF op
  <2>6. InStep' /\ contents' = ReplayStep(contents, op)
    BY <1>1, <1>2, <2>1, <2>2, AppendInStep DEF op
  <2>. QED BY <1>1, <2>3, <2>5, <2>6
<1>3. CASE todo.do = "delete" /\ pc' = "delete" /\ UNCHANGED <<queue, now, todo>>
  <2>1. queue' = <<>> BY <1>1, <1>3 DEF BoardInv, Stages
  <2>. QED BY <1>1, <1>3, <2>1, StillShown DEF InStep
<1>4. CASE todo.do = "stop" /\ pc' = "stopped" /\ todo' = Nothing /\ UNCHANGED <<queue, now>>
  BY <1>1, <1>4, StillShown DEF InStep
<1>. QED BY <1>2, <1>3, <1>4 DEF FlushDone

(* A statement of the edit task.                                           *)
LEMMA EditTaskInStep ==
  ASSUME BoardInv, BoardInv', Shown', Places, InStep, Healthy, EditTask
  PROVE  /\ InStep'
         /\ \/ contents' = contents /\ reply' = reply
            \/ \E st \in Status : contents' = Emptied(contents, st) /\ reply' = reply
            \/ \E v \in Views : contents' = contents /\ reply' = PullData(contents, v)
<1>0. /\ create_edit \in Seq(Chunk) /\ update_edit \in Seq(Chunk) /\ edits \in FiniteRows
      /\ Len(create_edit) <= 2 /\ Len(update_edit) <= 2
      /\ ChunkIds(create_edit) \cap ChunkIds(update_edit) = {}
  BY DEF BoardInv, TypeOK, FiniteRows, Places, SmallFlush, Small, InStep
<1>1. CASE EditTaskCreate
  <2>1. /\ create_edit # <<>> /\ edits' = create(edits, Head(create_edit))
        /\ create_edit' = Tail(create_edit)
        /\ UNCHANGED <<queue, update_edit, pc, todo, now, reply>>
    BY <1>1 DEF EditTaskCreate, Healthy, boardVars, taskVars
  <2>2. Base' = Base BY <1>0, <2>1, SettledCreate DEF Base
  <2>3. contents' = contents /\ Follows(Base', queue', contents', now') BY <2>1, <2>2, StillShown
  <2>4. ChunkIds(create_edit') \subseteq ChunkIds(create_edit) BY <1>0, <2>1, TailChunks
  <2>. QED BY <1>0, <2>1, <2>3, <2>4 DEF InStep
<1>2. CASE EditTaskUpdate
  <2>1. /\ update_edit # <<>> /\ edits' = set_status(edits, Head(update_edit))
        /\ update_edit' = Tail(update_edit)
        /\ UNCHANGED <<queue, create_edit, pc, todo, now, reply>>
    BY <1>2 DEF EditTaskUpdate, Healthy, boardVars, taskVars
  <2>2. Base' = Base BY <1>0, <2>1, SettledUpdate DEF Base
  <2>3. contents' = contents /\ Follows(Base', queue', contents', now') BY <2>1, <2>2, StillShown
  <2>4. ChunkIds(update_edit') \subseteq ChunkIds(update_edit) BY <1>0, <2>1, TailChunks
  <2>. QED BY <1>0, <2>1, <2>3, <2>4 DEF InStep
<1>3. CASE EditTaskDelete
  <2>1. /\ pc = "delete" /\ edits' = delete_bulk(edits, todo.status) /\ pc' = "recv"
        /\ UNCHANGED <<queue, create_edit, update_edit, now, reply>>
    BY <1>3 DEF EditTaskDelete, Healthy, boardVars
  <2>2. todo.status \in Status
    <3>1. todo.do = "delete" BY <2>1 DEF BoardInv, Stages
    <3>. QED BY <3>1 DEF BoardInv, TypeOK, Todo, Nothing
  <2>3. queue = <<>> /\ Base = edits BY <2>1, BaseType DEF InStep
  <2>4. create_edit = <<>> /\ update_edit = <<>> BY <2>1 DEF BoardInv, ChannelsQuiet
  <2>5. Base' = delete_bulk(edits, todo.status)
    BY <2>1, <2>4, SettledEmpty DEF Base
  <2>6. Follows(Base', queue', Emptied(contents, todo.status), now')
    BY <1>0, <2>1, <2>2, <2>3, <2>5, FollowsDelete DEF InStep
  <2>7. contents' = Emptied(contents, todo.status) BY <2>6, ShownFollows
  <2>. QED BY <1>0, <2>1, <2>2, <2>6, <2>7 DEF InStep
<1>4. CASE EditTaskRead
  <2>1. /\ pc = "read" /\ db_cache' \in read(edits)
        /\ reply' = PullData(Replay(db_cache', queue), todo.view) /\ pc' = "recv"
        /\ UNCHANGED <<queue, edits, create_edit, update_edit, now>>
    BY <1>4 DEF EditTaskRead, Healthy
  <2>2. Base' = Base /\ Base = edits BY <2>1, BaseType DEF Base
  <2>3. contents' = contents /\ Follows(Base', queue', contents', now') BY <2>1, <2>2, StillShown
  <2>4. Replay(db_cache', queue) = contents BY <1>0, <2>1, <2>2, FollowsRead DEF InStep
  <2>5. todo.view \in Views BY <2>1 DEF InStep
  <2>. QED BY <1>0, <2>1, <2>3, <2>4, <2>5 DEF InStep
<1>. QED BY <1>1, <1>2, <1>3, <1>4 DEF EditTask

(* A pull is answered from the cache.                                      *)
LEMMA PullInStep ==
  ASSUME BoardInv, BoardInv', Shown', InStep, NEW v \in Views, Pull(v)
  PROVE  /\ InStep' /\ contents' = contents
         /\ reply' = reply \/ reply' = PullData(contents, v)
<1>1. /\ pc = "recv" /\ UNCHANGED <<queue, db_cache, edits, create_edit, update_edit, now>>
      /\ Base' = Base /\ Base = edits /\ edits \in FiniteRows
  BY BaseType DEF Pull, boardVars, dbVars, Base
<1>2. contents' = contents /\ Follows(Base', queue', contents', now') BY <1>1, StillShown
<1>3. CASE /\ db_cache # NoCache /\ reply' = PullData(Replay(db_cache, queue), v)
           /\ UNCHANGED taskVars
  <2>1. db_cache \in read(edits) BY <1>3 DEF BoardInv, CacheCoherent
  <2>2. Replay(db_cache, queue) = contents BY <1>1, <2>1, FollowsRead DEF InStep
  <2>. QED BY <1>1, <1>2, <1>3, <2>2 DEF InStep, taskVars
<1>4. CASE /\ db_cache = NoCache /\ pc' = "read" /\ todo' = [do |-> "pull", view |-> v]
           /\ UNCHANGED reply
  BY <1>1, <1>2, <1>4 DEF InStep
<1>. QED BY <1>3, <1>4 DEF Pull

----------------------------------------------------------------------------
(* The refinement.                                                         *)

(* An operation that has an effect is a step of the plain board.           *)
LEMMA PlainOperation ==
  ASSUME contents \in EditState, NEW op \in QueueOp, Effective(contents, op),
         contents' = ReplayStep(contents, op), reply' = reply
  PROVE  Plain!Next
<1> DEFINE e == op.id
           c == contents.current
           u == contents.undone
<1>1. e \in Edit /\ c \in Seq(Edit) /\ u \in Seq(Edit) /\ op.kind \in {"push", "undo", "redo"}
  BY DEF QueueOp, OpKind, EditState
<1>2. CASE op.kind = "push"
  <2>1. contents'.current = Append(c, e) /\ contents'.undone = u BY <1>2 DEF ReplayStep
  <2>2. e \notin ToSet(c) \cup ToSet(u) BY <1>2 DEF Effective, Listed
  <2>3. Plain!Push(e) BY <2>1, <2>2 DEF Plain!Push, Plain!ToSet, ToSet
  <2>. QED BY <1>1, <2>3 DEF Plain!Next
<1>3. CASE op.kind = "undo"
  <2>1. e \in ToSet(c) BY <1>3 DEF Effective
  <2>2. contents'.current = RemoveLast(c, e) /\ contents'.undone = Append(u, e)
    BY <1>3, <2>1 DEF ReplayStep
  <2>3. PICK k \in 1 .. Len(c) : c[k] = e /\ RemoveLast(c, e) = RemoveAt(c, k)
    BY <1>1, <2>1, RemoveLastAt
  <2>4. k \in DOMAIN c BY <1>1
  <2>5. Plain!Undo(e) BY <2>2, <2>3, <2>4 DEF Plain!Undo, Plain!RemoveAt, RemoveAt
  <2>. QED BY <1>1, <2>5 DEF Plain!Next
<1>4. CASE op.kind = "redo"
  <2>1. e \in ToSet(u) BY <1>4 DEF Effective
  <2>2. contents'.current = Append(c, e) /\ contents'.undone = RemoveLast(u, e)
    BY <1>4, <2>1 DEF ReplayStep
  <2>3. PICK k \in 1 .. Len(u) : u[k] = e /\ RemoveLast(u, e) = RemoveAt(u, k)
    BY <1>1, <2>1, RemoveLastAt
  <2>4. k \in DOMAIN u BY <1>1
  <2>5. Plain!Redo(e) BY <2>2, <2>3, <2>4 DEF Plain!Redo, Plain!RemoveAt, RemoveAt
  <2>. QED BY <1>1, <2>5 DEF Plain!Next
<1>. QED BY <1>1, <1>2, <1>3, <1>4

(* Emptying a list is one, too,                                            *)
LEMMA PlainEmpty ==
  ASSUME NEW st \in Status, contents' = Emptied(contents, st), reply' = reply
  PROVE  Plain!Next
<1>1. CASE st = "current"
  BY <1>1 DEF Emptied, Plain!Next, Plain!EmptyCurrent
<1>2. CASE st = "undone"
  BY <1>2 DEF Emptied, Plain!Next, Plain!EmptyUndone
<1>. QED BY <1>1, <1>2 DEF Status

(* and so is an answer.                                                    *)
LEMMA PlainPull ==
  ASSUME contents \in EditState, NEW v \in Views, contents' = contents,
         reply' = PullData(contents, v)
  PROVE  Plain!Next
<1>1. Plain!Answers(reply', v) BY PullAnswers
<1>2. Plain!Pull(v) BY <1>1 DEF Plain!Pull
<1>. QED BY <1>2 DEF Plain!Next

(* The inductive invariant of a board with one editor at a time.           *)
EditorInv == ViewInv /\ InStep

(* An empty board is in step, and the plain board starts empty.            *)
LEMMA EditorInitInv ==
  ASSUME ViewInit
  PROVE  EditorInv /\ Plain!Init
<1>1. ViewInv BY ViewInitInv
<1>2. /\ edits = {} /\ queue = <<>> /\ create_edit = <<>> /\ update_edit = <<>> /\ now = 0
      /\ contents = NoEdits /\ pc = "recv"
      /\ reply = PullData(NoEdits, [current |-> {}, undone |-> {}])
  BY DEF ViewInit, Init
<1>3. /\ NoEdits \in EditState /\ NoEdits.current = <<>> /\ NoEdits.undone = <<>>
  BY DEF NoEdits, EditState
<1>4. Base = {} BY <1>2, SettledEmpty DEF Base
<1>5. Shows({}, NoEdits)
  <2>1. ToSet(<<>>) = {} /\ Distinct(<<>>) /\ InOrder(<<>>, {}) BY DEF ToSet, Distinct, InOrder
  <2>2. IdsIn({}, "current") = {} /\ IdsIn({}, "undone") = {} BY DEF IdsIn, RowIds
  <2>. QED BY <1>3, <2>1, <2>2 DEF Shows, DistinctState, OneRowEach
<1>6. Follows({}, <<>>, NoEdits, 0)
  <2>1. /\ get_sync_data(<<>>) = NoSyncData /\ Flat({}, NoSyncData) = {} /\ Tidy({}, NoSyncData)
        /\ Replay(NoEdits, <<>>) = NoEdits
    BY <1>3, EmptyQueue
  <2>. QED BY <1>3, <1>5, <2>1 DEF Follows
<1>7. InStep BY <1>2, <1>4, <1>6, NoChunks DEF InStep
<1>8. Plain!Init
  <2> DEFINE none == [current |-> {}, undone |-> {}]
  <2>1. Plain!Answers(PullData(contents, none), none) BY <1>2, <1>3, PullAnswers
  <2>. QED BY <1>2, <1>3, <2>1 DEF Plain!Init
<1>. QED BY <1>1, <1>7, <1>8 DEF EditorInv

(* A step of the board with one editor is a step of the board.             *)
LEMMA EffectiveIsView ==
  ASSUME contents \in EditState, [EffectiveNext]_viewVars
  PROVE  [ViewNext]_viewVars
<1>1. ToSet(contents.current) \subseteq Edit /\ ToSet(contents.undone) \subseteq Edit
  BY DEF EditState, ToSet
<1>. QED BY <1>1 DEF EffectiveNext, ViewNext, Next

(* A board with one editor at a time, step by step: it stays in step, and  *)
(* does what the plain board does or nothing.                              *)
LEMMA EditorStep ==
  ASSUME EditorInv, Healthy, [EffectiveNext]_viewVars
  PROVE  EditorInv' /\ [Plain!Next]_(Plain!vars)
<1>0. BoardInv /\ Places /\ Shown /\ InStep /\ ViewInv BY DEF EditorInv, ViewInv, Places
<1>a. /\ contents \in EditState /\ InEither(contents) = Held
  BY <1>0, ShownListed
<1>b. ViewInv'
  <2>1. [ViewNext]_viewVars BY <1>a, EffectiveIsView
  <2>. QED BY <1>0, <2>1, ViewNextInv
<1>c. BoardInv' /\ Shown' BY <1>b DEF ViewInv
<1> DEFINE Still == contents' = contents /\ reply' = reply
           Does == \E op \in QueueOp : /\ Effective(contents, op) /\ reply' = reply
                                       /\ contents' = ReplayStep(contents, op)
           Goal == InStep' /\ (Still \/ Plain!Next)
<1>d. ASSUME Does PROVE Plain!Next BY <1>a, <1>d, PlainOperation
<1>1. ASSUME NEW kind \in OpKind, NEW id \in Edit,
             Effective(contents, [kind |-> kind, id |-> id]), Enqueue(kind, id)
      PROVE  Goal
  <2> DEFINE op == [kind |-> kind, id |-> id, at |-> now']
  <2>1. op \in QueueOp BY <1>c DEF BoardInv, TypeOK, QueueOp
  <2>2. Effective(contents, op) BY <1>1 DEF Effective
  <2>3. InStep' /\ reply' = reply /\ (contents' = contents \/ contents' = ReplayStep(contents, op))
    BY <1>0, <1>c, <1>1, EnqueueInStep
  <2> HIDE DEF op
  <2>. QED BY <1>d, <2>1, <2>2, <2>3
<1>2. ASSUME NEW e \in Edit, Push(e) PROVE Goal
  <2>1. e \notin known /\ Enqueue("push", e) /\ "push" \in OpKind BY <1>2 DEF Push, OpKind
  <2>2. Held \subseteq known BY <1>0 DEF Places, OnePlace, Located, Held
  <2>3. Effective(contents, [kind |-> "push", id |-> e])
    BY <1>a, <2>1, <2>2 DEF Effective, InEither, Listed
  <2> HIDE DEF Goal
  <2>. QED BY <1>1, <2>1, <2>3
<1>3. ASSUME NEW e \in ToSet(contents.current), Undo(e) PROVE Goal
  <2>1. e \in Edit BY <1>a DEF EditState, ToSet
  <2>2. Enqueue("undo", e) /\ "undo" \in OpKind BY <1>3 DEF Undo, OpKind
  <2>3. Effective(contents, [kind |-> "undo", id |-> e]) BY DEF Effective
  <2> HIDE DEF Goal
  <2>. QED BY <1>1, <2>1, <2>2, <2>3
<1>4. ASSUME NEW e \in ToSet(contents.undone), Redo(e) PROVE Goal
  <2>1. e \in Edit BY <1>a DEF EditState, ToSet
  <2>2. Enqueue("redo", e) /\ "redo" \in OpKind BY <1>4 DEF Redo, OpKind
  <2>3. Effective(contents, [kind |-> "redo", id |-> e]) BY DEF Effective
  <2> HIDE DEF Goal
  <2>. QED BY <1>1, <2>1, <2>2, <2>3
<1>5. ASSUME NEW st \in Status, Empty(st) PROVE Goal
  <2> DEFINE then == [do |-> "delete", status |-> st]
  <2>1. pc = "recv" /\ Flush(then) /\ UNCHANGED <<edits, now, reply>> BY <1>5 DEF Empty
  <2>2. then.do # "queue" OBVIOUS
  <2> HIDE DEF then
  <2>. QED BY <1>0, <1>c, <2>1, <2>2, FlushInStep
<1>6. ASSUME Save PROVE Goal
  <2> DEFINE then == [do |-> "stop"]
  <2>1. pc = "recv" /\ Flush(then) /\ UNCHANGED <<edits, now, reply>> BY <1>6 DEF Save
  <2>2. then.do # "queue" OBVIOUS
  <2> HIDE DEF then
  <2>3. InStep' /\ contents' = contents BY <1>0, <1>c, <2>1, <2>2, FlushInStep
  <2>. QED BY <2>1, <2>3
<1>7. ASSUME NEW v \in Views, Pull(v) PROVE Goal
  <2>1. /\ InStep' /\ contents' = contents
        /\ reply' = reply \/ reply' = PullData(contents, v)
    BY <1>0, <1>c, <1>7, PullInStep
  <2>. QED BY <1>a, <2>1, PlainPull
<1>8. ASSUME FlushDone PROVE Goal
  <2>1. InStep' /\ (Still \/ Does) BY <1>0, <1>c, <1>8, FlushDoneInStep
  <2>. QED BY <1>d, <2>1
<1>9. ASSUME TryExpireCache PROVE Goal
  <2>1. UNCHANGED <<queue, edits, create_edit, update_edit, pc, todo, now, reply>> /\ Base' = Base
    BY <1>9 DEF TryExpireCache, dbVars, taskVars, Base
  <2>. QED BY <1>0, <1>c, <2>1, StillShown DEF InStep
<1>10. ASSUME Load PROVE Goal
  <2>1. /\ UNCHANGED <<edits, create_edit, update_edit, now, reply>> /\ Base' = Base
        /\ queue' = <<>> /\ pc' = "recv" /\ queue = <<>>
    BY <1>0, <1>10 DEF Load, dbVars, Base, Places, StoppedEmpty
  <2>. QED BY <1>0, <1>c, <2>1, StillShown DEF InStep
<1>11. ASSUME EditTask PROVE Goal
  <2>1. /\ InStep'
        /\ \/ Still
           \/ \E st \in Status : contents' = Emptied(contents, st) /\ reply' = reply
           \/ \E v \in Views : contents' = contents /\ reply' = PullData(contents, v)
    BY <1>0, <1>c, <1>11, EditTaskInStep
  <2>. QED BY <1>a, <2>1, PlainEmpty, PlainPull
<1>12. ASSUME UNCHANGED viewVars PROVE Goal
  <2>1. /\ UNCHANGED <<queue, edits, create_edit, update_edit, pc, todo, now, reply>>
        /\ Base' = Base /\ contents' = contents
    BY <1>12 DEF viewVars, vars, Base
  <2>2. InStep' BY <1>0, <1>c, <2>1, StillShown DEF InStep
  <2>. QED BY <2>1, <2>2
<1>13. Goal
  <2> HIDE DEF Goal
  <2>1. ~Crash BY DEF Crash, Healthy
  <2>. QED BY <1>2, <1>3, <1>4, <1>5, <1>6, <1>7, <1>8, <1>9, <1>10, <1>11, <1>12, <2>1
       DEF EffectiveNext, Housekeeping
<1>14. Still => UNCHANGED Plain!vars BY DEF Plain!vars
<1>. QED BY <1>b, <1>13, <1>14 DEF EditorInv

(* One editor at a time, statements that succeed, no kill, a clock that    *)
(* moves between two operations: the queue, its flushes in any order of    *)
(* their chunks, the cached reads, the saves and the reloads are not seen. *)
(* Whatever the edits, the capacity of the queue and the clients' views,   *)
(* the room is the plain board of SharedBoard.                             *)
THEOREM RoomIsSharedBoard ==
  ASSUME Healthy
  PROVE  EffectiveSpec => ImplementsSharedBoard
<1>1. ViewInit => EditorInv /\ Plain!Init BY EditorInitInv
<1>2. EditorInv /\ [EffectiveNext]_viewVars => EditorInv' /\ [Plain!Next]_(Plain!vars)
  BY EditorStep
<1>. QED BY <1>1, <1>2, PTL DEF EffectiveSpec, ImplementsSharedBoard, Plain!Spec
=============================================================================
