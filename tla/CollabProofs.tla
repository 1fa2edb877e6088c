---------------------------- MODULE CollabProofs ----------------------------
(***************************************************************************)
(* The browsers of a board and their room, for any number of clients and   *)
(* edits, connections that break at any moment, and any number of undos.   *)
(*                                                                         *)
(* WiresOK is inductive whoever edits: the types, and what the state of a  *)
(* connection says of the messages on it.  A page asks once, with an empty *)
(* history, and is covered by the dialog until the answer is handled; a    *)
(* client that left has a quit behind all it has sent.                     *)
(*                                                                         *)
(* With one editor InStep is, until the editor does what the room cannot   *)
(* know of, and all the rest follows.  The editor's history is the room's  *)
(* after the messages on their way to the room (Chain, Leads), but for the *)
(* undone edits a selection gave up (Ends); so are those of the pages that *)
(* watch, the other way: the room's lists are theirs after the messages on *)
(* their way to them (FollowsAt), or those of the answer after what is on  *)
(* its way behind it (AnswerAt).  A page that has news before its answer   *)
(* keeps them in front of what the answer brings (the jc and ju of Shows): *)
(* such a page has all of the room's edits, and others first.  A list that *)
(* can be drawn from its beginning (Drawable) makes no handler throw.      *)
(***************************************************************************)
EXTENDS Collab, FiniteSetTheorems, NaturalsInduction, WellFoundedInduction, SequenceTheorems, TLAPS

----------------------------------------------------------------------------
(* Induction on numbers, stated with sets so that it can be cited.         *)

(* Every nonempty set of numbers has a least element.                      *)
LEMMA LeastNumber ==
  ASSUME NEW T \in SUBSET Nat, T # {}
  PROVE  \E m \in T : \A n \in T : m <= n
<1> DEFINE R == {ss \in Nat \X Nat : ss[1] < ss[2]}
<1>1. IsWellFoundedOn(R, Nat)
  BY NatLessThanWellFounded, Zenon DEF OpToRel
<1>2. PICK x \in T : \A y \in T : ~ (<<y, x>> \in R)
  <2> HIDE DEF R
  <2>. QED BY <1>1, WFMin, Zenon
<1>3. \A y \in T : x <= y
  <2> TAKE y \in T
  <2>1. ~ (<<y, x>> \in R) BY <1>2
  <2>2. x \in Nat /\ y \in Nat OBVIOUS
  <2>. QED BY <2>1, <2>2
<1>. QED BY <1>3

(* Induction up to N.                                                      *)
LEMMA InductionUpTo ==
  ASSUME NEW N \in Nat, NEW T, 0 \in T,
         \A i \in 1..N : i - 1 \in T => i \in T
  PROVE  \A i \in 0..N : i \in T
<1> DEFINE B == {i \in 0..N : i \notin T}
<1> SUFFICES ASSUME B # {} PROVE FALSE
  OBVIOUS
<1>1. B \in SUBSET Nat OBVIOUS
<1>2. PICK m \in B : \A n \in B : m <= n
  <2> HIDE DEF B
  <2>. QED BY <1>1, LeastNumber
<1>3. m \in 1..N /\ m - 1 \in 0..N
  OBVIOUS
<1>4. m - 1 \notin B
  BY <1>2, <1>3
<1>. QED BY <1>3, <1>4

(* A nonempty set of indices of a sequence has a greatest element.         *)
LEMMA GreatestIndex ==
  ASSUME NEW n \in Nat, NEW I \in SUBSET (1..n), I # {}
  PROVE  Max(I) \in I
<1> DEFINE T == {k \in 0..n : n - k \in I}
<1>1. T \in SUBSET Nat /\ T # {}
  <2>1. PICK i \in I : TRUE OBVIOUS
  <2>2. n - i \in 0..n /\ n - (n - i) = i OBVIOUS
  <2>3. n - i \in T BY <2>2
  <2>4. T \in SUBSET Nat OBVIOUS
  <2> HIDE DEF T
  <2>. QED BY <2>3, <2>4
<1>2. PICK m \in T : \A k \in T : m <= k
  <2> HIDE DEF T
  <2>. QED BY <1>1, LeastNumber
<1>3. n - m \in I /\ \A i \in I : n - m >= i
  <2>1. ASSUME NEW i \in I PROVE n - m >= i
    <3>1. n - i \in T OBVIOUS
    <3>2. m <= n - i BY <1>2, <3>1
    <3>. QED BY <3>2
  <2>. QED BY <2>1
<1>. QED BY <1>3 DEF Max

(* A loop over a sequence that keeps a state in S: the function of its     *)
(* intermediate states exists.                                             *)
Run(f, S, step, init, q) ==
  /\ f \in [0..Len(q) -> S]
  /\ f[0] = init
  /\ \A i \in 1..Len(q) : f[i] = step[q[i]][f[i-1]]

(* Every loop has such a function: induction on the length.                *)
LEMMA LoopStates ==
  ASSUME NEW S, NEW A, NEW step \in [A -> [S -> S]], NEW init \in S, NEW q \in Seq(A)
  PROVE  \E f : Run(f, S, step, init, q)
<1> DEFINE Good(n) == \E f \in [0..n -> S] :
            /\ f[0] = init
            /\ \A i \in 1..n : f[i] = step[q[i]][f[i-1]]
           T == {n \in 0..Len(q) : Good(n)}
<1>0. Len(q) \in Nat OBVIOUS
<1>1. 0 \in T
  <2> DEFINE g == [i \in 0..0 |-> init]
  <2>1. g \in [0..0 -> S] /\ g[0] = init /\ \A i \in 1..0 : g[i] = step[q[i]][g[i-1]]
    OBVIOUS
  <2>2. Good(0)
    <3> HIDE DEF g
    <3>. QED BY <2>1
  <2>. QED BY <2>2, <1>0
<1>2. ASSUME NEW n \in 1..Len(q), n - 1 \in T
      PROVE  n \in T
  <2>1. PICK f \in [0..(n-1) -> S] : /\ f[0] = init
                                  /\ \A i \in 1..(n-1) : f[i] = step[q[i]][f[i-1]]
    BY <1>2
  <2> DEFINE g == [i \in 0..n |-> IF i = n THEN step[q[n]][f[n-1]] ELSE f[i]]
  <2>2. q[n] \in A /\ f[n-1] \in S BY <1>0
  <2>3. g \in [0..n -> S] BY <2>2, <1>0
  <2>4. g[0] = init BY <2>1, <1>0
  <2>5. \A i \in 1..n : g[i] = step[q[i]][g[i-1]]
    BY <2>1, <1>0
  <2>6. Good(n)
     <3> HIDE DEF g
     <3>. QED BY <2>3, <2>4, <2>5
  <2>. QED BY <2>6
<1>3. \A i \in 0..Len(q) : i \in T
  <2> HIDE DEF T
  <2>. QED BY <1>0, <1>1, <1>2, InductionUpTo
<1>. QED BY <1>3, <1>0 DEF Run

----------------------------------------------------------------------------
(* The lists.                                                              *)

(* A nonempty list is its front and its last element.                      *)
LEMMA FrontAndLast ==
  ASSUME NEW S, NEW s \in Seq(S), s # <<>>
  PROVE  /\ Front(s) \in Seq(S) /\ Last(s) \in S /\ s = Append(Front(s), Last(s))
         /\ Len(s) \in Nat \ {0} /\ Len(Front(s)) = Len(s) - 1
         /\ \A i \in 1 .. Len(s) - 1 : Front(s)[i] = s[i]
<1>1. Len(s) \in Nat \ {0} /\ \A i \in 1 .. Len(s) : s[i] \in S BY EmptySeq, ElementOfSeq
<1>2. Last(s) \in S BY <1>1 DEF Last
<1>3. /\ Front(s) \in Seq(S) /\ Len(Front(s)) = Len(s) - 1
      /\ \A i \in 1 .. Len(s) - 1 : Front(s)[i] = s[i]
  <2> DEFINE n == Len(s) - 1
  <2>1. n \in Nat /\ \A i \in 1 .. n : s[i] \in S BY <1>1
  <2>2. 1 \in Int /\ n \in Int BY <2>1
  <2> HIDE DEF n
  <2>3. /\ SubSeq(s, 1, n) \in Seq(S)
        /\ Len(SubSeq(s, 1, n)) = IF 1 <= n THEN n - 1 + 1 ELSE 0
        /\ \A i \in 1 .. n - 1 + 1 : SubSeq(s, 1, n)[i] = s[1 + i - 1]
    BY <2>1, <2>2, SubSeqProperties
  <2>4. Len(SubSeq(s, 1, n)) = n BY <2>1, <2>3
  <2>5. \A i \in 1 .. n : SubSeq(s, 1, n)[i] = s[i]
    <3> TAKE i \in 1 .. n
    <3>1. i \in 1 .. n - 1 + 1 /\ 1 + i - 1 = i BY <2>1
    <3>. QED BY <2>3, <3>1
  <2>. QED BY <2>3, <2>4, <2>5 DEF Front, n
<1>4. s = Append(Front(s), Last(s))
  <2>1. /\ Append(Front(s), Last(s)) \in Seq(S)
        /\ Len(Append(Front(s), Last(s))) = Len(s)
        /\ \A i \in 1 .. Len(s) - 1 : Append(Front(s), Last(s))[i] = Front(s)[i]
        /\ Append(Front(s), Last(s))[Len(s)] = Last(s)
    BY <1>1, <1>2, <1>3, AppendProperties
  <2>2. \A i \in 1 .. Len(s) : Append(Front(s), Last(s))[i] = s[i]
    BY <1>1, <1>3, <2>1 DEF Last
  <2>. QED BY <2>1, <2>2, SeqEqual
<1>. QED BY <1>1, <1>2, <1>3, <1>4

(* ... and what was appended is its last.                                  *)
LEMMA FrontOfAppend ==
  ASSUME NEW S, NEW s \in Seq(S), NEW e \in S
  PROVE  Front(Append(s, e)) = s /\ Last(Append(s, e)) = e
<1> DEFINE t == Append(s, e)
<1>1. t \in Seq(S) /\ t # <<>> /\ t[Len(s) + 1] = e /\ Len(t) = Len(s) + 1
  BY AppendProperties
<1>2. Last(t) = e BY <1>1 DEF Last
<1> HIDE DEF t
<1>3. Front(t) \in Seq(S) /\ t = Append(Front(t), Last(t)) BY <1>1, FrontAndLast
<1>4. Append(Front(t), e) = Append(s, e) BY <1>2, <1>3 DEF t
<1>. QED BY <1>2, <1>3, <1>4, AppendInjective DEF t

(* The end of a list is not changed by what is in front of it.             *)
LEMMA EndOfList ==
  ASSUME NEW S, NEW j \in Seq(S), NEW s \in Seq(S), NEW e \in S
  PROVE  /\ j \o s \in Seq(S) /\ j \o Append(s, e) = Append(j \o s, e)
         /\ s # <<>> => /\ j \o s # <<>> /\ Last(j \o s) = Last(s)
                        /\ Front(j \o s) = j \o Front(s)
<1>1. ASSUME NEW q \in Seq(S), NEW x \in S
      PROVE  j \o q \in Seq(S) /\ j \o Append(q, x) = Append(j \o q, x)
  <2>1. j \o q \in Seq(S) /\ <<x>> \in Seq(S) BY ConcatProperties
  <2>2. Append(q, x) = q \o <<x>> /\ Append(j \o q, x) = (j \o q) \o <<x>>
    BY <2>1, AppendIsConcat
  <2>3. (j \o q) \o <<x>> = j \o (q \o <<x>>) BY <2>1, ConcatAssociative
  <2>. QED BY <2>1, <2>2, <2>3
<1>2. ASSUME s # <<>>
      PROVE  j \o s # <<>> /\ Last(j \o s) = Last(s) /\ Front(j \o s) = j \o Front(s)
  <2>1. Front(s) \in Seq(S) /\ Last(s) \in S /\ s = Append(Front(s), Last(s))
    BY <1>2, FrontAndLast
  <2>2. j \o Front(s) \in Seq(S) /\ j \o s = Append(j \o Front(s), Last(s)) BY <1>1, <2>1
  <2> DEFINE f == j \o Front(s)
             l == Last(s)
  <2>3. f \in Seq(S) /\ l \in S /\ j \o s = Append(f, l) BY <2>1, <2>2
  <2> HIDE DEF f, l
  <2>4. Append(f, l) # <<>> /\ Front(Append(f, l)) = f /\ Last(Append(f, l)) = l
    BY <2>3, FrontOfAppend, AppendProperties
  <2>5. j \o s # <<>> /\ Front(j \o s) = f /\ Last(j \o s) = l BY <2>3, <2>4
  <2>. QED BY <2>5 DEF f, l
<1>. QED BY <1>1, <1>2

(* ... of edits.                                                           *)
LEMMA EndOfEdits ==
  \A j, s \in Seq(Edit) : \A e \in Edit : j \o Append(s, e) = Append(j \o s, e)
<1> TAKE j, s \in Seq(Edit)
<1> TAKE e \in Edit
<1>. QED BY EndOfList

(* ... and a list that ends with s loses its last edit with it.            *)
LEMMA FrontOfEdits ==
  \A j, s \in Seq(Edit) :
    s # <<>> => j \o s # <<>> /\ Last(j \o s) = Last(s) /\ Front(j \o s) = j \o Front(s)
<1> TAKE j, s \in Seq(Edit)
<1> HAVE s # <<>>
<1>1. PICK x \in Edit : x = Last(s) BY FrontAndLast
<1>. QED BY EndOfList

(* findLastIndex finds an element, if there is one.                        *)
LEMMA Found ==
  ASSUME NEW s \in Seq(Edit), NEW id
  PROVE  /\ FindLast(s, id) \in 0 .. Len(s)
         /\ FindLast(s, id) # 0 => s[FindLast(s, id)] = id
         /\ FindLast(s, id) = 0 <=> id \notin ToSet(s)
<1> DEFINE I == {i \in 1..Len(s) : s[i] = id}
<1>1. Len(s) \in Nat /\ DOMAIN s = 1 .. Len(s) BY LenProperties
<1>2. FindLast(s, id) = IF I # {} THEN Max(I) ELSE 0 BY DEF FindLast, SelectLastInSeq
<1>3. I # {} <=> id \in ToSet(s) BY <1>1 DEF ToSet
<1>4. ASSUME I # {} PROVE Max(I) \in 1 .. Len(s) /\ s[Max(I)] = id
  <2>1. I \in SUBSET (1 .. Len(s)) OBVIOUS
  <2>2. Max(I) \in I
    <3> HIDE DEF I
    <3>. QED BY <1>1, <1>4, <2>1, GreatestIndex
  <2>. QED BY <2>2
<1> HIDE DEF I
<1>5. CASE I = {} BY <1>1, <1>2, <1>3, <1>5
<1>6. CASE I # {} BY <1>1, <1>2, <1>3, <1>4, <1>6
<1>. QED BY <1>5, <1>6

(* ... and the last one where it is.                                       *)
LEMMA FoundLast ==
  ASSUME NEW s \in Seq(Edit), s # <<>>
  PROVE  /\ FindLast(s, Last(s)) = Len(s) /\ FindLast(s, Last(s)) # 0
         /\ Last(s) \in ToSet(s) /\ RemoveLast(s, Last(s)) = Front(s)
         /\ RemoveAt(s, Len(s)) = Front(s)
<1> DEFINE I == {i \in 1..Len(s) : s[i] = Last(s)}
<1>1. Len(s) \in Nat \ {0} /\ DOMAIN s = 1 .. Len(s) BY EmptySeq, LenProperties
<1>2. Len(s) \in I /\ \A i \in I : Len(s) >= i BY <1>1 DEF Last
<1>3. Max(I) = Len(s)
  <2>1. \E x \in I : \A y \in I : x >= y BY <1>2
  <2>2. Max(I) \in I /\ \A y \in I : Max(I) >= y
    <3> HIDE DEF I
    <3>. QED BY <2>1 DEF Max
  <2>3. Max(I) \in 1 .. Len(s) /\ Max(I) >= Len(s) BY <1>2, <2>2
  <2> HIDE DEF I
  <2>. QED BY <1>1, <2>3
<1>4. FindLast(s, Last(s)) = Len(s)
  <2>1. FindLast(s, Last(s)) = IF I # {} THEN Max(I) ELSE 0 BY DEF FindLast, SelectLastInSeq
  <2>2. I # {} BY <1>2
  <2> HIDE DEF I
  <2>. QED BY <1>3, <2>1, <2>2
<1>5. RemoveAt(s, Len(s)) = Front(s)
  <2>1. SubSeq(s, Len(s) + 1, Len(s)) = <<>> BY <1>1, SubSeqEmpty
  <2>2. Front(s) \in Seq(Edit) BY FrontAndLast
  <2>3. RemoveAt(s, Len(s)) = Front(s) \o <<>> BY <2>1 DEF RemoveAt, Front
  <2>. QED BY <2>2, <2>3, ConcatEmptySeq
<1>6. RemoveLast(s, Last(s)) = Front(s)
  <2>1. RemoveLast(s, Last(s)) = RemoveAt(s, FindLast(s, Last(s))) BY DEF RemoveLast, FindLast
  <2>. QED BY <1>4, <1>5, <2>1
<1>. QED BY <1>1, <1>2, <1>4, <1>5, <1>6 DEF ToSet

(* Lists without one of their elements.                                    *)
LEMMA WithoutOne ==
  ASSUME NEW s \in Seq(Edit), NEW k \in 1 .. Len(s)
  PROVE  RemoveAt(s, k) \in Seq(Edit)
<1>1. Len(s) \in Nat /\ \A i \in 1 .. Len(s) : s[i] \in Edit BY LenProperties, ElementOfSeq
<1>2. SubSeq(s, 1, k - 1) \in Seq(Edit) BY <1>1, SubSeqProperties
<1>3. SubSeq(s, k + 1, Len(s)) \in Seq(Edit) BY <1>1, SubSeqProperties
<1>. QED BY <1>2, <1>3, ConcatProperties DEF RemoveAt

(* The room's state stays one, whatever it is sent.                        *)
LEMMA RemoveLastType ==
  ASSUME NEW s \in Seq(Edit), NEW id \in ToSet(s)
  PROVE  RemoveLast(s, id) \in Seq(Edit)
<1> DEFINE I == {i \in 1..Len(s) : s[i] = id}
           k == Max(I)
<1>0. Len(s) \in Nat /\ DOMAIN s = 1..Len(s) OBVIOUS
<1>1. I # {} /\ I \in SUBSET (1..Len(s)) BY <1>0 DEF ToSet
<1>2. k \in 1..Len(s)
  <2> HIDE DEF I
  <2>. QED BY <1>0, <1>1, GreatestIndex
<1>3. RemoveLast(s, id) = SubSeq(s, 1, k - 1) \o SubSeq(s, k + 1, Len(s))
  BY <1>1 DEF RemoveLast, RemoveAt, SelectLastInSeq
<1>4. SubSeq(s, 1, k - 1) \in Seq(Edit) /\ SubSeq(s, k + 1, Len(s)) \in Seq(Edit)
  <2> HIDE DEF k
  <2>. QED BY <1>0, <1>2
<1>. QED BY <1>3, <1>4

(* An operation makes a board's lists of a board's lists.                  *)
LEMMA ReplayStepType ==
  ASSUME NEW s \in EditState, NEW op, op.kind \in OpKind => op.id \in Edit
  PROVE  ReplayStep(s, op) \in EditState
<1>1. CASE op.kind = "push"
  BY <1>1 DEF ReplayStep, EditState, OpKind
<1>2. CASE op.kind = "undo" /\ op.id \in ToSet(s.current)
  <2>1. RemoveLast(s.current, op.id) \in Seq(Edit) BY <1>2, RemoveLastType DEF EditState
  <2>. QED BY <1>2, <2>1 DEF ReplayStep, EditState, OpKind
<1>3. CASE op.kind = "redo" /\ op.id \in ToSet(s.undone)
  <2>1. RemoveLast(s.undone, op.id) \in Seq(Edit) BY <1>3, RemoveLastType DEF EditState
  <2>. QED BY <1>3, <2>1 DEF ReplayStep, EditState, OpKind
<1>4. CASE ~ \/ op.kind = "push"
             \/ op.kind = "undo" /\ op.id \in ToSet(s.current)
             \/ op.kind = "redo" /\ op.id \in ToSet(s.undone)
  BY <1>4 DEF ReplayStep
<1>. QED BY <1>1, <1>2, <1>3, <1>4

(* The states the loop over a list goes through when a pull is answered.   *)
LEMMA MissingStates ==
  ASSUME NEW s \in Seq(Edit), NEW have
  PROVE  \E f \in [0 .. Len(s) -> Seq(Edit)] :
           /\ f[0] = <<>> /\ f[Len(s)] = Missing(s, have)
           /\ \A i \in 1 .. Len(s) :
                f[i] = IF s[i] \in have THEN f[i - 1] ELSE Append(f[i - 1], s[i])
<1> DEFINE Step(t, e) == IF e \in have THEN t ELSE Append(t, e)
           Body(g) == [i \in 0..Len(s) |-> IF i = 0 THEN <<>> ELSE Step(g[i - 1], s[i])]
           f == CHOOSE g : g = Body(g)
           S == Seq(Edit)
           step == [e \in Edit |-> [t \in S |-> Step(t, e)]]
<1>0. Len(s) \in Nat /\ <<>> \in S /\ \A i \in 1..Len(s) : s[i] \in Edit
  OBVIOUS
<1>a. \A t \in S, e \in Edit : Step(t, e) \in S OBVIOUS
<1>7. Missing(s, have) = f[Len(s)] BY DEF Missing
<1> HIDE DEF S
<1> HIDE DEF Step
<1>1. step \in [Edit -> [S -> S]] BY <1>a
<1>2. PICK h : Run(h, S, step, <<>>, s)
  <2> HIDE DEF step
  <2>. QED BY <1>0, <1>1, LoopStates, Zenon
<1>3. \A i \in 1..Len(s) : h[i] = Step(h[i - 1], s[i])
  <2> TAKE i \in 1..Len(s)
  <2>1. s[i] \in Edit /\ h[i - 1] \in S BY <1>0, <1>2 DEF Run
  <2>2. step[s[i]][h[i - 1]] = Step(h[i - 1], s[i]) BY <2>1
  <2>. QED BY <1>2, <2>2 DEF Run
<1>4. h = Body(h) BY <1>0, <1>2, <1>3 DEF Run
<1>5. f = Body(f) BY <1>4
<1> HIDE DEF f
<1>6. f \in [0 .. Len(s) -> S]
  <2> DEFINE T == {n \in 0..Len(s) : f[n] \in S}
  <2>1. 0 \in T BY <1>0, <1>5
  <2>2. ASSUME NEW i \in 1..Len(s), i - 1 \in T PROVE i \in T
    <3>1. f[i] = Step(f[i - 1], s[i]) BY <1>0, <1>5
    <3>2. s[i] \in Edit /\ f[i - 1] \in S BY <1>0, <2>2
    <3>. QED BY <1>a, <3>1, <3>2
  <2> HIDE DEF T
  <2>3. \A i \in 0..Len(s) : i \in T BY <1>0, <2>1, <2>2, InductionUpTo
  <2>4. \A i \in 0..Len(s) : f[i] \in S BY <2>3 DEF T
  <2>. QED BY <1>5, <2>4
<1>8. \A i \in 1 .. Len(s) : f[i] = Step(f[i - 1], s[i])
  BY <1>0, <1>5
<1>9. f[0] = <<>> BY <1>0, <1>5
<1>. QED BY <1>6, <1>7, <1>8, <1>9 DEF Step, S

(* What a client lacks is a sequence of edits.                             *)
LEMMA MissingType ==
  ASSUME NEW s \in Seq(Edit), NEW have
  PROVE  Missing(s, have) \in Seq(Edit)
<1>1. PICK f \in [0 .. Len(s) -> Seq(Edit)] : f[Len(s)] = Missing(s, have) BY MissingStates
<1>. QED BY <1>1

(* The answer to a pull is well formed.                                    *)
LEMMA PullDataType ==
  ASSUME NEW s \in EditState, NEW v \in View
  PROVE  PullData(s, v) \in Answer
<1>1. s.current \in Seq(Edit) /\ s.undone \in Seq(Edit) BY DEF EditState
<1>2. v.current \in SUBSET Edit /\ v.undone \in SUBSET Edit BY DEF View
<1>3. /\ Missing(s.current, v.current) \in Seq(Edit)
      /\ Missing(s.undone, v.undone) \in Seq(Edit)
  BY <1>1, MissingType
<1>. QED BY <1>2, <1>3 DEF PullData, Answer

----------------------------------------------------------------------------
(* The canvas.                                                             *)

(* What an edit adds to a shape of the canvas.                             *)
Gain(x, a) == (IF x = a THEN 1 ELSE 0) - (IF x \in Removes /\ Target[x] = a THEN 1 ELSE 0)

(* An edit draws its shape, or erases its target.                          *)
LEMMA GainIs ==
  ASSUME NEW x \in Edit, NEW a \in Adds
  PROVE  /\ Gain(x, a) \in Int
         /\ x \in Adds => Gain(x, a) = IF x = a THEN 1 ELSE 0
         /\ x \notin Adds => x \in Removes /\ Target[x] \in Adds /\ x # a
                             /\ Gain(x, a) = IF Target[x] = a THEN 0 - 1 ELSE 0
<1>1. x \in Adds => x \notin Removes BY CollabAssumption
<1>2. x \notin Adds => x \in Removes /\ x # a BY CollabAssumption
<1>3. x \in Removes => Target[x] \in Adds BY CollabAssumption
<1>4. CASE x \in Adds BY <1>1, <1>4 DEF Gain
<1>5. CASE x \notin Adds BY <1>2, <1>3, <1>5 DEF Gain
<1>. QED BY <1>4, <1>5

(* A canvas counts shapes.                                                 *)
Layer == [Adds -> Nat]

(* An edit that can be applied changes what it says.                       *)
LEMMA Applied ==
  ASSUME NEW l \in Layer, NEW x \in Edit, CanApply(l, x)
  PROVE  /\ applyEdit(l, x) \in Layer
         /\ \A a \in Adds : applyEdit(l, x)[a] = l[a] + Gain(x, a)
<1>1. CASE x \in Adds
  <2>1. applyEdit(l, x) = [l EXCEPT ![x] = @ + 1] BY <1>1 DEF applyEdit
  <2>2. \A a \in Adds : Gain(x, a) = IF x = a THEN 1 ELSE 0 BY <1>1, GainIs
  <2>. QED BY <1>1, <2>1, <2>2 DEF Layer
<1>2. CASE x \notin Adds
  <2>1. x \in Removes /\ Target[x] \in Adds BY <1>2, CollabAssumption
  <2>2. applyEdit(l, x) = [l EXCEPT ![Target[x]] = @ - 1] BY <1>2 DEF applyEdit
  <2>3. \A a \in Adds : Gain(x, a) = IF Target[x] = a THEN 0 - 1 ELSE 0 BY <1>2, GainIs
  <2>4. l[Target[x]] \in Nat /\ l[Target[x]] > 0 BY <2>1 DEF CanApply, Layer
  <2>. QED BY <2>1, <2>2, <2>3, <2>4 DEF Layer
<1>. QED BY <1>1, <1>2

(* ... and cancelling it takes that back.                                  *)
LEMMA Cancelled ==
  ASSUME NEW l \in Layer, NEW x \in Edit, CanCancel(l, x)
  PROVE  /\ cancelEdit(l, x) \in Layer
         /\ \A a \in Adds : cancelEdit(l, x)[a] = l[a] - Gain(x, a)
<1>1. CASE x \in Adds
  <2>1. cancelEdit(l, x) = [l EXCEPT ![x] = @ - 1] BY <1>1 DEF cancelEdit
  <2>2. \A a \in Adds : Gain(x, a) = IF x = a THEN 1 ELSE 0 BY <1>1, GainIs
  <2>3. l[x] \in Nat /\ l[x] > 0 BY <1>1 DEF CanCancel, Layer
  <2>. QED BY <1>1, <2>1, <2>2, <2>3 DEF Layer
<1>2. CASE x \notin Adds
  <2>1. x \in Removes /\ Target[x] \in Adds BY <1>2, CollabAssumption
  <2>2. cancelEdit(l, x) = [l EXCEPT ![Target[x]] = @ + 1] BY <1>2 DEF cancelEdit
  <2>3. \A a \in Adds : Gain(x, a) = IF Target[x] = a THEN 0 - 1 ELSE 0 BY <1>2, GainIs
  <2>. QED BY <2>1, <2>2, <2>3 DEF Layer
<1>. QED BY <1>1, <1>2

(* What a longer list draws.                                               *)
LEMMA DrawnGrows ==
  ASSUME NEW s \in Seq(Edit), NEW x \in Edit, NEW a \in Adds
  PROVE  /\ Drawn(s, a) \in Int /\ Drawn(<<>>, a) = 0
         /\ Drawn(Append(s, x), a) = Drawn(s, a) + Gain(x, a)
<1> DEFINE n == Len(s)
           t == Append(s, x)
           On(q) == {i \in DOMAIN q : q[i] = a}
           Off(q) == {i \in DOMAIN q : q[i] \in Removes /\ Target[q[i]] = a}
<1>1. /\ n \in Nat /\ DOMAIN s = 1 .. n /\ DOMAIN t = 1 .. n + 1
      /\ t[n + 1] = x /\ \A i \in 1 .. n : t[i] = s[i]
  BY AppendProperties, LenProperties
<1>2. IsFiniteSet(1 .. n) /\ n + 1 \notin 1 .. n
  <2>1. n \in Int BY <1>1
  <2>. QED BY <1>1, <2>1, FS_Interval
<1>3. On(s) \in SUBSET (1 .. n) /\ Off(s) \in SUBSET (1 .. n) BY <1>1
<1>4. /\ IsFiniteSet(On(s)) /\ Cardinality(On(s)) \in Nat
      /\ IsFiniteSet(Off(s)) /\ Cardinality(Off(s)) \in Nat
  BY <1>2, <1>3, FS_Subset, FS_CardinalityType
<1>5. On(t) = IF x = a THEN On(s) \cup {n + 1} ELSE On(s)
  <2>1. \A i : i \in On(t) <=> i \in On(s) \/ (i = n + 1 /\ x = a) BY <1>1
  <2>. QED BY <2>1
<1>6. Off(t) = IF x \in Removes /\ Target[x] = a THEN Off(s) \cup {n + 1} ELSE Off(s)
  <2>1. \A i : i \in Off(t) <=> i \in Off(s) \/ (i = n + 1 /\ x \in Removes /\ Target[x] = a)
    BY <1>1
  <2>. QED BY <2>1
<1>7. Drawn(s, a) = Cardinality(On(s)) - Cardinality(Off(s)) BY DEF Drawn
<1>8. Drawn(t, a) = Cardinality(On(t)) - Cardinality(Off(t)) BY DEF Drawn
<1>9. Drawn(<<>>, a) = 0
  <2>1. On(<<>>) = {} /\ Off(<<>>) = {} OBVIOUS
  <2>2. Drawn(<<>>, a) = Cardinality(On(<<>>)) - Cardinality(Off(<<>>)) BY DEF Drawn
  <2>. QED BY <2>1, <2>2, FS_EmptySet
<1>10. n + 1 \notin On(s) /\ n + 1 \notin Off(s) BY <1>2, <1>3
<1> HIDE DEF On, Off, n, t
<1>a. /\ Cardinality(On(s) \cup {n + 1}) = Cardinality(On(s)) + 1
      /\ Cardinality(Off(s) \cup {n + 1}) = Cardinality(Off(s)) + 1
  BY <1>4, <1>10, FS_AddElement
<1>11. Cardinality(On(t)) = Cardinality(On(s)) + (IF x = a THEN 1 ELSE 0)
  BY <1>4, <1>5, <1>a
<1>12. Cardinality(Off(t)) = Cardinality(Off(s)) + (IF x \in Removes /\ Target[x] = a THEN 1 ELSE 0)
  BY <1>4, <1>6, <1>a
<1>13. Drawn(t, a) = Drawn(s, a) + Gain(x, a) BY <1>4, <1>7, <1>8, <1>11, <1>12 DEF Gain
<1>. QED BY <1>4, <1>7, <1>9, <1>13 DEF t

(* ... and what one that loses its end.                                    *)
LEMMA DrawnShrinks ==
  ASSUME NEW s \in Seq(Edit), s # <<>>, NEW a \in Adds
  PROVE  Drawn(s, a) \in Int /\ Drawn(Front(s), a) = Drawn(s, a) - Gain(Last(s), a)
<1> DEFINE f == Front(s)
           x == Last(s)
<1>1. f \in Seq(Edit) /\ x \in Edit /\ s = Append(f, x) BY FrontAndLast
<1> HIDE DEF f, x
<1>2. Drawn(f, a) \in Int /\ Drawn(s, a) = Drawn(f, a) + Gain(x, a) BY <1>1, DrawnGrows
<1>3. Gain(x, a) \in Int BY <1>1, GainIs
<1>. QED BY <1>2, <1>3 DEF f, x

(* An edit that a list allows to be drawn, and one that it allows to be    *)
(* taken back.                                                             *)
Erasable(s, x) == x \in Removes => Drawn(s, Target[x]) > 0
Undrawable(s, x) == x \in Adds => Drawn(s, x) > 0

(* A list that can be drawn from its beginning.                            *)
Drawable(s) == \A i \in 1 .. Len(s) : Erasable(SubSeq(s, 1, i - 1), s[i])

(* It stays one when it grows.                                             *)
LEMMA DrawableGrows ==
  ASSUME NEW s \in Seq(Edit), NEW x \in Edit, Drawable(s), Erasable(s, x)
  PROVE  Drawable(Append(s, x))
<1> DEFINE n == Len(s)
           t == Append(s, x)
<1>1. /\ n \in Nat /\ Len(t) = n + 1 /\ t \in Seq(Edit)
      /\ t[n + 1] = x /\ \A i \in 1 .. n : t[i] = s[i]
  BY AppendProperties, LenProperties
<1>2. ASSUME NEW i \in 1 .. n + 1 PROVE SubSeq(t, 1, i - 1) = SubSeq(s, 1, i - 1)
  <2> DEFINE k == i - 1
  <2>1. k \in 0 .. n /\ k \in Int /\ 1 \in Int BY <1>1
  <2>2. \A j \in 1 .. k : t[j] = s[j] /\ s[j] \in Edit BY <1>1, <2>1, ElementOfSeq
  <2> HIDE DEF k, t
  <2>3. /\ SubSeq(t, 1, k) \in Seq(Edit) /\ SubSeq(s, 1, k) \in Seq(Edit)
        /\ Len(SubSeq(t, 1, k)) = IF 1 <= k THEN k - 1 + 1 ELSE 0
        /\ Len(SubSeq(s, 1, k)) = IF 1 <= k THEN k - 1 + 1 ELSE 0
        /\ \A j \in 1 .. k - 1 + 1 : SubSeq(t, 1, k)[j] = t[1 + j - 1]
        /\ \A j \in 1 .. k - 1 + 1 : SubSeq(s, 1, k)[j] = s[1 + j - 1]
    BY <2>1, <2>2, SubSeqProperties
  <2>4. Len(SubSeq(t, 1, k)) = k /\ Len(SubSeq(s, 1, k)) = k BY <1>1, <2>1, <2>3
  <2>5. \A j \in 1 .. k : SubSeq(t, 1, k)[j] = SubSeq(s, 1, k)[j]
    <3> TAKE j \in 1 .. k
    <3>1. j \in 1 .. k - 1 + 1 /\ 1 + j - 1 = j BY <1>1, <2>1
    <3>. QED BY <2>2, <2>3, <3>1
  <2>6. SubSeq(t, 1, k) = SubSeq(s, 1, k) BY <2>3, <2>4, <2>5, SeqEqual
  <2>. QED BY <2>6 DEF k
<1>3. SubSeq(s, 1, n) = s BY SubSeqFull
<1>4. n + 1 - 1 = n BY <1>1
<1> HIDE DEF t
<1>5. ASSUME NEW i \in 1 .. n PROVE Erasable(SubSeq(t, 1, i - 1), t[i])
  <2>1. i \in 1 .. n + 1 BY <1>1
  <2>2. SubSeq(t, 1, i - 1) = SubSeq(s, 1, i - 1) BY <1>2, <2>1
  <2>3. Erasable(SubSeq(s, 1, i - 1), s[i]) BY DEF Drawable
  <2>. QED BY <1>1, <2>2, <2>3
<1>6. Erasable(SubSeq(t, 1, n + 1 - 1), t[n + 1])
  <2>1. n + 1 \in 1 .. n + 1 BY <1>1
  <2>2. SubSeq(t, 1, n + 1 - 1) = SubSeq(s, 1, n + 1 - 1) BY <1>2, <2>1
  <2>3. SubSeq(t, 1, n + 1 - 1) = s BY <1>3, <1>4, <2>2
  <2>. QED BY <1>1, <2>3
<1>7. \A i \in 1 .. n + 1 : i \in 1 .. n \/ i = n + 1 BY <1>1
<1>. QED BY <1>1, <1>5, <1>6, <1>7 DEF Drawable, t

(* ... and when it loses its end.                                          *)
LEMMA DrawableShrinks ==
  ASSUME NEW s \in Seq(Edit), s # <<>>, Drawable(s)
  PROVE  Drawable(Front(s))
<1> DEFINE f == Front(s)
<1>1. /\ f \in Seq(Edit) /\ Len(f) = Len(s) - 1 /\ Len(s) \in Nat \ {0}
      /\ \A i \in 1 .. Len(s) - 1 : f[i] = s[i]
  BY FrontAndLast
<1> HIDE DEF f
<1>2. ASSUME NEW i \in 1 .. Len(f) PROVE Erasable(SubSeq(f, 1, i - 1), f[i])
  <2> DEFINE k == i - 1
  <2>1. k \in 0 .. Len(s) - 1 /\ k \in Int /\ 1 \in Int /\ i \in 1 .. Len(s) BY <1>1
  <2>2. \A j \in 1 .. k : f[j] = s[j] /\ s[j] \in Edit BY <1>1, <2>1, ElementOfSeq
  <2>3. Erasable(SubSeq(s, 1, k), s[i]) BY <2>1 DEF Drawable
  <2> HIDE DEF k
  <2>4. /\ SubSeq(f, 1, k) \in Seq(Edit) /\ SubSeq(s, 1, k) \in Seq(Edit)
        /\ Len(SubSeq(f, 1, k)) = IF 1 <= k THEN k - 1 + 1 ELSE 0
        /\ Len(SubSeq(s, 1, k)) = IF 1 <= k THEN k - 1 + 1 ELSE 0
        /\ \A j \in 1 .. k - 1 + 1 : SubSeq(f, 1, k)[j] = f[1 + j - 1]
        /\ \A j \in 1 .. k - 1 + 1 : SubSeq(s, 1, k)[j] = s[1 + j - 1]
    BY <2>1, <2>2, SubSeqProperties
  <2>5. Len(SubSeq(f, 1, k)) = k /\ Len(SubSeq(s, 1, k)) = k BY <1>1, <2>1, <2>4
  <2>6. \A j \in 1 .. k : SubSeq(f, 1, k)[j] = SubSeq(s, 1, k)[j]
    <3> TAKE j \in 1 .. k
    <3>1. j \in 1 .. k - 1 + 1 /\ 1 + j - 1 = j BY <1>1, <2>1
    <3>. QED BY <2>2, <2>4, <3>1
  <2>7. SubSeq(f, 1, k) = SubSeq(s, 1, k) BY <2>4, <2>5, <2>6, SeqEqual
  <2>. QED BY <1>1, <2>3, <2>7 DEF k
<1>. QED BY <1>2 DEF Drawable, f

----------------------------------------------------------------------------
(* A page.                                                                 *)

PageState == [history : EditState, layer : Layer, ok : BOOLEAN]

(* Its parts.                                                              *)
LEMMA PageParts ==
  ASSUME NEW p \in PageState
  PROVE  /\ p.history \in EditState /\ p.layer \in Layer /\ p.ok \in BOOLEAN
         /\ p.history.current \in Seq(Edit) /\ p.history.undone \in Seq(Edit)
BY DEF PageState, EditState

(* ... and how it is made.                                                 *)
LEMMA PageMade ==
  ASSUME NEW h \in EditState, NEW l \in Layer, NEW ok \in BOOLEAN
  PROVE  /\ Page(h, l, ok) \in PageState
         /\ Page(h, l, ok).history = h /\ Page(h, l, ok).layer = l /\ Page(h, l, ok).ok = ok
BY DEF Page, PageState

(* The undo of a page.                                                     *)
LEMMA UndoType ==
  ASSUME NEW p \in PageState, NEW id \in Edit
  PROVE  UndoOn(p, id) \in PageState
<1> DEFINE h == p.history
           i == FindLast(h.current, id)
<1>1. /\ h \in EditState /\ p.layer \in Layer
      /\ h.current \in Seq(Edit) /\ h.undone \in Seq(Edit)
  BY PageParts
<1>2. CASE i = 0 \/ ~CanCancel(p.layer, id) BY <1>2 DEF UndoOn
<1>3. CASE i # 0 /\ CanCancel(p.layer, id)
  <2>1. Len(h.current) \in Nat /\ i \in 0 .. Len(h.current) BY <1>1, Found, LenProperties
  <2>2. i \in 1 .. Len(h.current) BY <1>3, <2>1
  <2>3. RemoveAt(h.current, i) \in Seq(Edit) BY <1>1, <2>2, WithoutOne
  <2>4. Append(h.undone, id) \in Seq(Edit) BY <1>1, AppendProperties
  <2>5. undo(h, id) = [current |-> RemoveAt(h.current, i), undone |-> Append(h.undone, id)]
    BY <1>3 DEF undo
  <2>6. undo(h, id) \in EditState BY <2>3, <2>4, <2>5 DEF EditState
  <2>7. cancelEdit(p.layer, id) \in Layer BY <1>1, <1>3, Cancelled
  <2>8. UndoOn(p, id) = Page(undo(h, id), cancelEdit(p.layer, id), TRUE) BY <1>3 DEF UndoOn
  <2>. QED BY <2>6, <2>7, <2>8, PageMade
<1>. QED BY <1>2, <1>3

(* ... and its redo.                                                       *)
LEMMA RedoType ==
  ASSUME NEW p \in PageState, NEW id \in Edit
  PROVE  RedoOn(p, id) \in PageState
<1> DEFINE h == p.history
<1>1. /\ h \in EditState /\ p.layer \in Layer
      /\ h.current \in Seq(Edit) /\ h.undone \in Seq(Edit)
  BY PageParts
<1>2. CASE FindLast(h.undone, id) = 0 \/ ~CanApply(p.layer, id) BY <1>2 DEF RedoOn
<1>3. CASE ~(FindLast(h.undone, id) = 0 \/ ~CanApply(p.layer, id))
  <2>1. redo(h) \in EditState
    <3>1. CASE h.undone = <<>> BY <1>1, <3>1 DEF redo
    <3>2. CASE h.undone # <<>>
      <4>1. Front(h.undone) \in Seq(Edit) /\ Last(h.undone) \in Edit BY <1>1, <3>2, FrontAndLast
      <4>2. Append(h.current, Last(h.undone)) \in Seq(Edit) BY <1>1, <4>1, AppendProperties
      <4>. QED BY <3>2, <4>1, <4>2 DEF redo, EditState
    <3>. QED BY <3>1, <3>2
  <2>2. applyEdit(p.layer, id) \in Layer BY <1>1, <1>3, Applied
  <2>3. RedoOn(p, id) = Page(redo(h), applyEdit(p.layer, id), TRUE) BY <1>3 DEF RedoOn
  <2>. QED BY <2>1, <2>2, <2>3, PageMade
<1>. QED BY <1>2, <1>3

(* An edit of another.                                                     *)
LEMMA PushType ==
  ASSUME NEW p \in PageState, NEW id \in Edit
  PROVE  PushOn(p, id) \in PageState
<1>1. /\ p.history \in EditState /\ p.layer \in Layer
      /\ p.history.current \in Seq(Edit) /\ p.history.undone \in Seq(Edit)
  BY PageParts
<1>2. CASE ~p.ok BY <1>2 DEF PushOn
<1>3. CASE p.ok
  <2>1. Append(p.history.current, id) \in Seq(Edit) BY <1>1, AppendProperties
  <2>2. addCurrent(p.history, id) \in EditState BY <1>1, <2>1 DEF addCurrent, EditState
  <2> DEFINE l == IF CanApply(p.layer, id) THEN applyEdit(p.layer, id) ELSE p.layer
             k == CanApply(p.layer, id)
  <2>3. l \in Layer BY <1>1, Applied
  <2>4. k \in BOOLEAN BY DEF CanApply
  <2>5. PushOn(p, id) = Page(addCurrent(p.history, id), l, k) BY <1>3 DEF PushOn
  <2> HIDE DEF l, k
  <2>. QED BY <2>2, <2>3, <2>4, <2>5, PageMade
<1>. QED BY <1>2, <1>3

(* An edit that was undone before this page was there.                     *)
LEMMA AddUndoneType ==
  ASSUME NEW p \in PageState, NEW id \in Edit
  PROVE  AddUndoneOn(p, id) \in PageState
<1>1. CASE ~p.ok BY <1>1 DEF AddUndoneOn
<1>2. CASE p.ok
  <2>1. Append(p.history.undone, id) \in Seq(Edit) BY PageParts, AppendProperties
  <2>2. addUndone(p.history, id) \in EditState BY <2>1, PageParts DEF addUndone, EditState
  <2>3. AddUndoneOn(p, id) = [p EXCEPT !.history = addUndone(p.history, id)]
    BY <1>2 DEF AddUndoneOn
  <2>. QED BY <2>2, <2>3 DEF PageState
<1>. QED BY <1>1, <1>2

(* The states a page goes through while a list is drawn.                   *)
LEMMA PushLoop ==
  ASSUME NEW p \in PageState, NEW s \in Seq(Edit)
  PROVE  \E f \in [0 .. Len(s) -> PageState] :
           /\ f[0] = p /\ f[Len(s)] = ForEach(PushOn, p, s)
           /\ \A i \in 1 .. Len(s) : f[i] = PushOn(f[i - 1], s[i])
<1> DEFINE Body(g) == [i \in 0..Len(s) |-> IF i = 0 THEN p ELSE PushOn(g[i - 1], s[i])]
           f == CHOOSE g : g = Body(g)
           step == [e \in Edit |-> [t \in PageState |-> PushOn(t, e)]]
<1>0. Len(s) \in Nat /\ \A i \in 1..Len(s) : s[i] \in Edit BY LenProperties, ElementOfSeq
<1>7. ForEach(PushOn, p, s) = f[Len(s)] BY DEF ForEach
<1>1. step \in [Edit -> [PageState -> PageState]] BY PushType
<1>2. PICK h : Run(h, PageState, step, p, s)
  <2> HIDE DEF step
  <2>. QED BY <1>0, <1>1, LoopStates, Zenon
<1>3. \A i \in 1..Len(s) : h[i] = PushOn(h[i - 1], s[i])
  <2> TAKE i \in 1..Len(s)
  <2>1. s[i] \in Edit /\ h[i - 1] \in PageState BY <1>0, <1>2 DEF Run
  <2>2. step[s[i]][h[i - 1]] = PushOn(h[i - 1], s[i]) BY <2>1
  <2>. QED BY <1>2, <2>2 DEF Run
<1>4. h = Body(h) BY <1>0, <1>2, <1>3 DEF Run
<1>5. f = Body(f) BY <1>4
<1> HIDE DEF f
<1>6. f \in [0 .. Len(s) -> PageState]
  <2> DEFINE T == {n \in 0..Len(s) : f[n] \in PageState}
  <2>1. 0 \in T BY <1>0, <1>5
  <2>2. ASSUME NEW i \in 1..Len(s), i - 1 \in T PROVE i \in T
    <3>1. f[i] = PushOn(f[i - 1], s[i]) BY <1>0, <1>5
    <3>2. s[i] \in Edit /\ f[i - 1] \in PageState BY <1>0, <2>2
    <3>. QED BY <3>1, <3>2, PushType
  <2> HIDE DEF T
  <2>3. \A i \in 0..Len(s) : i \in T BY <1>0, <2>1, <2>2, InductionUpTo
  <2>4. \A i \in 0..Len(s) : f[i] \in PageState BY <2>3 DEF T
  <2>. QED BY <1>5, <2>4
<1>8. \A i \in 1 .. Len(s) : f[i] = PushOn(f[i - 1], s[i]) BY <1>0, <1>5
<1>9. f[0] = p BY <1>0, <1>5
<1>. QED BY <1>6, <1>7, <1>8, <1>9

(* ... and while the undone edits are listed.                              *)
LEMMA AddUndoneLoop ==
  ASSUME NEW p \in PageState, NEW s \in Seq(Edit)
  PROVE  \E f \in [0 .. Len(s) -> PageState] :
           /\ f[0] = p /\ f[Len(s)] = ForEach(AddUndoneOn, p, s)
           /\ \A i \in 1 .. Len(s) : f[i] = AddUndoneOn(f[i - 1], s[i])
<1> DEFINE Body(g) == [i \in 0..Len(s) |-> IF i = 0 THEN p ELSE AddUndoneOn(g[i - 1], s[i])]
           f == CHOOSE g : g = Body(g)
           step == [e \in Edit |-> [t \in PageState |-> AddUndoneOn(t, e)]]
<1>0. Len(s) \in Nat /\ \A i \in 1..Len(s) : s[i] \in Edit BY LenProperties, ElementOfSeq
<1>7. ForEach(AddUndoneOn, p, s) = f[Len(s)] BY DEF ForEach
<1>1. step \in [Edit -> [PageState -> PageState]] BY AddUndoneType
<1>2. PICK h : Run(h, PageState, step, p, s)
  <2> HIDE DEF step
  <2>. QED BY <1>0, <1>1, LoopStates, Zenon
<1>3. \A i \in 1..Len(s) : h[i] = AddUndoneOn(h[i - 1], s[i])
  <2> TAKE i \in 1..Len(s)
  <2>1. s[i] \in Edit /\ h[i - 1] \in PageState BY <1>0, <1>2 DEF Run
  <2>2. step[s[i]][h[i - 1]] = AddUndoneOn(h[i - 1], s[i]) BY <2>1
  <2>. QED BY <1>2, <2>2 DEF Run
<1>4. h = Body(h) BY <1>0, <1>2, <1>3 DEF Run
<1>5. f = Body(f) BY <1>4
<1> HIDE DEF f
<1>6. f \in [0 .. Len(s) -> PageState]
  <2> DEFINE T == {n \in 0..Len(s) : f[n] \in PageState}
  <2>1. 0 \in T BY <1>0, <1>5
  <2>2. ASSUME NEW i \in 1..Len(s), i - 1 \in T PROVE i \in T
    <3>1. f[i] = AddUndoneOn(f[i - 1], s[i]) BY <1>0, <1>5
    <3>2. s[i] \in Edit /\ f[i - 1] \in PageState BY <1>0, <2>2
    <3>. QED BY <3>1, <3>2, AddUndoneType
  <2> HIDE DEF T
  <2>3. \A i \in 0..Len(s) : i \in T BY <1>0, <2>1, <2>2, InductionUpTo
  <2>4. \A i \in 0..Len(s) : f[i] \in PageState BY <2>3 DEF T
  <2>. QED BY <1>5, <2>4
<1>8. \A i \in 1 .. Len(s) : f[i] = AddUndoneOn(f[i - 1], s[i]) BY <1>0, <1>5
<1>9. f[0] = p BY <1>0, <1>5
<1>. QED BY <1>6, <1>7, <1>8, <1>9

(* A loop over nothing does nothing.                                       *)
LEMMA NoLoop ==
  ASSUME NEW p
  PROVE  ForEach(RemoveCurrentOn, p, <<>>) = p /\ ForEach(RemoveUndoneOn, p, <<>>) = p
<1> DEFINE h == [i \in 0 .. 0 |-> p]
<1>0. Len(<<>>) = 0 OBVIOUS
<1>1. ForEach(RemoveCurrentOn, p, <<>>) = p
  <2> DEFINE Body(g) == [i \in 0..Len(<<>>) |-> IF i = 0 THEN p ELSE RemoveCurrentOn(g[i - 1], <<>>[i])]
             f == CHOOSE g : g = Body(g)
  <2>1. h = Body(h) BY <1>0
  <2>2. f = Body(f) BY <2>1
  <2>3. ForEach(RemoveCurrentOn, p, <<>>) = f[0] BY <1>0 DEF ForEach
  <2> HIDE DEF f
  <2>. QED BY <1>0, <2>2, <2>3
<1>2. ForEach(RemoveUndoneOn, p, <<>>) = p
  <2> DEFINE Body(g) == [i \in 0..Len(<<>>) |-> IF i = 0 THEN p ELSE RemoveUndoneOn(g[i - 1], <<>>[i])]
             f == CHOOSE g : g = Body(g)
  <2>1. h = Body(h) BY <1>0
  <2>2. f = Body(f) BY <2>1
  <2>3. ForEach(RemoveUndoneOn, p, <<>>) = f[0] BY <1>0 DEF ForEach
  <2> HIDE DEF f
  <2>. QED BY <1>0, <2>2, <2>3
<1>. QED BY <1>1, <1>2

(* An empty set is listed by the empty list only.                          *)
LEMMA NothingToDelete == SetToSeqs({}) = {<<>>}
<1>1. Cardinality({}) = 0 BY FS_EmptySet
<1>2. SetToSeqs({}) = {f \in [1 .. 0 -> {}] : \A i, j \in 1 .. 0 : i # j => f[i] # f[j]}
  BY <1>1 DEF SetToSeqs
<1>3. 1 .. 0 = {} OBVIOUS
<1>4. [1 .. 0 -> {}] = {<<>>}
  <2>1. <<>> \in [1 .. 0 -> {}] BY EmptySeq, LenProperties
  <2>2. ASSUME NEW f \in [1 .. 0 -> {}] PROVE f = <<>>
    <3>1. f \in Seq({}) BY SeqDef
    <3>2. DOMAIN f = 1 .. Len(f) /\ Len(f) \in Nat /\ DOMAIN f = {} BY <1>3, <3>1, LenProperties
    <3>3. Len(f) = 0 BY <3>2
    <3>. QED BY <3>1, <3>3, EmptySeq
  <2>. QED BY <2>1, <2>2
<1>. QED BY <1>2, <1>3, <1>4

(* What the setters of a history make of one.                              *)
LEMMA Setters ==
  ASSUME NEW h \in EditState, NEW x \in Edit
  PROVE  /\ addCurrent(h, x) = [current |-> Append(h.current, x), undone |-> h.undone]
         /\ addUndone(h, x) = [current |-> h.current, undone |-> Append(h.undone, x)]
         /\ emptyUndone(h) = [current |-> h.current, undone |-> <<>>]
<1>1. h.current \in Seq(Edit) /\ h.undone \in Seq(Edit) BY DEF EditState
<1>2. ASSUME NEW y PROVE [h EXCEPT !.current = y] = [current |-> y, undone |-> h.undone]
  BY DEF EditState
<1>3. ASSUME NEW y PROVE [h EXCEPT !.undone = y] = [current |-> h.current, undone |-> y]
  BY DEF EditState
<1>4. addCurrent(h, x) = [h EXCEPT !.current = Append(h.current, x)] BY DEF addCurrent
<1>5. addUndone(h, x) = [h EXCEPT !.undone = Append(h.undone, x)] BY DEF addUndone
<1>6. emptyUndone(h) = [h EXCEPT !.undone = <<>>] BY DEF emptyUndone
<1>. QED BY <1>2, <1>3, <1>4, <1>5, <1>6

(* A list, from its beginning on.                                          *)
LEMMA LongerPrefix ==
  ASSUME NEW S, NEW s \in Seq(S), NEW i \in 1 .. Len(s)
  PROVE  /\ SubSeq(s, 1, i - 1) \in Seq(S)
         /\ SubSeq(s, 1, i) = Append(SubSeq(s, 1, i - 1), s[i])
<1> DEFINE k == i - 1
<1>1. Len(s) \in Nat /\ \A j \in 1 .. Len(s) : s[j] \in S BY LenProperties, ElementOfSeq
<1>2. 1 \in Int /\ k \in Int /\ 1 \in 1 .. Len(s) /\ \A j \in 1 .. k : s[j] \in S BY <1>1
<1>3. s[i] \in S BY <1>1
<1>4. SubSeq(s, 1, k + 1) = Append(SubSeq(s, 1, k), s[k + 1])
  <2>1. k \in 0 .. Len(s) - 1 BY <1>1
  <2> HIDE DEF k
  <2>2. SubSeq(s, 1, k) \in Seq(S) BY <1>2, SubSeqProperties
  <2>. QED BY <1>1, <2>1, <2>2
<1>5. SubSeq(s, 1, k) \in Seq(S)
  <2> HIDE DEF k
  <2>. QED BY <1>2, SubSeqProperties
<1>6. k + 1 = i BY <1>1
<1>. QED BY <1>4, <1>5, <1>6

(* What a page lists and draws is followed by the list that is drawn.      *)
LEMMA DrawnLoop ==
  ASSUME NEW p \in PageState, NEW s \in Seq(Edit), p.ok, Drawable(s),
         NEW f \in [0 .. Len(s) -> PageState],
         f[0] = p, \A i \in 1 .. Len(s) : f[i] = PushOn(f[i - 1], s[i])
  PROVE  /\ f[Len(s)].ok
         /\ f[Len(s)].history = [current |-> p.history.current \o s, undone |-> p.history.undone]
         /\ \A a \in Adds : f[Len(s)].layer[a] = p.layer[a] + Drawn(s, a)
<1> DEFINE h == p.history
           Up(i) == SubSeq(s, 1, i)
           Is(i) == /\ f[i].ok /\ f[i].history = [current |-> h.current \o Up(i), undone |-> h.undone]
                    /\ \A a \in Adds : f[i].layer[a] = p.layer[a] + Drawn(Up(i), a)
           T == {i \in 0 .. Len(s) : Is(i)}
<1>1. Len(s) \in Nat /\ \A i \in 1 .. Len(s) : s[i] \in Edit BY LenProperties, ElementOfSeq
<1>2. h.current \in Seq(Edit) /\ h.undone \in Seq(Edit) /\ h \in EditState BY PageParts
<1>3. \A a \in Adds : p.layer[a] \in Nat BY PageParts DEF Layer
<1>4. Is(0)
  <2>1. Up(0) = <<>> BY SubSeqEmpty
  <2>2. h.current \o <<>> = h.current BY <1>2, ConcatEmptySeq
  <2>3. f[0].history = [current |-> h.current, undone |-> h.undone] BY <1>2 DEF EditState
  <2>4. \A a \in Adds : Drawn(<<>>, a) = 0
    <3> TAKE a \in Adds
    <3>1. a \in Edit BY CollabAssumption
    <3>. QED BY <3>1, DrawnGrows
  <2>5. \A a \in Adds : f[0].layer[a] = p.layer[a] + Drawn(<<>>, a) BY <1>3, <2>4
  <2>6. f[0].history = [current |-> h.current \o Up(0), undone |-> h.undone] BY <2>1, <2>2, <2>3
  <2>7. \A a \in Adds : f[0].layer[a] = p.layer[a] + Drawn(Up(0), a) BY <2>1, <2>5
  <2>. QED BY <2>6, <2>7
<1>5. ASSUME NEW i \in 1 .. Len(s), Is(i - 1) PROVE Is(i)
  <2> DEFINE b == Up(i - 1)
             x == s[i]
             o == f[i - 1]
  <2>1. x \in Edit /\ o \in PageState /\ f[i] = PushOn(o, x)
    <3>1. i - 1 \in 0 .. Len(s) BY <1>1
    <3>. QED BY <1>1, <3>1
  <2>2. b \in Seq(Edit) /\ Up(i) = Append(b, x) BY LongerPrefix
  <2>3. /\ o.ok /\ o.history = [current |-> h.current \o b, undone |-> h.undone]
        /\ \A a \in Adds : o.layer[a] = p.layer[a] + Drawn(b, a)
    BY <1>5
  <2>4. Erasable(b, x) BY DEF Drawable
  <2> HIDE DEF b, x, o, h, Up
  <2>5. o.layer \in Layer /\ \A a \in Adds : o.layer[a] \in Nat BY <2>1, PageParts DEF Layer
  <2>6. \A a \in Adds : /\ Drawn(b, a) \in Int /\ Gain(x, a) \in Int
                        /\ Drawn(Append(b, x), a) = Drawn(b, a) + Gain(x, a)
    BY <2>1, <2>2, DrawnGrows, GainIs
  <2>7. CanApply(o.layer, x)
    <3> SUFFICES ASSUME x \in Removes PROVE o.layer[Target[x]] > 0
      BY DEF CanApply
    <3>1. Target[x] \in Adds BY CollabAssumption
    <3>2. Drawn(b, Target[x]) > 0 BY <2>4 DEF Erasable
    <3>3. /\ o.layer[Target[x]] = p.layer[Target[x]] + Drawn(b, Target[x])
          /\ p.layer[Target[x]] \in Nat /\ Drawn(b, Target[x]) \in Int
      BY <1>3, <2>3, <2>6, <3>1
    <3>. QED BY <3>2, <3>3
  <2>8. f[i] = Page(addCurrent(o.history, x), applyEdit(o.layer, x), TRUE)
    BY <2>1, <2>3, <2>7 DEF PushOn
  <2>9. f[i].ok /\ f[i].history = addCurrent(o.history, x) /\ f[i].layer = applyEdit(o.layer, x)
    BY <2>8 DEF Page
  <2>10. f[i].history = [current |-> h.current \o Append(b, x), undone |-> h.undone]
    <3> DEFINE c == h.current
    <3>1. c \in Seq(Edit) BY <1>2
    <3> HIDE DEF c
    <3>2. c \o Append(b, x) = Append(c \o b, x) BY <2>1, <2>2, <3>1, EndOfEdits, Zenon
    <3>3. addCurrent(o.history, x) = [current |-> Append(c \o b, x), undone |-> h.undone]
      <4>1. o.history \in EditState BY <2>1, PageParts
      <4>2. addCurrent(o.history, x) = [current |-> Append(o.history.current, x), undone |-> o.history.undone]
        BY <2>1, <4>1, Setters
      <4>3. o.history.current = c \o b /\ o.history.undone = h.undone BY <2>3 DEF c
      <4>. QED BY <4>2, <4>3
    <3>. QED BY <2>9, <3>2, <3>3 DEF c
  <2>11. \A a \in Adds : f[i].layer[a] = p.layer[a] + Drawn(Append(b, x), a)
    <3> TAKE a \in Adds
    <3>1. applyEdit(o.layer, x)[a] = o.layer[a] + Gain(x, a) BY <2>1, <2>5, <2>7, Applied
    <3>2. o.layer[a] = p.layer[a] + Drawn(b, a) BY <2>3
    <3>. QED BY <1>3, <2>6, <2>9, <3>1, <3>2
  <2>. QED BY <2>2, <2>9, <2>10, <2>11
<1> HIDE DEF Is
<1>6. 0 \in T BY <1>1, <1>4
<1>7. ASSUME NEW i \in 1 .. Len(s), i - 1 \in T PROVE i \in T
  <2>1. Is(i - 1) /\ i \in 0 .. Len(s) BY <1>1, <1>7
  <2>2. Is(i) BY <1>5, <2>1
  <2>. QED BY <2>1, <2>2
<1>8. \A i \in 0 .. Len(s) : i \in T
  <2> HIDE DEF T
  <2>. QED BY <1>1, <1>6, <1>7, InductionUpTo
<1>9. Is(Len(s))
  <2>1. Len(s) \in T BY <1>1, <1>8
  <2>. QED BY <2>1
<1>10. Up(Len(s)) = s BY SubSeqFull
<1> HIDE DEF Up
<1>. QED BY <1>9, <1>10 DEF Is

(* ... and the undone ones by the others.                                  *)
LEMMA ListedLoop ==
  ASSUME NEW p \in PageState, NEW s \in Seq(Edit), p.ok,
         NEW f \in [0 .. Len(s) -> PageState],
         f[0] = p, \A i \in 1 .. Len(s) : f[i] = AddUndoneOn(f[i - 1], s[i])
  PROVE  /\ f[Len(s)].ok /\ f[Len(s)].layer = p.layer
         /\ f[Len(s)].history = [current |-> p.history.current, undone |-> p.history.undone \o s]
<1> DEFINE h == p.history
           Up(i) == SubSeq(s, 1, i)
           Is(i) == /\ f[i].ok /\ f[i].layer = p.layer
                    /\ f[i].history = [current |-> h.current, undone |-> h.undone \o Up(i)]
           T == {i \in 0 .. Len(s) : Is(i)}
<1>1. Len(s) \in Nat /\ \A i \in 1 .. Len(s) : s[i] \in Edit BY LenProperties, ElementOfSeq
<1>2. h.current \in Seq(Edit) /\ h.undone \in Seq(Edit) /\ h \in EditState BY PageParts
<1>4. Is(0)
  <2>1. Up(0) = <<>> BY SubSeqEmpty
  <2>2. h.undone \o <<>> = h.undone BY <1>2, ConcatEmptySeq
  <2>3. f[0].history = [current |-> h.current, undone |-> h.undone] BY <1>2 DEF EditState
  <2>4. f[0].history = [current |-> h.current, undone |-> h.undone \o Up(0)] BY <2>1, <2>2, <2>3
  <2>. QED BY <2>4
<1>5. ASSUME NEW i \in 1 .. Len(s), Is(i - 1) PROVE Is(i)
  <2> DEFINE b == Up(i - 1)
             x == s[i]
             o == f[i - 1]
  <2>1. x \in Edit /\ o \in PageState /\ f[i] = AddUndoneOn(o, x)
    <3>1. i - 1 \in 0 .. Len(s) BY <1>1
    <3>. QED BY <1>1, <3>1
  <2>2. b \in Seq(Edit) /\ Up(i) = Append(b, x) BY LongerPrefix
  <2>3. /\ o.ok /\ o.layer = p.layer
        /\ o.history = [current |-> h.current, undone |-> h.undone \o b]
    BY <1>5
  <2> HIDE DEF b, x, o, h, Up
  <2>4. f[i] = [o EXCEPT !.history = addUndone(o.history, x)] BY <2>1, <2>3 DEF AddUndoneOn
  <2>5. f[i].ok = o.ok /\ f[i].layer = o.layer /\ f[i].history = addUndone(o.history, x)
    BY <2>1, <2>4 DEF PageState
  <2>6. h.undone \o Append(b, x) = Append(h.undone \o b, x)
    <3> DEFINE u == h.undone
    <3>1. u \in Seq(Edit) BY <1>2
    <3> HIDE DEF u
    <3>2. \A j \in Seq(Edit) : j \o Append(b, x) = Append(j \o b, x) BY <2>1, <2>2, EndOfEdits, Zenon
    <3>3. u \o Append(b, x) = Append(u \o b, x) BY <3>1, <3>2
    <3>. QED BY <3>3 DEF u
  <2>7. addUndone(o.history, x) = [current |-> h.current, undone |-> Append(h.undone \o b, x)]
    <3>1. o.history \in EditState BY <2>1, PageParts
    <3>2. addUndone(o.history, x) = [current |-> o.history.current, undone |-> Append(o.history.undone, x)]
      BY <2>1, <3>1, Setters
    <3>3. o.history.undone = h.undone \o b /\ o.history.current = h.current BY <2>3
    <3>. QED BY <3>2, <3>3
  <2>8. f[i].history = [current |-> h.current, undone |-> h.undone \o Append(b, x)]
    BY <2>5, <2>6, <2>7
  <2>. QED BY <2>2, <2>3, <2>5, <2>8
<1> HIDE DEF Is
<1>6. 0 \in T BY <1>1, <1>4
<1>7. ASSUME NEW i \in 1 .. Len(s), i - 1 \in T PROVE i \in T
  <2>1. Is(i - 1) /\ i \in 0 .. Len(s) BY <1>1, <1>7
  <2>2. Is(i) BY <1>5, <2>1
  <2>. QED BY <2>1, <2>2
<1>8. \A i \in 0 .. Len(s) : i \in T
  <2> HIDE DEF T
  <2>. QED BY <1>1, <1>6, <1>7, InductionUpTo
<1>9. Is(Len(s))
  <2>1. Len(s) \in T BY <1>1, <1>8
  <2>. QED BY <2>1
<1>10. Up(Len(s)) = s BY SubSeqFull
<1> HIDE DEF Up
<1>. QED BY <1>9, <1>10 DEF Is

(* A page that is answered: what it lists and draws is followed by what    *)
(* the room lists, if that can be drawn.                                   *)
LEMMA Pulled ==
  ASSUME NEW p \in PageState, NEW d \in Answer, d.delete_current = {}, d.delete_undone = {},
         NEW cd \in SetToSeqs(d.delete_current), NEW ud \in SetToSeqs(d.delete_undone)
  PROVE  /\ PullOn(p, d, cd, ud) \in PageState
         /\ p.ok /\ Drawable(d.create_current) =>
              /\ PullOn(p, d, cd, ud).ok
              /\ PullOn(p, d, cd, ud).history
                   = [current |-> p.history.current \o d.create_current,
                      undone |-> p.history.undone \o d.create_undone]
              /\ \A a \in Adds : PullOn(p, d, cd, ud).layer[a] = p.layer[a] + Drawn(d.create_current, a)
<1> DEFINE s == d.create_current
           u == d.create_undone
           h == p.history
<1>1. s \in Seq(Edit) /\ u \in Seq(Edit) BY DEF Answer
<1>2. cd = <<>> /\ ud = <<>> BY NothingToDelete
<1>3. PullOn(p, d, cd, ud) = ForEach(AddUndoneOn, ForEach(PushOn, p, s), u)
  BY <1>2, NoLoop DEF PullOn
<1> HIDE DEF s, u
<1>4. PICK f \in [0 .. Len(s) -> PageState] :
           /\ f[0] = p /\ f[Len(s)] = ForEach(PushOn, p, s)
           /\ \A i \in 1 .. Len(s) : f[i] = PushOn(f[i - 1], s[i])
  BY <1>1, PushLoop
<1>5. /\ Len(s) \in Nat /\ Len(u) \in Nat
      /\ \A i \in 1 .. Len(s) : s[i] \in Edit
      /\ \A i \in 1 .. Len(u) : u[i] \in Edit
  BY <1>1, LenProperties, ElementOfSeq
<1> DEFINE q == ForEach(PushOn, p, s)
<1>6. q \in PageState
  <2>1. Len(s) \in 0 .. Len(s) BY <1>5
  <2>. QED BY <1>4, <2>1
<1> HIDE DEF q
<1>7. PICK g \in [0 .. Len(u) -> PageState] :
           /\ g[0] = q /\ g[Len(u)] = ForEach(AddUndoneOn, q, u)
           /\ \A i \in 1 .. Len(u) : g[i] = AddUndoneOn(g[i - 1], u[i])
  BY <1>1, <1>6, AddUndoneLoop
<1>8. PullOn(p, d, cd, ud) = g[Len(u)] BY <1>3, <1>7 DEF q
<1>9. PullOn(p, d, cd, ud) \in PageState
  <2>1. Len(u) \in 0 .. Len(u) BY <1>5
  <2>. QED BY <1>7, <1>8, <2>1
<1>10. h.current \in Seq(Edit) /\ h.undone \in Seq(Edit) /\ h \in EditState BY PageParts
<1> HIDE DEF h
<1>11. ASSUME p.ok, Drawable(s)
       PROVE  /\ q.ok /\ q.history = [current |-> h.current \o s, undone |-> h.undone]
              /\ \A a \in Adds : q.layer[a] = p.layer[a] + Drawn(s, a)
  <2>1. /\ f[Len(s)].ok
        /\ f[Len(s)].history = [current |-> p.history.current \o s, undone |-> p.history.undone]
        /\ \A a \in Adds : f[Len(s)].layer[a] = p.layer[a] + Drawn(s, a)
    BY <1>1, <1>4, <1>11, DrawnLoop
  <2>2. f[Len(s)] = q BY <1>4 DEF q
  <2>. QED BY <2>1, <2>2 DEF h
<1>12. ASSUME q.ok
       PROVE  /\ g[Len(u)].ok /\ g[Len(u)].layer = q.layer
              /\ g[Len(u)].history = [current |-> q.history.current, undone |-> q.history.undone \o u]
  BY <1>1, <1>6, <1>7, <1>12, ListedLoop
<1>13. ASSUME p.ok, Drawable(s)
       PROVE  /\ g[Len(u)].ok /\ g[Len(u)].history = [current |-> h.current \o s, undone |-> h.undone \o u]
              /\ \A a \in Adds : g[Len(u)].layer[a] = p.layer[a] + Drawn(s, a)
  <2>1. /\ q.ok /\ q.history = [current |-> h.current \o s, undone |-> h.undone]
        /\ \A a \in Adds : q.layer[a] = p.layer[a] + Drawn(s, a)
    BY <1>11, <1>13
  <2>2. q.history.current = h.current \o s /\ q.history.undone = h.undone BY <2>1
  <2>. QED BY <1>12, <2>1, <2>2
<1>. QED BY <1>8, <1>9, <1>13 DEF s, u, h

----------------------------------------------------------------------------
(* Lists of messages.                                                      *)

EditKind == {"push", "undo", "redo", "empty"}

(* A message of one of the kinds K is among those of q, at most one is.    *)
Carries(q, K) == \E i \in 1 .. Len(q) : q[i].kind \in K
One(q, K) == \A i, j \in 1 .. Len(q) : q[i].kind \in K /\ q[j].kind \in K => i = j

(* Those of the kinds K come after those of the kinds J.                   *)
After(q, K, J) == \A i, j \in 1 .. Len(q) : q[i].kind \in K /\ q[j].kind \in J => j < i

(* Nothing is in an empty list.                                            *)
LEMMA CarriesNone ==
  ASSUME NEW K, NEW J
  PROVE  ~Carries(<<>>, K) /\ One(<<>>, K) /\ After(<<>>, K, J)
BY DEF Carries, One, After

(* A message is put behind the others.                                     *)
LEMMA CarriesAppend ==
  ASSUME NEW S, NEW q \in Seq(S), NEW m \in S, NEW K, NEW J
  PROVE  /\ Carries(Append(q, m), K) <=> Carries(q, K) \/ m.kind \in K
         /\ One(q, K) /\ (m.kind \in K => ~Carries(q, K)) => One(Append(q, m), K)
         /\ After(q, K, J) /\ m.kind \notin J => After(Append(q, m), K, J)
<1> DEFINE n == Len(q)
           t == Append(q, m)
<1>1. n \in Nat /\ Len(t) = n + 1 /\ t[n + 1] = m /\ \A i \in 1 .. n : t[i] = q[i]
  BY AppendProperties, LenProperties
<1> HIDE DEF t, n
<1>2. \A i \in 1 .. n + 1 : i \in 1 .. n \/ i = n + 1 BY <1>1
<1>3. \A i \in 1 .. n : i \in 1 .. n + 1 /\ i < n + 1 BY <1>1
<1>4. n + 1 \in 1 .. n + 1 BY <1>1
<1>5. Carries(t, K) <=> Carries(q, K) \/ m.kind \in K
  <2>1. ASSUME Carries(t, K) PROVE Carries(q, K) \/ m.kind \in K
    <3>1. PICK i \in 1 .. n + 1 : t[i].kind \in K BY <1>1, <2>1 DEF Carries
    <3>. QED BY <1>1, <1>2, <3>1 DEF Carries, n
  <2>2. ASSUME Carries(q, K) PROVE Carries(t, K)
    <3>1. PICK i \in 1 .. n : q[i].kind \in K BY <2>2 DEF Carries, n
    <3>. QED BY <1>1, <1>3, <3>1 DEF Carries
  <2>3. ASSUME m.kind \in K PROVE Carries(t, K) BY <1>1, <1>4, <2>3 DEF Carries
  <2>. QED BY <2>1, <2>2, <2>3
<1>6. ASSUME One(q, K), m.kind \in K => ~Carries(q, K) PROVE One(t, K)
  <2> SUFFICES ASSUME NEW i \in 1 .. n + 1, NEW j \in 1 .. n + 1, t[i].kind \in K, t[j].kind \in K
               PROVE  i = j
    BY <1>1 DEF One
  <2>1. CASE i \in 1 .. n /\ j \in 1 .. n BY <1>1, <1>6, <2>1 DEF One, n
  <2>2. CASE i = n + 1 /\ j = n + 1 BY <2>2
  <2>3. CASE i = n + 1 /\ j \in 1 .. n BY <1>1, <1>6, <2>3 DEF Carries, n
  <2>4. CASE j = n + 1 /\ i \in 1 .. n BY <1>1, <1>6, <2>4 DEF Carries, n
  <2>. QED BY <1>2, <2>1, <2>2, <2>3, <2>4
<1>7. ASSUME After(q, K, J), m.kind \notin J PROVE After(t, K, J)
  <2> SUFFICES ASSUME NEW i \in 1 .. n + 1, NEW j \in 1 .. n + 1, t[i].kind \in K, t[j].kind \in J
               PROVE  j < i
    BY <1>1 DEF After
  <2>1. j \in 1 .. n BY <1>1, <1>2, <1>7
  <2>2. CASE i \in 1 .. n BY <1>1, <1>7, <2>1, <2>2 DEF After, n
  <2>3. CASE i = n + 1 BY <1>3, <2>1, <2>3
  <2>. QED BY <1>2, <2>2, <2>3
<1>. QED BY <1>5, <1>6, <1>7 DEF t

(* What is left without the first.                                         *)
LEMMA TailIs ==
  ASSUME NEW S, NEW q \in Seq(S), q # <<>>
  PROVE  /\ Tail(q) \in Seq(S) /\ Head(q) \in S /\ Head(q) = q[1]
         /\ Len(q) \in Nat \ {0} /\ Len(Tail(q)) = Len(q) - 1
         /\ \A i \in 1 .. Len(q) - 1 : Tail(q)[i] = q[i + 1]
<1>1. Len(q) \in Nat \ {0} BY EmptySeq, LenProperties
<1>2. Head(q) = q[1] /\ Head(q) \in S BY <1>1, ElementOfSeq
<1>3. /\ Tail(q) \in Seq(S) /\ Len(Tail(q)) = Len(q) - 1
      /\ \A i \in 1 .. Len(Tail(q)) : Tail(q)[i] = q[i + 1]
  BY HeadTailProperties
<1>. QED BY <1>1, <1>2, <1>3

(* What is said of the kinds in a list, and of its head and its tail.      *)
LEMMA CarriesTail ==
  ASSUME NEW S, NEW q \in Seq(S), q # <<>>, NEW K, NEW J
  PROVE  /\ Carries(q, K) <=> Head(q).kind \in K \/ Carries(Tail(q), K)
         /\ One(q, K) => One(Tail(q), K) /\ (Head(q).kind \in K => ~Carries(Tail(q), K))
         /\ After(q, K, J) => /\ After(Tail(q), K, J)
                              /\ (Head(q).kind \in K => ~Carries(q, J))
<1> DEFINE n == Len(q) - 1
           t == Tail(q)
<1>1. /\ n \in Nat /\ Len(q) = n + 1 /\ Len(t) = n /\ Head(q) = q[1]
      /\ \A i \in 1 .. n : t[i] = q[i + 1]
  BY TailIs
<1> HIDE DEF n, t
<1>2. \A i \in 1 .. n + 1 : i = 1 \/ (i - 1 \in 1 .. n /\ i = (i - 1) + 1) BY <1>1
<1>3. \A i \in 1 .. n : i + 1 \in 1 .. n + 1 /\ i + 1 # 1 BY <1>1
<1>4. 1 \in 1 .. n + 1 BY <1>1
<1>5. Carries(q, K) <=> Head(q).kind \in K \/ Carries(t, K)
  <2>1. ASSUME Carries(q, K), Head(q).kind \notin K PROVE Carries(t, K)
    <3>1. PICK i \in 1 .. n + 1 : q[i].kind \in K BY <1>1, <2>1 DEF Carries
    <3>2. i - 1 \in 1 .. n /\ t[i - 1] = q[i] BY <1>1, <1>2, <2>1, <3>1
    <3>. QED BY <1>1, <3>1, <3>2 DEF Carries
  <2>2. ASSUME Carries(t, K) PROVE Carries(q, K)
    <3>1. PICK i \in 1 .. n : t[i].kind \in K BY <1>1, <2>2 DEF Carries
    <3>2. q[i + 1].kind \in K /\ i + 1 \in 1 .. n + 1 BY <1>1, <1>3, <3>1
    <3>. QED BY <1>1, <3>2 DEF Carries
  <2>3. ASSUME Head(q).kind \in K PROVE Carries(q, K) BY <1>1, <1>4, <2>3 DEF Carries
  <2>. QED BY <2>1, <2>2, <2>3
<1>6. ASSUME One(q, K) PROVE One(t, K) /\ (Head(q).kind \in K => ~Carries(t, K))
  <2>1. ASSUME NEW i \in 1 .. n, NEW j \in 1 .. n, t[i].kind \in K, t[j].kind \in K PROVE i = j
    <3>1. i + 1 \in 1 .. n + 1 /\ j + 1 \in 1 .. n + 1 /\ q[i + 1].kind \in K /\ q[j + 1].kind \in K
      BY <1>1, <1>3, <2>1
    <3>2. i + 1 = j + 1 BY <1>1, <1>6, <3>1 DEF One
    <3>. QED BY <1>1, <3>2
  <2>2. ASSUME Head(q).kind \in K, Carries(t, K) PROVE FALSE
    <3>1. PICK i \in 1 .. n : t[i].kind \in K BY <1>1, <2>2 DEF Carries
    <3>2. q[i + 1].kind \in K /\ i + 1 \in 1 .. n + 1 /\ i + 1 # 1 BY <1>1, <1>3, <3>1
    <3>3. q[1].kind \in K BY <1>1, <2>2
    <3>. QED BY <1>1, <1>4, <1>6, <3>2, <3>3 DEF One
  <2>. QED BY <1>1, <2>1, <2>2 DEF One
<1>7. ASSUME After(q, K, J) PROVE After(t, K, J) /\ (Head(q).kind \in K => ~Carries(q, J))
  <2>1. ASSUME NEW i \in 1 .. n, NEW j \in 1 .. n, t[i].kind \in K, t[j].kind \in J PROVE j < i
    <3>1. i + 1 \in 1 .. n + 1 /\ j + 1 \in 1 .. n + 1 /\ q[i + 1].kind \in K /\ q[j + 1].kind \in J
      BY <1>1, <1>3, <2>1
    <3>2. j + 1 < i + 1 BY <1>1, <1>7, <3>1 DEF After
    <3>. QED BY <1>1, <3>2
  <2>2. ASSUME Head(q).kind \in K, Carries(q, J) PROVE FALSE
    <3>1. PICK j \in 1 .. n + 1 : q[j].kind \in J BY <1>1, <2>2 DEF Carries
    <3>2. q[1].kind \in K BY <1>1, <2>2
    <3>3. j < 1 BY <1>1, <1>4, <1>7, <3>1, <3>2 DEF After
    <3>. QED BY <1>1, <3>3
  <2>. QED BY <1>1, <2>1, <2>2 DEF After
<1>. QED BY <1>5, <1>6, <1>7 DEF t

(* A message is put in front of the others.                                *)
LEMMA CarriesFront ==
  ASSUME NEW S, NEW q \in Seq(S), NEW m \in S, NEW K
  PROVE  /\ <<m>> \o q \in Seq(S) /\ <<m>> \o q # <<>> /\ Head(<<m>> \o q) = m
         /\ Tail(<<m>> \o q) = q
         /\ Carries(<<m>> \o q, K) <=> m.kind \in K \/ Carries(q, K)
         /\ One(q, K) /\ m.kind \notin K => One(<<m>> \o q, K)
<1> DEFINE n == Len(q)
           t == <<m>> \o q
<1>1. n \in Nat /\ <<m>> \in Seq(S) /\ Len(<<m>>) = 1 /\ <<m>>[1] = m BY LenProperties
<1>2. /\ t \in Seq(S) /\ Len(t) = 1 + n /\ t[1] = m
      /\ \A i \in 1 .. 1 + n : t[i] = IF i <= 1 THEN <<m>>[i] ELSE q[i - 1]
  BY <1>1, ConcatProperties
<1>3. t # <<>> BY <1>1, <1>2
<1> HIDE DEF t, n
<1>4. Head(t) = m /\ Tail(t) \in Seq(S) /\ Len(Tail(t)) = n /\ \A i \in 1 .. n : Tail(t)[i] = t[i + 1]
  BY <1>1, <1>2, <1>3, TailIs
<1>5. \A i \in 1 .. n : Tail(t)[i] = q[i]
  <2> TAKE i \in 1 .. n
  <2>1. i + 1 \in 1 .. 1 + n /\ ~(i + 1 <= 1) /\ (i + 1) - 1 = i BY <1>1
  <2>. QED BY <1>2, <1>4, <2>1
<1>6. Tail(t) = q BY <1>4, <1>5, SeqEqual DEF n
<1>7. Carries(t, K) <=> m.kind \in K \/ Carries(q, K) BY <1>2, <1>3, <1>4, <1>6, CarriesTail
<1>8. ASSUME One(q, K), m.kind \notin K PROVE One(t, K)
  <2> SUFFICES ASSUME NEW i \in 1 .. 1 + n, NEW j \in 1 .. 1 + n, t[i].kind \in K, t[j].kind \in K
               PROVE  i = j
    BY <1>2 DEF One
  <2>1. i # 1 /\ j # 1 BY <1>2, <1>8
  <2>2. i - 1 \in 1 .. n /\ j - 1 \in 1 .. n BY <1>1, <2>1
  <2>3. t[i] = q[i - 1] /\ t[j] = q[j - 1] BY <1>1, <1>2, <2>1
  <2>4. i - 1 = j - 1 BY <1>8, <2>2, <2>3 DEF One, n
  <2>. QED BY <1>1, <2>4
<1>. QED BY <1>2, <1>3, <1>4, <1>6, <1>7, <1>8 DEF t

----------------------------------------------------------------------------
(* What travels.                                                           *)

NoView == [current |-> {}, undone |-> {}]
NoDeletes == {d \in Answer : d.delete_current = {} /\ d.delete_undone = {}}

OnEdit == [kind : {"push", "undo", "redo"}, id : Edit]
InMessage == [kind : {"empty"}] \cup OnEdit \cup [kind : {"pulled"}, data : NoDeletes]
OutMessage(c) == [kind : {"join", "empty", "quit"}] \cup OnEdit \cup [kind : {"pull"}, view : {NoView}]
                 \cup {m \in [kind : {"auth"}] : c \in Editor}
OtherKind == EditKind \cup {"join", "pull", "auth"}

(* What is sent and received are messages.                                 *)
LEMMA MessageSets ==
  ASSUME NEW c
  PROVE  InMessage \subseteq Message /\ OutMessage(c) \subseteq Message
<1>1. OnEdit \subseteq Message BY DEF OnEdit, Message
<1>2. [kind : {"empty"}] \subseteq Message /\ [kind : {"join", "empty", "quit"}] \subseteq Message
  BY DEF Message
<1>3. [kind : {"auth"}] \subseteq Message BY DEF Message
<1>4. [kind : {"pulled"}, data : NoDeletes] \subseteq Message BY DEF Message, NoDeletes
<1>5. [kind : {"pull"}, view : {NoView}] \subseteq Message
  <2>1. NoView \in View BY DEF NoView, View
  <2>. QED BY <2>1 DEF Message
<1>. QED BY <1>1, <1>2, <1>3, <1>4, <1>5 DEF InMessage, OutMessage

(* ... each of a kind.                                                     *)
LEMMA OutKinds ==
  ASSUME NEW c, NEW m \in OutMessage(c)
  PROVE  /\ m.kind \in OtherKind \cup {"quit"}
         /\ m.kind \in EditKind => m \in InMessage
         /\ m.kind \in {"push", "undo", "redo"} => m \in OnEdit /\ m.id \in Edit
         /\ m.kind = "pull" => m.view = NoView
         /\ m.kind = "auth" => c \in Editor
<1>1. CASE m \in OnEdit BY <1>1 DEF OnEdit, InMessage, EditKind, OtherKind
<1>2. CASE m \in [kind : {"join", "empty", "quit"}]
  <2>1. m.kind \in {"join", "empty", "quit"} BY <1>2
  <2>2. m.kind = "empty" => m \in [kind : {"empty"}] BY <1>2
  <2>. QED BY <2>1, <2>2 DEF InMessage, EditKind, OtherKind
<1>3. CASE m \in [kind : {"pull"}, view : {NoView}] BY <1>3 DEF EditKind, OtherKind
<1>4. CASE m \in [kind : {"auth"}] /\ c \in Editor BY <1>4 DEF EditKind, OtherKind
<1>. QED BY <1>1, <1>2, <1>3, <1>4 DEF OutMessage

(* What a message to a browser is, by its kind.                            *)
LEMMA InKinds ==
  ASSUME NEW m \in InMessage
  PROVE  /\ m.kind \in EditKind \cup {"pulled"}
         /\ m.kind \in {"push", "undo", "redo"} => m.id \in Edit
         /\ m.kind = "pulled" => /\ m.data \in Answer
                                 /\ m.data.delete_current = {} /\ m.data.delete_undone = {}
<1>1. CASE m \in OnEdit BY <1>1 DEF OnEdit, EditKind
<1>2. CASE m \in [kind : {"empty"}] BY <1>2 DEF EditKind
<1>3. CASE m \in [kind : {"pulled"}, data : NoDeletes] BY <1>3 DEF EditKind, NoDeletes
<1>. QED BY <1>1, <1>2, <1>3 DEF InMessage

(* The end of a list of messages.                                          *)
LEMMA EndOfNews ==
  \A j, s \in Seq(InMessage) : \A m \in InMessage : j \o Append(s, m) = Append(j \o s, m)
<1> TAKE j, s \in Seq(InMessage)
<1> TAKE m \in InMessage
<1>. QED BY EndOfList

(* What a user's action and a connection send.                             *)
LEMMA Sent ==
  ASSUME NEW c
  PROVE  /\ [kind |-> "join"] \in OutMessage(c) /\ [kind |-> "empty"] \in OutMessage(c)
         /\ [kind |-> "quit"] \in OutMessage(c)
         /\ [kind |-> "pull", view |-> NoView] \in OutMessage(c)
         /\ c \in Editor => [kind |-> "auth"] \in OutMessage(c)
         /\ \A x \in Edit : /\ [kind |-> "push", id |-> x] \in OutMessage(c)
                            /\ [kind |-> "undo", id |-> x] \in OutMessage(c)
                            /\ [kind |-> "redo", id |-> x] \in OutMessage(c)
<1>1. \A x \in Edit : /\ [kind |-> "push", id |-> x] \in OnEdit
                      /\ [kind |-> "undo", id |-> x] \in OnEdit
                      /\ [kind |-> "redo", id |-> x] \in OnEdit
  BY DEF OnEdit
<1>2. /\ [kind |-> "join"] \in [kind : {"join", "empty", "quit"}]
      /\ [kind |-> "empty"] \in [kind : {"join", "empty", "quit"}]
      /\ [kind |-> "quit"] \in [kind : {"join", "empty", "quit"}]
  OBVIOUS
<1>3. [kind |-> "pull", view |-> NoView] \in [kind : {"pull"}, view : {NoView}] OBVIOUS
<1>4. [kind |-> "auth"] \in [kind : {"auth"}] OBVIOUS
<1>. QED BY <1>1, <1>2, <1>3, <1>4 DEF OutMessage

(* The answer to a browser that has nothing: all the room has.             *)
LEMMA AnswerToNothing ==
  ASSUME NEW s \in EditState
  PROVE  /\ PullData(s, NoView) \in NoDeletes
         /\ PullData(s, NoView).create_current = s.current
         /\ PullData(s, NoView).create_undone = s.undone
<1>1. s.current \in Seq(Edit) /\ s.undone \in Seq(Edit) BY DEF EditState
<1>2. NoView \in View BY DEF NoView, View
<1>3. ASSUME NEW q \in Seq(Edit), NEW none, none = {} PROVE Missing(q, none) = q
  <2>1. PICK f \in [0 .. Len(q) -> Seq(Edit)] :
           /\ f[0] = <<>> /\ f[Len(q)] = Missing(q, none)
           /\ \A i \in 1 .. Len(q) :
                f[i] = IF q[i] \in none THEN f[i - 1] ELSE Append(f[i - 1], q[i])
    BY MissingStates
  <2> DEFINE Up(i) == SubSeq(q, 1, i)
             T == {i \in 0 .. Len(q) : f[i] = Up(i)}
  <2>2. Len(q) \in Nat BY LenProperties
  <2>3. 0 \in T
    <3>1. Up(0) = <<>> BY SubSeqEmpty
    <3>. QED BY <2>1, <2>2, <3>1
  <2>4. ASSUME NEW i \in 1 .. Len(q), i - 1 \in T PROVE i \in T
    <3>1. Up(i) = Append(Up(i - 1), q[i]) BY LongerPrefix
    <3>2. f[i] = Append(f[i - 1], q[i]) /\ f[i - 1] = Up(i - 1) BY <1>3, <2>1, <2>4
    <3>3. i \in 0 .. Len(q) BY <2>2
    <3> HIDE DEF Up
    <3>. QED BY <3>1, <3>2, <3>3
  <2>5. \A i \in 0 .. Len(q) : i \in T
    <3> HIDE DEF T
    <3>. QED BY <2>2, <2>3, <2>4, InductionUpTo
  <2>6. f[Len(q)] = Up(Len(q)) BY <2>2, <2>5
  <2>7. Up(Len(q)) = q BY SubSeqFull
  <2> HIDE DEF Up, T
  <2>. QED BY <2>1, <2>6, <2>7
<1>4. PullData(s, NoView) \in Answer BY <1>2, PullDataType
<1>5. /\ PullData(s, NoView).delete_current = {} /\ PullData(s, NoView).delete_undone = {}
      /\ PullData(s, NoView).create_current = Missing(s.current, {})
      /\ PullData(s, NoView).create_undone = Missing(s.undone, {})
  BY DEF PullData, NoView
<1>. QED BY <1>1, <1>3, <1>4, <1>5 DEF NoDeletes

(* Sequences of one set are sequences of a larger one.                     *)
LEMMA SeqOfMore ==
  ASSUME NEW S, NEW T, S \subseteq T, NEW q \in Seq(S)
  PROVE  q \in Seq(T)
<1>1. Len(q) \in Nat /\ q \in [1 .. Len(q) -> S] BY LenProperties, ElementOfSeq
<1>. QED BY <1>1, SeqDef

----------------------------------------------------------------------------
(* The wires, for any number of editors.                                   *)

Clean(c) == /\ history[c] = NoEdits /\ layer[c] = Blank /\ drawing[c] = None
            /\ chosen[c] = None /\ orphans[c] = {} /\ c \notin selected
Asking(c) == Carries(outbox[c], {"pull"})
Answered(c) == Carries(inbox[c], {"pulled"})
Fresh(c) == Open(c) /\ c \notin stale

(* What a connection's state says of its messages and its page.            *)
Wired(c) ==
  /\ outbox[c] \in Seq(OutMessage(c)) /\ inbox[c] \in Seq(InMessage)
  /\ link[c] \in {"closed", "opening"} => Clean(c) /\ inbox[c] = <<>> /\ c \notin stale
  /\ link[c] = "opening" => outbox[c] = <<>> /\ c \notin users /\ c \in loading
  /\ link[c] = "lost" => c \in stale /\ c \notin users /\ inbox[c] = <<>>
  /\ c \notin users => /\ Open(c) => outbox[c] # <<>>
                       /\ link[c] \in {"open", "closed"} /\ outbox[c] # <<>> => Head(outbox[c]).kind = "join"
  /\ Carries(outbox[c], {"quit"}) => /\ link[c] = "closed" /\ One(outbox[c], {"quit"})
                                 /\ After(outbox[c], {"quit"}, OtherKind)
  /\ c \in authed => c \in Editor /\ c \in users
  /\ c \in stale => ~Asking(c) /\ ~Answered(c) /\ c \notin authed /\ ~Carries(outbox[c], {"auth"})
  /\ One(outbox[c], {"pull"}) /\ One(inbox[c], {"pulled"})
  /\ Fresh(c) => /\ ~(Asking(c) /\ Answered(c))
                 /\ c \notin users => Asking(c)
                 /\ Asking(c) \/ Answered(c) => c \in loading

WiresOK == TypeOK /\ \A c \in Client : Wired(c)

(* Nothing of a browser moves.                                             *)
Unmoved(d) ==
  /\ history'[d] = history[d] /\ layer'[d] = layer[d] /\ drawing'[d] = drawing[d]
  /\ link'[d] = link[d] /\ outbox'[d] = outbox[d] /\ inbox'[d] = inbox[d]
  /\ d \in users' <=> d \in users
  /\ d \in authed' <=> d \in authed
  /\ d \in loading' <=> d \in loading
  /\ d \in stale' <=> d \in stale
  /\ chosen'[d] = chosen[d] /\ orphans'[d] = orphans[d]
  /\ d \in selected' <=> d \in selected

(* A browser that nothing happens to stays as it was.                      *)
LEMMA StillWired ==
  ASSUME NEW d \in Client, Wired(d), Unmoved(d)
  PROVE  Wired(d)'
BY DEF Wired, Unmoved, Clean, Asking, Answered, Fresh, Open

(* The actions of one browser leave the others alone.                      *)
Alone(c) == \A d \in Client \ {c} : Unmoved(d)

(* A step of one browser has to keep the wires of that one only.           *)
LEMMA ByOne ==
  ASSUME WiresOK, NEW c \in Client, Alone(c), TypeOK', Wired(c)'
  PROVE  WiresOK'
<1>1. ASSUME NEW d \in Client PROVE Wired(d)'
  <2>1. CASE d = c BY <2>1
  <2>2. CASE d # c
    <3>1. Wired(d) /\ Unmoved(d) BY <2>2 DEF WiresOK, Alone
    <3>. QED BY <3>1, StillWired
  <2>. QED BY <2>1, <2>2
<1>. QED BY <1>1 DEF WiresOK

(* What is on a wire is typed when one end is.                             *)
LEMMA WireTypes ==
  ASSUME TypeOK, NEW c \in Client
  PROVE  /\ \A q \in Seq(OutMessage(c)) : /\ [outbox EXCEPT ![c] = q] \in [Client -> Seq(Message)]
                                          /\ [outbox EXCEPT ![c] = q][c] = q
                                          /\ \A d \in Client \ {c} : [outbox EXCEPT ![c] = q][d] = outbox[d]
         /\ \A q \in Seq(InMessage) : /\ [inbox EXCEPT ![c] = q] \in [Client -> Seq(Message)]
                                      /\ [inbox EXCEPT ![c] = q][c] = q
                                      /\ \A d \in Client \ {c} : [inbox EXCEPT ![c] = q][d] = inbox[d]
<1>1. ASSUME NEW q \in Seq(OutMessage(c)) PROVE q \in Seq(Message)
  BY MessageSets, SeqOfMore
<1>2. ASSUME NEW q \in Seq(InMessage) PROVE q \in Seq(Message)
  BY MessageSets, SeqOfMore
<1>3. outbox \in [Client -> Seq(Message)] /\ inbox \in [Client -> Seq(Message)] BY DEF TypeOK
<1> DEFINE S == Seq(Message)
<1> HIDE DEF S
<1>4. outbox \in [Client -> S] /\ inbox \in [Client -> S] BY <1>3 DEF S
<1>5. ASSUME NEW q \in S
      PROVE  /\ [outbox EXCEPT ![c] = q] \in [Client -> S] /\ [outbox EXCEPT ![c] = q][c] = q
             /\ \A d \in Client \ {c} : [outbox EXCEPT ![c] = q][d] = outbox[d]
             /\ [inbox EXCEPT ![c] = q] \in [Client -> S] /\ [inbox EXCEPT ![c] = q][c] = q
             /\ \A d \in Client \ {c} : [inbox EXCEPT ![c] = q][d] = inbox[d]
  BY <1>4
<1>. QED BY <1>1, <1>2, <1>5 DEF S

(* At the beginning every page is closed.                                  *)
LEMMA WiresInit ==
  ASSUME Init
  PROVE  WiresOK
<1>1. NoEdits \in EditState BY DEF NoEdits, EditState
<1>2. Blank \in [Adds -> Nat] BY DEF Blank
<1>3. TypeOK BY <1>1, <1>2, CollabAssumption DEF Init, TypeOK
<1>4. ASSUME NEW c \in Client PROVE Wired(c)
  <2>1. /\ outbox[c] = <<>> /\ inbox[c] = <<>> /\ link[c] = "closed" /\ Clean(c)
        /\ c \notin authed /\ c \notin stale
    BY DEF Init, Clean
  <2>2. <<>> \in Seq(OutMessage(c)) /\ <<>> \in Seq(InMessage) BY EmptySeq
  <2>. QED BY <2>1, <2>2, CarriesNone DEF Wired, Asking, Answered, Fresh, Open
<1>. QED BY <1>3, <1>4 DEF WiresOK

(* A page is opened.                                                       *)
LEMMA ConnectWires ==
  ASSUME WiresOK, NEW c \in Client, Connect(c)
  PROVE  WiresOK' /\ Alone(c)
<1>1. TypeOK' BY DEF WiresOK, TypeOK, Connect, server, browser, bounds, ghosts
<1>2. Alone(c) BY DEF WiresOK, TypeOK, Connect, server, browser, bounds, ghosts, Alone, Unmoved
<1>3. /\ link[c] = "closed" /\ link'[c] = "opening" /\ outbox'[c] = <<>> /\ c \notin users'
      /\ c \in loading' /\ history'[c] = history[c] /\ layer'[c] = layer[c]
      /\ drawing'[c] = drawing[c] /\ inbox'[c] = inbox[c] /\ outbox[c] = <<>>
      /\ authed' = authed /\ stale' = stale /\ users' = users
      /\ UNCHANGED <<chosen, orphans, selected>>
  BY DEF WiresOK, TypeOK, Connect, server, browser, bounds, ghosts
<1>4. Wired(c) BY DEF WiresOK
<1>5. Clean(c) /\ inbox[c] = <<>> /\ c \notin stale BY <1>3, <1>4 DEF Wired
<1>6. Clean(c)' BY <1>3, <1>5 DEF Clean
<1>7. Wired(c)' BY <1>3, <1>4, <1>5, <1>6, CarriesNone DEF Wired, Asking, Answered, Fresh, Open
<1>. QED BY <1>1, <1>2, <1>7, ByOne

(* ... and its connection.                                                 *)
Greeting(c) == Join \o <<>> \o <<[kind |-> "pull", view |-> NoView]>> \o AuthMsg(c)

(* The first messages of a connection: a join, a pull, an editor's auth.   *)
LEMMA Greets ==
  ASSUME NEW c
  PROVE  /\ Greeting(c) \in Seq(OutMessage(c)) /\ Greeting(c) # <<>> /\ Head(Greeting(c)).kind = "join"
         /\ Carries(Greeting(c), {"pull"}) /\ One(Greeting(c), {"pull"})
         /\ ~Carries(Greeting(c), {"quit"}) /\ ~Carries(Greeting(c), EditKind)
         /\ c \in Editor => Carries(Greeting(c), {"auth"})
<1> DEFINE S == OutMessage(c)
           j == [kind |-> "join"]
           p == [kind |-> "pull", view |-> NoView]
           a == [kind |-> "auth"]
           q == <<j>>
           g == Append(q, p)
           h == Append(g, a)
<1>1. j \in S /\ p \in S /\ (c \in Editor => a \in S) BY Sent
<1>2. j.kind = "join" /\ p.kind = "pull" /\ a.kind = "auth" OBVIOUS
<1>3. Greeting(c) = (((q \o <<>>) \o <<p>>) \o (IF c \in Editor THEN <<a>> ELSE <<>>))
  BY DEF Greeting, Join, AuthMsg
<1> HIDE DEF S, j, p, a
<1>4. q \in Seq(S) /\ q # <<>> /\ Head(q) = j /\ Len(q) = 1 /\ q[1] = j BY <1>1
<1>5. \A K : Carries(q, K) <=> j.kind \in K BY <1>4 DEF Carries
<1>6. One(q, {"pull"}) BY <1>4 DEF One
<1> HIDE DEF q
<1>7. q \o <<>> = q /\ q \o <<p>> = g BY <1>1, <1>4, ConcatEmptySeq, AppendIsConcat
<1>8. g \in Seq(S) /\ g # <<>> /\ Head(g) = j
  <2>1. g \in Seq(S) /\ g # <<>> /\ Len(q) \in Nat BY <1>1, <1>4, AppendProperties
  <2>2. g[1] = j BY <1>1, <1>4, AppendProperties
  <2> HIDE DEF g
  <2>3. Head(g) = g[1] BY <2>1, TailIs
  <2>. QED BY <2>1, <2>2, <2>3
<1>9. \A K : Carries(g, K) <=> j.kind \in K \/ p.kind \in K BY <1>1, <1>4, <1>5, CarriesAppend
<1>10. One(g, {"pull"})
  <2>1. ~Carries(q, {"pull"}) BY <1>2, <1>5
  <2>. QED BY <1>1, <1>4, <1>6, <2>1, CarriesAppend
<1>11. CASE c \notin Editor
  <2>1. Greeting(c) = g
    <3>1. Greeting(c) = g \o <<>> BY <1>3, <1>7, <1>11
    <3> HIDE DEF g
    <3>. QED BY <1>8, <3>1, ConcatEmptySeq
  <2> HIDE DEF g
  <2>. QED BY <1>2, <1>8, <1>9, <1>10, <1>11, <2>1 DEF EditKind, S
<1>12. CASE c \in Editor
  <2> HIDE DEF g
  <2>1. a \in S BY <1>1, <1>12
  <2>2. Greeting(c) = h BY <1>3, <1>7, <1>8, <1>12, <2>1, AppendIsConcat
  <2>3. h \in Seq(S) /\ h # <<>> /\ Head(h) = j
    <3>1. /\ h \in Seq(S) /\ h # <<>> /\ Len(g) \in Nat \ {0}
          /\ \A i \in 1 .. Len(g) : h[i] = g[i]
      BY <1>8, <2>1, AppendProperties, EmptySeq
    <3>2. g[1] = j BY <1>8, TailIs
    <3>3. h[1] = j BY <3>1, <3>2
    <3> HIDE DEF h
    <3>4. Head(h) = h[1] BY <3>1, TailIs
    <3>. QED BY <3>1, <3>3, <3>4
  <2>4. \A K : Carries(h, K) <=> j.kind \in K \/ p.kind \in K \/ a.kind \in K
    BY <1>8, <1>9, <2>1, CarriesAppend
  <2>5. One(h, {"pull"})
    <3>1. a.kind \notin {"pull"} BY <1>2
    <3>. QED BY <1>8, <1>10, <2>1, <3>1, CarriesAppend
  <2> HIDE DEF h
  <2>. QED BY <1>2, <1>12, <2>2, <2>3, <2>4, <2>5 DEF EditKind, S
<1>. QED BY <1>11, <1>12

(* The websocket opens (joinRoom).                                         *)
LEMMA OpenedWires ==
  ASSUME WiresOK, NEW c \in Client, Opened(c)
  PROVE  WiresOK' /\ Alone(c) /\ outbox'[c] = Greeting(c)
<1>1. Wired(c) /\ link[c] = "opening" BY DEF WiresOK, Opened
<1>2. Clean(c) /\ inbox[c] = <<>> /\ c \notin stale /\ outbox[c] = <<>> /\ c \notin users /\ c \in loading
  BY <1>1 DEF Wired
<1>3. PullMsg(c) = [kind |-> "pull", view |-> NoView]
  <2>1. ToSet(<<>>) = {} BY DEF ToSet
  <2>2. history[c].current = <<>> /\ history[c].undone = <<>> BY <1>2 DEF Clean, NoEdits
  <2>. QED BY <2>1, <2>2 DEF PullMsg, NoView
<1>4. outbox' = [outbox EXCEPT ![c] = Greeting(c)] BY <1>2, <1>3 DEF Opened, Greeting
<1>5. TypeOK
  BY DEF WiresOK
<1>6. /\ outbox' \in [Client -> Seq(Message)] /\ outbox'[c] = Greeting(c)
      /\ \A d \in Client \ {c} : outbox'[d] = outbox[d]
  BY <1>4, <1>5, Greets, WireTypes
<1>7. /\ link'[c] = "open" /\ \A d \in Client \ {c} : link'[d] = link[d]
      /\ UNCHANGED <<server, browser, inbox, bounds, ghosts, loading>>
      /\ link' \in [Client -> {"closed", "opening", "open", "lost"}]
  BY <1>5 DEF TypeOK, Opened
<1>8. TypeOK' BY <1>5, <1>6, <1>7 DEF TypeOK, server, browser, bounds, ghosts
<1>9. Alone(c) BY <1>6, <1>7 DEF server, browser, bounds, ghosts, Alone, Unmoved
<1>10. Wired(c)'
  <2>1. /\ inbox'[c] = <<>> /\ c \notin stale' /\ c \notin users' /\ c \in loading' /\ c \notin authed'
    BY <1>1, <1>2, <1>7 DEF Wired, server, browser, ghosts
  <2> DEFINE g == Greeting(c)
  <2>2. /\ outbox'[c] = g /\ g \in Seq(OutMessage(c)) /\ g # <<>> /\ Head(g).kind = "join"
        /\ Carries(g, {"pull"}) /\ One(g, {"pull"}) /\ ~Carries(g, {"quit"})
    BY <1>6, Greets
  <2>3. <<>> \in Seq(InMessage) BY EmptySeq
  <2> HIDE DEF g
  <2>. QED BY <1>7, <2>1, <2>2, <2>3, CarriesNone DEF Wired, Asking, Answered, Fresh, Open
<1>. QED BY <1>6, <1>8, <1>9, <1>10, ByOne

(* A page is left.                                                         *)
LEMMA DisconnectWires ==
  ASSUME WiresOK, NEW c \in Client, Disconnect(c)
  PROVE  /\ WiresOK' /\ Alone(c) /\ Clean(c)' /\ link'[c] = "closed"
         /\ outbox'[c] = IF Open(c) THEN Append(outbox[c], [kind |-> "quit"]) ELSE <<>>
<1> DEFINE quit == [kind |-> "quit"]
           q == IF Open(c) THEN Append(outbox[c], quit) ELSE <<>>
<1>1. Wired(c) /\ TypeOK BY DEF WiresOK
<1>2. outbox[c] \in Seq(OutMessage(c)) BY <1>1 DEF Wired
<1>3. quit \in OutMessage(c) /\ quit.kind = "quit" BY Sent
<1>4. q \in Seq(OutMessage(c)) BY <1>2, <1>3, AppendProperties, EmptySeq
<1>5. outbox' = [outbox EXCEPT ![c] = q] BY DEF Disconnect
<1> HIDE DEF quit, q
<1>6. /\ outbox' \in [Client -> Seq(Message)] /\ outbox'[c] = q
      /\ \A d \in Client \ {c} : outbox'[d] = outbox[d]
  BY <1>1, <1>4, <1>5, WireTypes
<1>7. NoEdits \in EditState /\ Blank \in [Adds -> Nat] BY DEF NoEdits, EditState, Blank
<1>8. /\ link' \in [Client -> {"closed", "opening", "open", "lost"}]
      /\ history' \in [Client -> EditState] /\ layer' \in [Client -> [Adds -> Nat]]
      /\ drawing' \in [Client -> Adds \cup {None}]
      /\ chosen' \in [Client -> Adds \cup {None}] /\ orphans' \in [Client -> SUBSET Adds]
      /\ link'[c] = "closed" /\ Clean(c)'
      /\ \A d \in Client \ {c} : /\ link'[d] = link[d] /\ history'[d] = history[d]
                                 /\ layer'[d] = layer[d] /\ drawing'[d] = drawing[d]
                                 /\ chosen'[d] = chosen[d] /\ orphans'[d] = orphans[d]
  BY <1>1, <1>7 DEF TypeOK, Disconnect, Clean
<1>9. /\ inbox' \in [Client -> Seq(Message)] /\ inbox'[c] = <<>>
      /\ \A d \in Client \ {c} : inbox'[d] = inbox[d]
  <2>1. <<>> \in Seq(InMessage) BY EmptySeq
  <2>. QED BY <1>1, <2>1, WireTypes DEF Disconnect
<1>10. /\ loading' = loading \ {c} /\ stale' = stale \ {c} /\ raced' = raced \ {c}
       /\ selected' = selected \ {c}
       /\ link[c] # "closed" /\ UNCHANGED <<room, users, authed, used, commands, odd>>
  BY DEF Disconnect, server, bounds
<1>11. TypeOK'
  <2>1. {loading', stale', raced', selected'} \subseteq SUBSET Client BY <1>1, <1>10 DEF TypeOK
  <2>2. room' \in EditState /\ users' \subseteq Client /\ authed' \subseteq users' /\ used' \subseteq Edit
        /\ commands' \in 0..MaxCommands /\ odd' \subseteq {"cut", "orphan"}
    BY <1>1, <1>10 DEF TypeOK
  <2>. QED BY <1>6, <1>8, <1>9, <2>1, <2>2 DEF TypeOK
<1>12. Alone(c) BY <1>6, <1>8, <1>9, <1>10 DEF Alone, Unmoved
<1>13. Wired(c)'
  <2>1. c \in authed' => c \in Editor /\ c \in users' BY <1>1, <1>10 DEF Wired
  <2>2. c \notin stale' /\ <<>> \in Seq(InMessage) BY <1>10, EmptySeq
  <2>3. CASE Open(c)
    <3>1. q = Append(outbox[c], quit) BY <2>3 DEF q
    <3>2. ~Carries(outbox[c], {"quit"}) BY <1>1, <2>3 DEF Wired, Open
    <3>3. c \notin users => outbox[c] # <<>> /\ Head(outbox[c]).kind = "join" BY <1>1, <2>3 DEF Wired, Open
    <3>4. c \notin users => Head(q).kind = "join"
      <4> SUFFICES ASSUME c \notin users PROVE Head(q).kind = "join"
        OBVIOUS
      <4>1. Head(q) = q[1] /\ Head(outbox[c]) = outbox[c][1] /\ Len(outbox[c]) \in Nat \ {0}
        <5>1. q # <<>> BY <1>2, <1>3, <3>1, AppendProperties
        <5>. QED BY <1>2, <1>4, <3>3, <5>1, TailIs
      <4>2. q[1] = outbox[c][1] BY <1>2, <1>3, <3>1, <4>1, AppendProperties
      <4>. QED BY <3>3, <4>1, <4>2
    <3>5. One(q, {"quit"}) /\ After(q, {"quit"}, OtherKind)
      <4>1. One(outbox[c], {"quit"}) /\ After(outbox[c], {"quit"}, OtherKind)
        BY <3>2 DEF Carries, One, After
      <4>2. quit.kind \notin OtherKind BY <1>3 DEF OtherKind, EditKind
      <4>. QED BY <1>2, <1>3, <3>1, <3>2, <4>1, <4>2, CarriesAppend
    <3>6. One(q, {"pull"})
      <4>1. One(outbox[c], {"pull"}) /\ quit.kind \notin {"pull"} BY <1>1, <1>3 DEF Wired
      <4>. QED BY <1>2, <1>3, <3>1, <4>1, CarriesAppend
    <3>. QED
      BY <1>4, <1>6, <1>8, <1>9, <1>10, <2>1, <2>2, <3>4, <3>5, <3>6, CarriesNone
      DEF Wired, Asking, Answered, Fresh, Open
  <2>4. CASE ~Open(c)
    <3>1. q = <<>> BY <2>4 DEF q
    <3>2. outbox'[c] = <<>> /\ <<>> \in Seq(OutMessage(c)) BY <1>4, <1>6, <3>1
    <3>3. link'[c] = "closed" /\ Clean(c)' /\ inbox'[c] = <<>> BY <1>8, <1>9
    <3>. QED BY <2>1, <2>2, <3>2, <3>3, CarriesNone DEF Wired, Asking, Answered, Fresh, Open
  <2>. QED BY <2>3, <2>4
<1>. QED BY <1>6, <1>8, <1>11, <1>12, <1>13, ByOne DEF q, quit

(* A connection is lost ...                                                *)
LEMMA LoseWires ==
  ASSUME WiresOK, NEW c \in Client, Lose(c)
  PROVE  WiresOK' /\ Alone(c) /\ outbox'[c] = <<>> /\ link'[c] = "lost" /\ c \in stale'
<1>1. Wired(c) /\ TypeOK /\ link[c] = "open" BY DEF WiresOK, Lose, Open
<1>2. <<>> \in Seq(InMessage) /\ <<>> \in Seq(OutMessage(c)) BY EmptySeq
<1>3. /\ outbox' \in [Client -> Seq(Message)] /\ inbox' \in [Client -> Seq(Message)]
      /\ outbox'[c] = <<>> /\ inbox'[c] = <<>>
      /\ \A d \in Client \ {c} : outbox'[d] = outbox[d] /\ inbox'[d] = inbox[d]
  BY <1>1, <1>2, WireTypes DEF Lose
<1>4. /\ link' \in [Client -> {"closed", "opening", "open", "lost"}]
      /\ link'[c] = "lost" /\ \A d \in Client \ {c} : link'[d] = link[d]
      /\ users' = users \ {c} /\ authed' = authed \ {c}
      /\ loading' = loading \cup {c} /\ stale' = stale \cup {c}
      /\ UNCHANGED <<room, history, layer, drawing, used, commands, raced>>
      /\ UNCHANGED <<chosen, selected, orphans, odd>>
  BY <1>1 DEF TypeOK, Lose, browser, bounds
<1>5. TypeOK' BY <1>1, <1>3, <1>4 DEF TypeOK
<1>6. Alone(c) BY <1>3, <1>4 DEF Alone, Unmoved
<1>7. Wired(c)' BY <1>2, <1>3, <1>4, CarriesNone DEF Wired, Asking, Answered, Fresh, Open
<1>. QED BY <1>3, <1>4, <1>5, <1>6, <1>7, ByOne

(* ... and another takes its place.                                        *)
LEMMA ReconnectWires ==
  ASSUME WiresOK, NEW c \in Client, Reconnect(c)
  PROVE  WiresOK' /\ Alone(c) /\ c \in stale'
<1> DEFINE join == [kind |-> "join"]
           q == <<join>> \o outbox[c]
<1>1. Wired(c) /\ TypeOK /\ link[c] = "lost" BY DEF WiresOK, Reconnect
<1>2. outbox[c] \in Seq(OutMessage(c)) BY <1>1 DEF Wired
<1>3. join \in OutMessage(c) /\ join.kind = "join" BY Sent
<1>4. outbox' = [outbox EXCEPT ![c] = q] BY DEF Reconnect, Join
<1> HIDE DEF join
<1>5. /\ q \in Seq(OutMessage(c)) /\ q # <<>> /\ Head(q).kind = "join"
      /\ \A K : Carries(q, K) <=> join.kind \in K \/ Carries(outbox[c], K)
      /\ \A K : One(outbox[c], K) /\ join.kind \notin K => One(q, K)
  BY <1>2, <1>3, CarriesFront
<1> HIDE DEF q
<1>6. /\ outbox' \in [Client -> Seq(Message)] /\ outbox'[c] = q
      /\ \A d \in Client \ {c} : outbox'[d] = outbox[d]
  BY <1>1, <1>4, <1>5, WireTypes
<1>7. /\ link' \in [Client -> {"closed", "opening", "open", "lost"}]
      /\ link'[c] = "open" /\ \A d \in Client \ {c} : link'[d] = link[d]
      /\ loading' = loading \ {c}
      /\ UNCHANGED <<room, users, authed, history, layer, drawing, inbox, used, commands, stale, raced>>
      /\ UNCHANGED <<chosen, selected, orphans, odd>>
  BY <1>1 DEF TypeOK, Reconnect, server, browser, bounds, ghosts
<1>8. TypeOK' BY <1>1, <1>6, <1>7 DEF TypeOK
<1>9. Alone(c) BY <1>6, <1>7 DEF Alone, Unmoved
<1>10. c \in stale /\ c \notin users /\ inbox[c] = <<>> /\ ~Carries(outbox[c], {"quit"}) /\ c \notin authed
       /\ ~Carries(outbox[c], {"pull"}) /\ ~Carries(outbox[c], {"auth"}) /\ One(outbox[c], {"pull"})
  BY <1>1 DEF Wired, Asking
<1>11. /\ ~Carries(q, {"quit"}) /\ ~Carries(q, {"pull"}) /\ ~Carries(q, {"auth"}) /\ One(q, {"pull"})
  BY <1>3, <1>5, <1>10
<1>12. <<>> \in Seq(InMessage) BY EmptySeq
<1>13. Wired(c)'
  BY <1>5, <1>6, <1>7, <1>10, <1>11, <1>12, CarriesNone DEF Wired, Asking, Answered, Fresh, Open
<1>. QED BY <1>7, <1>8, <1>9, <1>10, <1>13, ByOne

----------------------------------------------------------------------------
(* The user's actions.                                                     *)

(* The rest of what a user's action changes is of its own browser.         *)
Private(c) ==
  /\ chosen' \in [Client -> Adds \cup {None}] /\ orphans' \in [Client -> SUBSET Adds]
  /\ selected' \subseteq Client /\ odd' \subseteq {"cut", "orphan"}
  /\ \A d \in Client \ {c} : /\ chosen'[d] = chosen[d] /\ orphans'[d] = orphans[d]
                             /\ d \in selected' <=> d \in selected

(* ... as when nothing of it changes.                                      *)
LEMMA NothingPrivate ==
  ASSUME TypeOK, NEW c \in Client, NEW w \in Adds \cup {None},
         chosen' = [chosen EXCEPT ![c] = w] \/ chosen' = chosen,
         UNCHANGED <<selected, orphans, odd>>
  PROVE  Private(c)
<1>1. chosen \in [Client -> Adds \cup {None}] BY DEF TypeOK
<1>2. chosen' \in [Client -> Adds \cup {None}] /\ \A d \in Client \ {c} : chosen'[d] = chosen[d]
  <2>1. CASE chosen' = [chosen EXCEPT ![c] = w] BY <1>1, <2>1
  <2>2. CASE chosen' = chosen BY <1>1, <2>2
  <2>. QED BY <2>1, <2>2
<1>. QED BY <1>2 DEF Private, TypeOK

(* What the actions of a user have in common.                              *)
LEMMA UserWires ==
  ASSUME WiresOK, NEW c \in Client, link[c] \in {"open", "lost"},
         NEW m \in OutMessage(c), m.kind \in EditKind,
         outbox' = [outbox EXCEPT ![c] = Append(outbox[c], m)] \/ outbox' = outbox,
         UNCHANGED <<room, users, authed, link, inbox, loading, stale, raced>>,
         NEW h \in EditState, history' = [history EXCEPT ![c] = h],
         NEW l \in Layer, layer' = [layer EXCEPT ![c] = l],
         NEW w \in Adds \cup {None}, drawing' = [drawing EXCEPT ![c] = w],
         Private(c),
         used' \in SUBSET Edit, commands' \in 0 .. MaxCommands
  PROVE  /\ WiresOK' /\ Alone(c)
         /\ history'[c] = h /\ layer'[c] = l /\ drawing'[c] = w
<1> DEFINE q == Append(outbox[c], m)
<1>1. Wired(c) /\ TypeOK BY DEF WiresOK
<1>2. outbox[c] \in Seq(OutMessage(c)) BY <1>1 DEF Wired
<1>3. q \in Seq(OutMessage(c)) /\ q # <<>> BY <1>2, AppendProperties
<1>4. /\ history' \in [Client -> EditState] /\ layer' \in [Client -> [Adds -> Nat]]
      /\ drawing' \in [Client -> Adds \cup {None}]
      /\ history'[c] = h /\ layer'[c] = l /\ drawing'[c] = w
      /\ \A d \in Client \ {c} : /\ history'[d] = history[d] /\ layer'[d] = layer[d]
                                 /\ drawing'[d] = drawing[d]
  BY <1>1 DEF TypeOK, Layer
<1>5. /\ outbox' \in [Client -> Seq(Message)] /\ outbox'[c] \in {q, outbox[c]}
      /\ \A d \in Client \ {c} : outbox'[d] = outbox[d]
  <2>1. CASE outbox' = outbox BY <1>1, <2>1 DEF TypeOK
  <2>2. CASE outbox' = [outbox EXCEPT ![c] = q]
    <3> HIDE DEF q
    <3>. QED BY <1>1, <1>3, <2>2, WireTypes
  <2>. QED BY <2>1, <2>2
<1>6. TypeOK' BY <1>1, <1>4, <1>5 DEF TypeOK, Private
<1>7. Alone(c) BY <1>4, <1>5 DEF Alone, Unmoved, Private
<1>8. /\ Carries(q, {"pull"}) <=> Carries(outbox[c], {"pull"})
      /\ Carries(q, {"auth"}) <=> Carries(outbox[c], {"auth"})
      /\ Carries(q, {"quit"}) <=> Carries(outbox[c], {"quit"})
      /\ One(outbox[c], {"pull"}) => One(q, {"pull"})
  <2>1. m.kind \notin {"pull"} /\ m.kind \notin {"auth"} /\ m.kind \notin {"quit"} BY DEF EditKind
  <2>. QED BY <1>2, <2>1, CarriesAppend
<1>9. outbox[c] # <<>> => Head(q) = Head(outbox[c])
  <2> SUFFICES ASSUME outbox[c] # <<>> PROVE Head(q) = Head(outbox[c])
    OBVIOUS
  <2>1. Head(outbox[c]) = outbox[c][1] /\ Len(outbox[c]) \in Nat \ {0} BY <1>2, TailIs
  <2>2. q[1] = outbox[c][1] BY <1>2, <2>1, AppendProperties
  <2> HIDE DEF q
  <2>3. Head(q) = q[1] BY <1>3, TailIs
  <2>. QED BY <2>1, <2>2, <2>3
<1> HIDE DEF q
<1>10. Wired(c)'
  <2>1. CASE outbox'[c] = outbox[c]
    BY <1>1, <2>1 DEF Wired, Asking, Answered, Fresh, Open
  <2>2. CASE outbox'[c] = q
    <3>1. c \notin users /\ Open(c) => Head(q).kind = "join" BY <1>1, <1>9 DEF Wired, Open
    <3>. QED BY <1>1, <1>3, <1>8, <2>2, <3>1 DEF Wired, Asking, Answered, Fresh, Open
  <2>. QED BY <1>5, <2>1, <2>2
<1>. QED BY <1>4, <1>6, <1>7, <1>10, ByOne

(* A user acts on a page that is not empty, or is not loading.             *)
LEMMA Acting ==
  ASSUME WiresOK, NEW c \in Client, MayAct(c), ~Clean(c) \/ c \notin loading
  PROVE  link[c] \in {"open", "lost"}
<1>1. Wired(c) /\ link[c] \in {"closed", "opening", "open", "lost"} /\ link[c] # "closed"
  BY DEF WiresOK, TypeOK, MayAct
<1>. QED BY <1>1 DEF Wired

(* A browser's parts.                                                      *)
LEMMA BrowserParts ==
  ASSUME TypeOK, NEW c \in Client
  PROVE  /\ history[c] \in EditState /\ layer[c] \in Layer /\ drawing[c] \in Adds \cup {None}
         /\ chosen[c] \in Adds \cup {None} /\ orphans[c] \in SUBSET Adds
         /\ history[c].current \in Seq(Edit) /\ history[c].undone \in Seq(Edit)
         /\ PageOf(c) \in PageState /\ PageOf(c).ok
         /\ PageOf(c).history = history[c] /\ PageOf(c).layer = layer[c]
         /\ None \notin Adds
<1>1. /\ history[c] \in EditState /\ layer[c] \in Layer /\ drawing[c] \in Adds \cup {None}
      /\ chosen[c] \in Adds \cup {None} /\ orphans[c] \in SUBSET Adds
  BY DEF TypeOK, Layer
<1>2. None \notin Adds BY CollabAssumption
<1>3. history[c].current \in Seq(Edit) /\ history[c].undone \in Seq(Edit) BY <1>1 DEF EditState
<1> DEFINE p == Page(history[c], layer[c], TRUE)
<1>4. p \in PageState /\ p.ok /\ p.history = history[c] /\ p.layer = layer[c]
  <2>1. p = [history |-> history[c], layer |-> layer[c], ok |-> TRUE] BY DEF Page
  <2> HIDE DEF p
  <2>. QED BY <1>1, <2>1 DEF PageState
<1>5. PageOf(c) = p BY DEF PageOf
<1> HIDE DEF p
<1>6. /\ PageOf(c) \in PageState /\ PageOf(c).ok
      /\ PageOf(c).history = history[c] /\ PageOf(c).layer = layer[c]
  BY <1>4, <1>5
<1>. QED BY <1>1, <1>2, <1>3, <1>6

(* A drawing begins: the undone edits go, a shape appears.                 *)
LEMMA MouseDownWires ==
  ASSUME WiresOK, NEW c \in Client, NEW a \in Adds, MouseDown(c, a)
  PROVE  /\ WiresOK' /\ Alone(c) /\ link[c] \in {"open", "lost"}
         /\ history'[c] = emptyUndone(history[c]) /\ drawing'[c] = a
         /\ layer'[c] = [layer[c] EXCEPT ![a] = @ + 1]
<1> DEFINE m == [kind |-> "empty"]
           h == emptyUndone(history[c])
           l == [layer[c] EXCEPT ![a] = @ + 1]
<1>1. TypeOK /\ MayAct(c) /\ c \notin loading BY DEF WiresOK, MouseDown
<1>2. link[c] \in {"open", "lost"} BY <1>1, Acting
<1>3. m \in OutMessage(c) /\ m.kind \in EditKind
  <2>1. m \in OutMessage(c) BY Sent
  <2>. QED BY <2>1 DEF EditKind
<1>4. outbox' = [outbox EXCEPT ![c] = Append(outbox[c], m)] \/ outbox' = outbox
  <2>1. CASE Send(c, <<m>>)
    <3>1. outbox' = [outbox EXCEPT ![c] = outbox[c] \o <<m>>] BY <2>1 DEF Send
    <3>2. outbox[c] \in Seq(OutMessage(c)) BY DEF WiresOK, Wired
    <3> HIDE DEF m
    <3>3. outbox[c] \o <<m>> = Append(outbox[c], m) BY <1>3, <3>2, AppendIsConcat
    <3>. QED BY <3>1, <3>3
  <2>2. CASE UNCHANGED outbox BY <2>2
  <2>. QED BY <2>1, <2>2 DEF MouseDown
<1>5. history[c] \in EditState /\ layer[c] \in Layer /\ a \in Edit
  BY <1>1, BrowserParts, CollabAssumption
<1>6. h \in EditState
  <2>1. h = [current |-> history[c].current, undone |-> <<>>] BY <1>5, Setters
  <2>2. history[c].current \in Seq(Edit) BY <1>5 DEF EditState
  <2>. QED BY <2>1, <2>2, EmptySeq DEF EditState
<1>7. l \in Layer BY <1>5 DEF Layer
<1>8. history' = [history EXCEPT ![c] = h] BY DEF MouseDown
<1>9. layer' = [layer EXCEPT ![c] = l] BY DEF MouseDown
<1>10. drawing' = [drawing EXCEPT ![c] = a] BY DEF MouseDown
<1>11. used' \in SUBSET Edit BY <1>1, <1>5 DEF MouseDown, TypeOK
<1>12. /\ UNCHANGED <<room, users, authed, link, inbox, loading, stale, raced>>
       /\ commands' \in 0 .. MaxCommands
  BY <1>1 DEF MouseDown, server, TypeOK
<1>15. Private(c)
  <2>1. drawing[c] \in Adds \cup {None} BY <1>1 DEF TypeOK
  <2>2. {drawing[c]} \ {None} \in SUBSET Adds BY <2>1
  <2>3. /\ orphans' \in [Client -> SUBSET Adds] /\ \A d \in Client \ {c} : orphans'[d] = orphans[d]
    BY <1>1, <2>2 DEF MouseDown, TypeOK
  <2>4. /\ chosen' \in [Client -> Adds \cup {None}] /\ \A d \in Client \ {c} : chosen'[d] = chosen[d]
    BY <1>1 DEF MouseDown, TypeOK
  <2>5. /\ selected' \subseteq Client /\ odd' \subseteq {"cut", "orphan"}
        /\ \A d \in Client \ {c} : d \in selected' <=> d \in selected
    BY <1>1 DEF MouseDown, TypeOK
  <2>. QED BY <2>3, <2>4, <2>5 DEF Private
<1> HIDE DEF m, h, l
<1>13. a \in Adds \cup {None} OBVIOUS
<1>14. /\ WiresOK' /\ Alone(c) /\ history'[c] = h /\ layer'[c] = l /\ drawing'[c] = a
  BY <1>2, <1>3, <1>4, <1>6, <1>7, <1>8, <1>9, <1>10, <1>11, <1>12, <1>13, <1>15, UserWires
<1>. QED BY <1>2, <1>14 DEF h, l

(* A drawing ends: the edit is recorded and sent.                          *)
LEMMA MouseUpWires ==
  ASSUME WiresOK, NEW c \in Client, MouseUp(c)
  PROVE  /\ WiresOK' /\ Alone(c) /\ link[c] \in {"open", "lost"} /\ drawing[c] \in Adds
         /\ history'[c] = addCurrent(history[c], drawing[c]) /\ drawing'[c] = None
         /\ layer'[c] = layer[c]
         /\ outbox'[c] = Append(outbox[c], [kind |-> "push", id |-> drawing[c]])
<1> DEFINE m == [kind |-> "push", id |-> drawing[c]]
           h == addCurrent(history[c], drawing[c])
<1>1. TypeOK /\ MayAct(c) /\ drawing[c] # None BY DEF WiresOK, MouseUp
<1>2. link[c] \in {"open", "lost"} BY <1>1, Acting DEF Clean
<1>3. /\ history[c] \in EditState /\ layer[c] \in Layer /\ drawing[c] \in Adds
      /\ history[c].current \in Seq(Edit) /\ history[c].undone \in Seq(Edit)
  BY <1>1, BrowserParts
<1>4. drawing[c] \in Edit BY <1>3, CollabAssumption
<1>5. m \in OutMessage(c) /\ m.kind \in EditKind
  <2>1. m \in OutMessage(c) BY <1>4, Sent
  <2>. QED BY <2>1 DEF EditKind
<1>6. outbox' = [outbox EXCEPT ![c] = Append(outbox[c], m)]
  <2>1. outbox' = [outbox EXCEPT ![c] = outbox[c] \o <<m>>] BY DEF MouseUp, PushEdit, Send
  <2>2. outbox[c] \in Seq(OutMessage(c)) BY DEF WiresOK, Wired
  <2> HIDE DEF m
  <2>3. outbox[c] \o <<m>> = Append(outbox[c], m) BY <1>5, <2>2, AppendIsConcat
  <2>. QED BY <2>1, <2>3
<1>7. h \in EditState
  <2>1. h = [current |-> Append(history[c].current, drawing[c]), undone |-> history[c].undone]
    BY <1>3, <1>4, Setters
  <2>2. Append(history[c].current, drawing[c]) \in Seq(Edit) BY <1>3, <1>4, AppendProperties
  <2>. QED BY <1>3, <2>1, <2>2 DEF EditState
<1>8. history' = [history EXCEPT ![c] = h] BY DEF MouseUp
<1>9. layer' = [layer EXCEPT ![c] = layer[c]] BY <1>1 DEF MouseUp, TypeOK
<1>10. drawing' = [drawing EXCEPT ![c] = None] BY DEF MouseUp
<1>11. /\ UNCHANGED <<room, users, authed, link, inbox, loading, stale, raced>>
       /\ used' \in SUBSET Edit /\ commands' \in 0 .. MaxCommands
  BY <1>1 DEF MouseUp, server, bounds, ghosts, TypeOK
<1>12. outbox'[c] = Append(outbox[c], m) BY <1>1, <1>6 DEF TypeOK
<1>14. Private(c)
  <2>1. None \in Adds \cup {None} /\ UNCHANGED <<chosen, selected, orphans, odd>> BY DEF MouseUp, ghosts
  <2>. QED BY <1>1, <2>1, NothingPrivate
<1> HIDE DEF m, h
<1>13. /\ WiresOK' /\ Alone(c) /\ history'[c] = h /\ layer'[c] = layer[c] /\ drawing'[c] = None
  BY <1>2, <1>3, <1>5, <1>6, <1>7, <1>8, <1>9, <1>10, <1>11, <1>14, UserWires
<1>. QED BY <1>2, <1>3, <1>12, <1>13 DEF m, h

(* An abandoned one stays on the canvas ...                                *)
LEMMA AbandonWires ==
  ASSUME WiresOK, NEW c \in Client, Abandon(c)
  PROVE  /\ WiresOK' /\ Alone(c) /\ link[c] \in {"open", "lost"} /\ drawing[c] \in Adds
         /\ history'[c] = history[c] /\ drawing'[c] = None /\ layer'[c] = layer[c]
         /\ outbox'[c] = outbox[c]
<1> DEFINE m == [kind |-> "empty"]
<1>1. TypeOK /\ MayAct(c) /\ drawing[c] # None BY DEF WiresOK, Abandon
<1>2. link[c] \in {"open", "lost"} BY <1>1, Acting DEF Clean
<1>3. /\ history[c] \in EditState /\ layer[c] \in Layer /\ drawing[c] \in Adds /\ None \in Adds \cup {None}
  BY <1>1, BrowserParts
<1>4. m \in OutMessage(c) /\ m.kind \in EditKind
  <2>1. m \in OutMessage(c) BY Sent
  <2>. QED BY <2>1 DEF EditKind
<1>5. /\ history' = [history EXCEPT ![c] = history[c]] /\ layer' = [layer EXCEPT ![c] = layer[c]]
      /\ drawing' = [drawing EXCEPT ![c] = None] /\ outbox' = outbox
  BY <1>1 DEF Abandon, TypeOK
<1>6. /\ UNCHANGED <<room, users, authed, link, inbox, loading, stale, raced>>
      /\ used' \in SUBSET Edit /\ commands' \in 0 .. MaxCommands
  BY <1>1 DEF Abandon, server, bounds, TypeOK
<1>7. Private(c)
  <2>1. orphans' \in [Client -> SUBSET Adds] /\ \A d \in Client \ {c} : orphans'[d] = orphans[d]
    BY <1>1, <1>3 DEF Abandon, TypeOK
  <2>2. UNCHANGED <<chosen, selected, odd>> BY DEF Abandon
  <2>. QED BY <1>1, <2>1, <2>2 DEF Private, TypeOK
<1> HIDE DEF m
<1>8. /\ WiresOK' /\ Alone(c) /\ history'[c] = history[c] /\ layer'[c] = layer[c] /\ drawing'[c] = None
  BY <1>2, <1>3, <1>4, <1>5, <1>6, <1>7, UserWires
<1>. QED BY <1>2, <1>3, <1>5, <1>8

(* ... and a shape that is selected is: the undone edits go.               *)
LEMMA SelectWires ==
  ASSUME WiresOK, NEW c \in Client, NEW a \in Adds, Select(c, a)
  PROVE  /\ WiresOK' /\ Alone(c) /\ link[c] \in {"open", "lost"}
         /\ history'[c] = emptyUndone(history[c]) /\ drawing'[c] = drawing[c] /\ layer'[c] = layer[c]
         /\ outbox'[c] = outbox[c]
<1> DEFINE m == [kind |-> "empty"]
           h == emptyUndone(history[c])
<1>1. TypeOK /\ MayAct(c) /\ c \notin loading BY DEF WiresOK, Select
<1>2. link[c] \in {"open", "lost"} BY <1>1, Acting
<1>3. /\ history[c] \in EditState /\ layer[c] \in Layer /\ drawing[c] \in Adds \cup {None}
  BY <1>1, BrowserParts
<1>4. m \in OutMessage(c) /\ m.kind \in EditKind
  <2>1. m \in OutMessage(c) BY Sent
  <2>. QED BY <2>1 DEF EditKind
<1>5. h \in EditState
  <2>1. h = [current |-> history[c].current, undone |-> <<>>] BY <1>3 DEF EditState, emptyUndone
  <2>2. history[c].current \in Seq(Edit) BY <1>3 DEF EditState
  <2>. QED BY <2>1, <2>2, EmptySeq DEF EditState
<1>6. /\ layer' = [layer EXCEPT ![c] = layer[c]] /\ drawing' = [drawing EXCEPT ![c] = drawing[c]]
      /\ outbox' = outbox
  BY <1>1 DEF Select, TypeOK
<1>7. history' = [history EXCEPT ![c] = h] BY DEF Select
<1>8. /\ UNCHANGED <<room, users, authed, link, inbox, loading, stale, raced>>
      /\ used' \in SUBSET Edit /\ commands' \in 0 .. MaxCommands
  BY <1>1 DEF Select, server, bounds, TypeOK
<1>9. Private(c)
  <2>1. chosen' \in [Client -> Adds \cup {None}] /\ \A d \in Client \ {c} : chosen'[d] = chosen[d]
    BY <1>1 DEF Select, TypeOK
  <2>2. selected' \subseteq Client /\ \A d \in Client \ {c} : d \in selected' <=> d \in selected
    BY <1>1 DEF Select, TypeOK
  <2>3. UNCHANGED <<orphans, odd>> BY DEF Select
  <2>. QED BY <1>1, <2>1, <2>2, <2>3 DEF Private, TypeOK
<1> HIDE DEF m, h
<1>10. /\ WiresOK' /\ Alone(c) /\ history'[c] = h /\ layer'[c] = layer[c] /\ drawing'[c] = drawing[c]
  BY <1>2, <1>3, <1>4, <1>5, <1>6, <1>7, <1>8, <1>9, UserWires
<1>. QED BY <1>2, <1>6, <1>10 DEF h

(* A selection is erased: a Remove is drawn and recorded.                  *)
LEMMA EraseWires ==
  ASSUME WiresOK, NEW c \in Client, NEW r \in Removes, Erase(c, r),
         PushEdit(c, r) \/ UNCHANGED outbox, odd' \subseteq {"cut", "orphan"}
  PROVE  /\ WiresOK' /\ Alone(c) /\ link[c] \in {"open", "lost"}
         /\ history'[c] = addCurrent(history[c], r) /\ drawing'[c] = drawing[c]
         /\ layer'[c] = applyEdit(layer[c], r)
<1> DEFINE m == [kind |-> "push", id |-> r]
           h == addCurrent(history[c], r)
           l == applyEdit(layer[c], r)
<1>1. TypeOK /\ MayAct(c) /\ CanApply(layer[c], r) BY DEF WiresOK, Erase
<1>2. r \in Edit /\ Target[r] \in Adds BY CollabAssumption
<1>3. /\ history[c] \in EditState /\ layer[c] \in Layer /\ drawing[c] \in Adds \cup {None}
      /\ history[c].current \in Seq(Edit) /\ history[c].undone \in Seq(Edit)
  BY <1>1, BrowserParts
<1>4. link[c] \in {"open", "lost"}
  <2>1. layer[c][Target[r]] > 0 BY <1>1 DEF CanApply
  <2>2. layer[c] # Blank BY <1>2, <2>1 DEF Blank
  <2>. QED BY <1>1, <2>2, Acting DEF Clean
<1>5. m \in OutMessage(c) /\ m.kind \in EditKind
  <2>1. m \in OutMessage(c) BY <1>2, Sent
  <2>. QED BY <2>1 DEF EditKind
<1>6. outbox' = [outbox EXCEPT ![c] = Append(outbox[c], m)] \/ outbox' = outbox
  <2> SUFFICES ASSUME PushEdit(c, r) PROVE outbox' = [outbox EXCEPT ![c] = Append(outbox[c], m)]
    OBVIOUS
  <2>1. outbox' = [outbox EXCEPT ![c] = outbox[c] \o <<m>>] BY DEF PushEdit, Send
  <2>2. outbox[c] \in Seq(OutMessage(c)) BY DEF WiresOK, Wired
  <2> HIDE DEF m
  <2>3. outbox[c] \o <<m>> = Append(outbox[c], m) BY <1>5, <2>2, AppendIsConcat
  <2>. QED BY <2>1, <2>3
<1>7. h \in EditState
  <2>1. h = [current |-> Append(history[c].current, r), undone |-> history[c].undone]
    BY <1>2, <1>3, Setters
  <2>2. Append(history[c].current, r) \in Seq(Edit) BY <1>2, <1>3, AppendProperties
  <2>. QED BY <1>3, <2>1, <2>2 DEF EditState
<1>8. l \in Layer BY <1>1, <1>2, <1>3, Applied
<1>9. history' = [history EXCEPT ![c] = h] BY DEF Erase
<1>10. layer' = [layer EXCEPT ![c] = l] BY DEF Erase
<1>11. drawing' = [drawing EXCEPT ![c] = drawing[c]] BY <1>1 DEF Erase, TypeOK
<1>12. /\ UNCHANGED <<room, users, authed, link, inbox, loading, stale, raced>>
       /\ used' \in SUBSET Edit /\ commands' \in 0 .. MaxCommands
  BY <1>1, <1>2 DEF Erase, server, TypeOK
<1>13. Private(c)
  <2>1. chosen' \in [Client -> Adds \cup {None}] /\ \A d \in Client \ {c} : chosen'[d] = chosen[d]
    BY <1>1 DEF Erase, TypeOK
  <2>2. UNCHANGED <<selected, orphans>> BY DEF Erase
  <2>. QED BY <1>1, <2>1, <2>2 DEF Private, TypeOK
<1> HIDE DEF m, h, l
<1>14. /\ WiresOK' /\ Alone(c) /\ history'[c] = h /\ layer'[c] = l /\ drawing'[c] = drawing[c]
  BY <1>3, <1>4, <1>5, <1>6, <1>7, <1>8, <1>9, <1>10, <1>11, <1>12, <1>13, UserWires
<1>. QED BY <1>4, <1>14 DEF h, l

(* A deletion is sent ...                                                  *)
LEMMA DeleteWires ==
  ASSUME WiresOK, NEW c \in Client, NEW r \in Removes, DeleteSelection(c, r)
  PROVE  /\ WiresOK' /\ Alone(c) /\ link[c] \in {"open", "lost"}
         /\ history'[c] = addCurrent(history[c], r) /\ drawing'[c] = drawing[c]
         /\ layer'[c] = applyEdit(layer[c], r)
         /\ outbox'[c] = Append(outbox[c], [kind |-> "push", id |-> r])
<1> DEFINE m == [kind |-> "push", id |-> r]
<1>1. Erase(c, r) /\ PushEdit(c, r) /\ odd' \subseteq {"cut", "orphan"} /\ TypeOK
  BY DEF DeleteSelection, WiresOK, TypeOK
<1>2. outbox'[c] = Append(outbox[c], m)
  <2>1. outbox' = [outbox EXCEPT ![c] = outbox[c] \o <<m>>] BY <1>1 DEF PushEdit, Send
  <2>2. outbox[c] \in Seq(OutMessage(c)) BY DEF WiresOK, Wired
  <2>3. m \in OutMessage(c)
    <3>1. r \in Edit BY CollabAssumption
    <3>. QED BY <3>1, Sent
  <2> HIDE DEF m
  <2>4. outbox[c] \o <<m>> = Append(outbox[c], m) BY <2>2, <2>3, AppendIsConcat
  <2>. QED BY <1>1, <2>1, <2>4 DEF TypeOK
<1>. QED BY <1>1, <1>2, EraseWires

(* ... and a cut is not.                                                   *)
LEMMA CutWires ==
  ASSUME WiresOK, NEW c \in Client, NEW r \in Removes, Cut(c, r)
  PROVE  WiresOK'
<1>1. Erase(c, r) /\ UNCHANGED outbox /\ odd' \subseteq {"cut", "orphan"}
  BY DEF Cut, WiresOK, TypeOK
<1>. QED BY <1>1, EraseWires

(* What Become makes of a browser.                                         *)
LEMMA Becomes ==
  ASSUME TypeOK, NEW c \in Client, NEW p \in PageState, Become(c, p)
  PROVE  /\ history' = [history EXCEPT ![c] = p.history] /\ layer' = [layer EXCEPT ![c] = p.layer]
         /\ p.history \in EditState /\ p.layer \in Layer
         /\ history'[c] = p.history /\ layer'[c] = p.layer
<1>1. p.history \in EditState /\ p.layer \in Layer BY PageParts
<1>. QED BY <1>1 DEF Become, TypeOK

(* The last edit is taken back, and the undo sent.                         *)
LEMMA UndoWires ==
  ASSUME WiresOK, NEW c \in Client, Undo(c)
  PROVE  LET id == Last(history[c].current)
         IN  /\ WiresOK' /\ Alone(c) /\ link[c] \in {"open", "lost"}
             /\ history[c].current # <<>> /\ id \in Edit
             /\ CanCancel(layer[c], id) /\ drawing'[c] = drawing[c]
             /\ history'[c] = UndoOn(PageOf(c), id).history
             /\ layer'[c] = UndoOn(PageOf(c), id).layer
             /\ Open(c) => outbox'[c] = Append(outbox[c], [kind |-> "undo", id |-> id])
<1> DEFINE id == Last(history[c].current)
           m == [kind |-> "undo", id |-> id]
           p == UndoOn(PageOf(c), id)
<1>1. /\ TypeOK /\ MayAct(c) /\ history[c].current # <<>> /\ CanCancel(layer[c], id)
      /\ Become(c, p) /\ Share(c, "undo", id)
  BY DEF WiresOK, Undo
<1>2. /\ history[c] \in EditState /\ layer[c] \in Layer /\ drawing[c] \in Adds \cup {None}
      /\ history[c].current \in Seq(Edit) /\ PageOf(c) \in PageState
  BY <1>1, BrowserParts
<1>3. id \in Edit BY <1>1, <1>2, FrontAndLast
<1>4. link[c] \in {"open", "lost"} BY <1>1, Acting DEF Clean, NoEdits
<1>5. m \in OutMessage(c) /\ m.kind \in EditKind
  <2>1. m \in OutMessage(c) BY <1>3, Sent
  <2>. QED BY <2>1 DEF EditKind
<1>6. IF Open(c) THEN outbox' = [outbox EXCEPT ![c] = Append(outbox[c], m)] ELSE outbox' = outbox
  <2>1. CASE Open(c)
    <3>1. outbox' = [outbox EXCEPT ![c] = outbox[c] \o <<m>>] BY <1>1, <2>1 DEF Share, Send
    <3>2. outbox[c] \in Seq(OutMessage(c)) BY DEF WiresOK, Wired
    <3> HIDE DEF m
    <3>3. outbox[c] \o <<m>> = Append(outbox[c], m) BY <1>5, <3>2, AppendIsConcat
    <3>. QED BY <2>1, <3>1, <3>3
  <2>2. CASE ~Open(c) BY <1>1, <2>2 DEF Share
  <2>. QED BY <2>1, <2>2
<1>7. p \in PageState BY <1>2, <1>3, UndoType
<1>8. /\ UNCHANGED <<room, users, authed, link, inbox, loading, stale, raced>>
      /\ used' \in SUBSET Edit /\ commands' \in 0 .. MaxCommands
      /\ drawing' = [drawing EXCEPT ![c] = drawing[c]]
  BY <1>1, CollabAssumption DEF Undo, server, ghosts, TypeOK
<1>19. Private(c)
  <2>1. chosen' = [chosen EXCEPT ![c] = None] /\ UNCHANGED <<selected, orphans, odd>> BY DEF Undo, ghosts
  <2>. QED BY <1>1, <2>1, NothingPrivate
<1>9. Open(c) => outbox'[c] = Append(outbox[c], m) BY <1>1, <1>6 DEF TypeOK
<1>10. history[c].current # <<>> /\ CanCancel(layer[c], id) BY <1>1
<1> HIDE DEF m, p, id
<1>11. /\ history' = [history EXCEPT ![c] = p.history] /\ layer' = [layer EXCEPT ![c] = p.layer]
       /\ p.history \in EditState /\ p.layer \in Layer
  BY <1>1, <1>7, Becomes
<1>12. outbox' = [outbox EXCEPT ![c] = Append(outbox[c], m)] \/ outbox' = outbox BY <1>6
<1>13. PICK h \in EditState, l \in Layer, w \in Adds \cup {None} :
          h = p.history /\ l = p.layer /\ w = drawing[c]
  BY <1>2, <1>11
<1>14. history' = [history EXCEPT ![c] = h] /\ layer' = [layer EXCEPT ![c] = l] BY <1>11, <1>13
<1>15. drawing' = [drawing EXCEPT ![c] = w] BY <1>8, <1>13
<1>16. /\ UNCHANGED <<room, users, authed, link, inbox, loading, stale, raced>>
       /\ used' \in SUBSET Edit /\ commands' \in 0 .. MaxCommands
  BY <1>8
<1>17. /\ WiresOK' /\ Alone(c) /\ history'[c] = h /\ layer'[c] = l /\ drawing'[c] = w
  BY <1>4, <1>5, <1>12, <1>14, <1>15, <1>16, <1>19, UserWires
<1>18. history'[c] = p.history /\ layer'[c] = p.layer /\ drawing'[c] = drawing[c]
  BY <1>13, <1>17
<1>. QED BY <1>3, <1>4, <1>9, <1>10, <1>17, <1>18 DEF m, p, id

(* The last undone edit is drawn again, and the redo sent.                 *)
LEMMA RedoWires ==
  ASSUME WiresOK, NEW c \in Client, Redo(c)
  PROVE  LET id == Last(history[c].undone)
         IN  /\ WiresOK' /\ Alone(c) /\ link[c] \in {"open", "lost"}
             /\ history[c].undone # <<>> /\ id \in Edit
             /\ CanApply(layer[c], id) /\ drawing'[c] = drawing[c]
             /\ history'[c] = RedoOn(PageOf(c), id).history
             /\ layer'[c] = RedoOn(PageOf(c), id).layer
             /\ Open(c) => outbox'[c] = Append(outbox[c], [kind |-> "redo", id |-> id])
<1> DEFINE id == Last(history[c].undone)
           m == [kind |-> "redo", id |-> id]
           p == RedoOn(PageOf(c), id)
<1>1. /\ TypeOK /\ MayAct(c) /\ history[c].undone # <<>> /\ CanApply(layer[c], id)
      /\ Become(c, p) /\ Share(c, "redo", id)
  BY DEF WiresOK, Redo
<1>2. /\ history[c] \in EditState /\ layer[c] \in Layer /\ drawing[c] \in Adds \cup {None}
      /\ history[c].undone \in Seq(Edit) /\ PageOf(c) \in PageState
  BY <1>1, BrowserParts
<1>3. id \in Edit BY <1>1, <1>2, FrontAndLast
<1>4. link[c] \in {"open", "lost"} BY <1>1, Acting DEF Clean, NoEdits
<1>5. m \in OutMessage(c) /\ m.kind \in EditKind
  <2>1. m \in OutMessage(c) BY <1>3, Sent
  <2>. QED BY <2>1 DEF EditKind
<1>6. IF Open(c) THEN outbox' = [outbox EXCEPT ![c] = Append(outbox[c], m)] ELSE outbox' = outbox
  <2>1. CASE Open(c)
    <3>1. outbox' = [outbox EXCEPT ![c] = outbox[c] \o <<m>>] BY <1>1, <2>1 DEF Share, Send
    <3>2. outbox[c] \in Seq(OutMessage(c)) BY DEF WiresOK, Wired
    <3> HIDE DEF m
    <3>3. outbox[c] \o <<m>> = Append(outbox[c], m) BY <1>5, <3>2, AppendIsConcat
    <3>. QED BY <2>1, <3>1, <3>3
  <2>2. CASE ~Open(c) BY <1>1, <2>2 DEF Share
  <2>. QED BY <2>1, <2>2
<1>7. p \in PageState BY <1>2, <1>3, RedoType
<1>8. /\ UNCHANGED <<room, users, authed, link, inbox, loading, stale, raced>>
      /\ used' \in SUBSET Edit /\ commands' \in 0 .. MaxCommands
      /\ drawing' = [drawing EXCEPT ![c] = drawing[c]]
  BY <1>1, CollabAssumption DEF Redo, server, ghosts, TypeOK
<1>19. Private(c)
  <2>1. chosen' = [chosen EXCEPT ![c] = None] /\ UNCHANGED <<selected, orphans, odd>> BY DEF Redo, ghosts
  <2>. QED BY <1>1, <2>1, NothingPrivate
<1>9. Open(c) => outbox'[c] = Append(outbox[c], m) BY <1>1, <1>6 DEF TypeOK
<1>10. history[c].undone # <<>> /\ CanApply(layer[c], id) BY <1>1
<1> HIDE DEF m, p, id
<1>11. /\ history' = [history EXCEPT ![c] = p.history] /\ layer' = [layer EXCEPT ![c] = p.layer]
       /\ p.history \in EditState /\ p.layer \in Layer
  BY <1>1, <1>7, Becomes
<1>12. outbox' = [outbox EXCEPT ![c] = Append(outbox[c], m)] \/ outbox' = outbox BY <1>6
<1>13. PICK h \in EditState, l \in Layer, w \in Adds \cup {None} :
          h = p.history /\ l = p.layer /\ w = drawing[c]
  BY <1>2, <1>11
<1>14. history' = [history EXCEPT ![c] = h] /\ layer' = [layer EXCEPT ![c] = l] BY <1>11, <1>13
<1>15. drawing' = [drawing EXCEPT ![c] = w] BY <1>8, <1>13
<1>16. /\ UNCHANGED <<room, users, authed, link, inbox, loading, stale, raced>>
       /\ used' \in SUBSET Edit /\ commands' \in 0 .. MaxCommands
  BY <1>8
<1>17. /\ WiresOK' /\ Alone(c) /\ history'[c] = h /\ layer'[c] = l /\ drawing'[c] = w
  BY <1>4, <1>5, <1>12, <1>14, <1>15, <1>16, <1>19, UserWires
<1>18. history'[c] = p.history /\ layer'[c] = p.layer /\ drawing'[c] = drawing[c]
  BY <1>13, <1>17
<1>. QED BY <1>3, <1>4, <1>9, <1>10, <1>17, <1>18 DEF m, p, id

----------------------------------------------------------------------------
(* The room's steps.                                                       *)

(* A message is taken from a wire.                                         *)
LEMMA Receives ==
  ASSUME WiresOK, NEW c \in Client, NEW kinds, Receive(c, kinds)
  PROVE  LET q == outbox[c]  m == Received(c)  t == Tail(outbox[c])
         IN  /\ link[c] \in {"open", "closed"} /\ q # <<>> /\ q \in Seq(OutMessage(c))
             /\ m \in OutMessage(c) /\ m.kind \in kinds /\ m = Head(q)
             /\ t \in Seq(OutMessage(c))
             /\ outbox' \in [Client -> Seq(Message)] /\ outbox'[c] = t
             /\ \A d \in Client \ {c} : outbox'[d] = outbox[d]
             /\ \A K : Carries(q, K) <=> m.kind \in K \/ Carries(t, K)
             /\ c \notin users => m.kind = "join"
             /\ Carries(t, {"quit"}) => /\ link[c] = "closed" /\ One(t, {"quit"})
                                        /\ After(t, {"quit"}, OtherKind)
             /\ m.kind = "quit" => link[c] = "closed" /\ t = <<>>
             /\ One(t, {"pull"}) /\ (m.kind = "pull" => ~Carries(t, {"pull"}))
<1> DEFINE q == outbox[c]
           m == Received(c)
           t == Tail(outbox[c])
<1>1. TypeOK /\ Wired(c) BY DEF WiresOK
<1>2. /\ q # <<>> /\ link[c] \in {"open", "closed"} /\ m = Head(q) /\ m.kind \in kinds
      /\ outbox' = [outbox EXCEPT ![c] = t]
  BY <1>1 DEF Receive, Received, TypeOK
<1>3. q \in Seq(OutMessage(c)) BY <1>1 DEF Wired
<1> HIDE DEF q, m
<1>4. m \in OutMessage(c) /\ t \in Seq(OutMessage(c)) BY <1>2, <1>3, TailIs DEF q
<1> HIDE DEF t
<1>5. /\ outbox' \in [Client -> Seq(Message)] /\ outbox'[c] = t
      /\ \A d \in Client \ {c} : outbox'[d] = outbox[d]
  BY <1>1, <1>2, <1>4, WireTypes
<1>6. t = Tail(q) BY DEF t, q
<1>7. \A K : Carries(q, K) <=> m.kind \in K \/ Carries(t, K) BY <1>2, <1>3, <1>6, CarriesTail
<1>8. c \notin users => m.kind = "join" BY <1>1, <1>2 DEF Wired, q, Open
<1>9. One(t, {"pull"}) /\ (m.kind = "pull" => ~Carries(t, {"pull"}))
  <2>1. One(q, {"pull"}) BY <1>1 DEF Wired, q
  <2>. QED BY <1>2, <1>3, <1>6, <2>1, CarriesTail
<1>10. Carries(q, {"quit"}) => /\ link[c] = "closed" /\ One(q, {"quit"}) /\ After(q, {"quit"}, OtherKind)
  BY <1>1 DEF Wired, q
<1>11. Carries(t, {"quit"}) => /\ link[c] = "closed" /\ One(t, {"quit"})
                           /\ After(t, {"quit"}, OtherKind)
  <2> SUFFICES ASSUME Carries(t, {"quit"}) PROVE link[c] = "closed" /\ One(t, {"quit"})
                           /\ After(t, {"quit"}, OtherKind)
    OBVIOUS
  <2>1. link[c] = "closed" /\ One(q, {"quit"}) /\ After(q, {"quit"}, OtherKind) BY <1>7, <1>10
  <2>. QED BY <1>2, <1>3, <1>6, <2>1, CarriesTail
<1>12. m.kind = "quit" => link[c] = "closed" /\ t = <<>>
  <2> SUFFICES ASSUME m.kind = "quit", t # <<>> PROVE link[c] = "closed" /\ FALSE
    BY <1>7, <1>10
  <2>1. link[c] = "closed" /\ One(q, {"quit"}) /\ After(q, {"quit"}, OtherKind) BY <1>7, <1>10
  <2>2. ~Carries(t, {"quit"}) /\ ~Carries(q, OtherKind) BY <1>2, <1>3, <1>6, <2>1, CarriesTail
  <2>3. ~Carries(t, OtherKind) BY <1>7, <2>2
  <2>4. Head(t) \in OutMessage(c) /\ Head(t) = t[1] /\ 1 \in 1 .. Len(t) BY <1>4, TailIs
  <2>5. Head(t).kind \in OtherKind \cup {"quit"} BY <2>4, OutKinds
  <2>. QED BY <2>1, <2>2, <2>3, <2>4, <2>5 DEF Carries
<1>. QED BY <1>2, <1>3, <1>4, <1>5, <1>7, <1>8, <1>9, <1>11, <1>12 DEF q, m, t

(* The room takes a Join: the client is one of its users.                  *)
LEMMA JoinWires ==
  ASSUME WiresOK, NEW c \in Client, RoomJoin(c)
  PROVE  WiresOK' /\ Alone(c) /\ outbox'[c] = Tail(outbox[c]) /\ Received(c).kind = "join"
<1> DEFINE t == Tail(outbox[c])
           m == Received(c)
<1>1. TypeOK /\ Wired(c) /\ Receive(c, {"join"}) BY DEF WiresOK, RoomJoin
<1>2. /\ link[c] \in {"open", "closed"} /\ m.kind = "join"
      /\ t \in Seq(OutMessage(c)) /\ outbox' \in [Client -> Seq(Message)] /\ outbox'[c] = t
      /\ \A d \in Client \ {c} : outbox'[d] = outbox[d]
      /\ \A K : Carries(outbox[c], K) <=> m.kind \in K \/ Carries(t, K)
      /\ Carries(t, {"quit"}) => link[c] = "closed" /\ One(t, {"quit"}) /\ After(t, {"quit"}, OtherKind)
      /\ One(t, {"pull"})
  BY <1>1, Receives
<1>3. /\ users' = users \cup {c}
      /\ UNCHANGED <<room, authed, history, layer, drawing, link, inbox, used, commands, stale, raced, loading>>
      /\ UNCHANGED <<chosen, selected, orphans, odd>>
  BY DEF RoomJoin, browser, bounds, ghosts
<1>4. TypeOK' BY <1>1, <1>2, <1>3 DEF TypeOK
<1>5. Alone(c) BY <1>2, <1>3 DEF Alone, Unmoved
<1> HIDE DEF t, m
<1>6. /\ Carries(t, {"pull"}) <=> Carries(outbox[c], {"pull"})
      /\ Carries(t, {"auth"}) <=> Carries(outbox[c], {"auth"})
  BY <1>2
<1>7. Wired(c)' BY <1>1, <1>2, <1>3, <1>6 DEF Wired, Asking, Answered, Fresh, Open, Clean
<1>. QED BY <1>2, <1>4, <1>5, <1>7, ByOne DEF t, m

(* The room takes a Quit: the client is none of its users, nor authed.     *)
LEMMA QuitWires ==
  ASSUME WiresOK, NEW c \in Client, RoomQuit(c)
  PROVE  /\ WiresOK' /\ Alone(c) /\ outbox'[c] = <<>> /\ link[c] = "closed" /\ c \notin authed'
         /\ Received(c).kind = "quit"
<1> DEFINE t == Tail(outbox[c])
           m == Received(c)
<1>1. TypeOK /\ Wired(c) /\ Receive(c, {"quit"}) BY DEF WiresOK, RoomQuit
<1>2. /\ m.kind = "quit" /\ outbox' \in [Client -> Seq(Message)] /\ outbox'[c] = t
      /\ \A d \in Client \ {c} : outbox'[d] = outbox[d]
      /\ m.kind = "quit" => link[c] = "closed" /\ t = <<>>
  BY <1>1, Receives
<1>3. /\ users' = users \ {c} /\ authed' = authed \ {c}
      /\ UNCHANGED <<room, history, layer, drawing, link, inbox, used, commands, stale, raced, loading>>
      /\ UNCHANGED <<chosen, selected, orphans, odd>>
  BY DEF RoomQuit, browser, bounds, ghosts
<1>4. TypeOK' BY <1>1, <1>2, <1>3 DEF TypeOK
<1>5. Alone(c) BY <1>2, <1>3 DEF Alone, Unmoved
<1> HIDE DEF t, m
<1>6. <<>> \in Seq(OutMessage(c)) BY EmptySeq
<1>7. Wired(c)'
  BY <1>1, <1>2, <1>3, <1>6, CarriesNone DEF Wired, Asking, Answered, Fresh, Open, Clean
<1>. QED BY <1>2, <1>3, <1>4, <1>5, <1>7, ByOne DEF m

(* The room takes an Auth: an editor's connection may edit.                *)
LEMMA AuthWires ==
  ASSUME WiresOK, NEW c \in Client, RoomAuth(c)
  PROVE  /\ WiresOK' /\ Alone(c) /\ outbox'[c] = Tail(outbox[c]) /\ c \in Editor
         /\ c \in authed' /\ Received(c).kind = "auth"
<1> DEFINE t == Tail(outbox[c])
           m == Received(c)
<1>1. TypeOK /\ Wired(c) /\ Receive(c, {"auth"}) BY DEF WiresOK, RoomAuth
<1>2. /\ link[c] \in {"open", "closed"} /\ m.kind = "auth" /\ m \in OutMessage(c)
      /\ t \in Seq(OutMessage(c)) /\ outbox' \in [Client -> Seq(Message)] /\ outbox'[c] = t
      /\ \A d \in Client \ {c} : outbox'[d] = outbox[d]
      /\ \A K : Carries(outbox[c], K) <=> m.kind \in K \/ Carries(t, K)
      /\ c \notin users => m.kind = "join"
      /\ Carries(t, {"quit"}) => link[c] = "closed" /\ One(t, {"quit"}) /\ After(t, {"quit"}, OtherKind)
      /\ One(t, {"pull"})
  BY <1>1, Receives
<1>3. /\ authed' = authed \cup {c}
      /\ UNCHANGED <<room, users, history, layer, drawing, link, inbox, used, commands, stale, raced, loading>>
      /\ UNCHANGED <<chosen, selected, orphans, odd>>
  BY DEF RoomAuth, browser, bounds, ghosts
<1>4. c \in users BY <1>2
<1>5. TypeOK' BY <1>1, <1>2, <1>3, <1>4 DEF TypeOK
<1>6. Alone(c) BY <1>2, <1>3 DEF Alone, Unmoved
<1>7. c \in Editor BY <1>2, OutKinds
<1> HIDE DEF t, m
<1>8. /\ Carries(t, {"pull"}) <=> Carries(outbox[c], {"pull"})
      /\ Carries(outbox[c], {"auth"})
  BY <1>2
<1>9. c \notin stale BY <1>1, <1>8 DEF Wired
<1>10. Wired(c)'
  BY <1>1, <1>2, <1>3, <1>4, <1>7, <1>8, <1>9 DEF Wired, Asking, Answered, Fresh, Open, Clean
<1>. QED BY <1>2, <1>3, <1>5, <1>6, <1>7, <1>10, ByOne DEF t, m

(* The room answers a pull with all it has: no page asks with a history.   *)
LEMMA PullWires ==
  ASSUME WiresOK, NEW c \in Client, RoomPull(c)
  PROVE  LET reply == [kind |-> "pulled", data |-> PullData(room, NoView)]
         IN  /\ WiresOK' /\ Alone(c) /\ outbox'[c] = Tail(outbox[c])
             /\ Received(c).kind = "pull" /\ reply \in InMessage
             /\ inbox'[c] = IF Listening(c) THEN Append(inbox[c], reply) ELSE inbox[c]
<1> DEFINE t == Tail(outbox[c])
           m == Received(c)
           reply == [kind |-> "pulled", data |-> PullData(room, NoView)]
           q == Append(inbox[c], reply)
<1>1. TypeOK /\ Wired(c) /\ Receive(c, {"pull"}) BY DEF WiresOK, RoomPull
<1>2. /\ link[c] \in {"open", "closed"} /\ m.kind = "pull" /\ m \in OutMessage(c)
      /\ t \in Seq(OutMessage(c)) /\ outbox' \in [Client -> Seq(Message)] /\ outbox'[c] = t
      /\ \A d \in Client \ {c} : outbox'[d] = outbox[d]
      /\ \A K : Carries(outbox[c], K) <=> m.kind \in K \/ Carries(t, K)
      /\ c \notin users => m.kind = "join"
      /\ Carries(t, {"quit"}) => link[c] = "closed" /\ One(t, {"quit"}) /\ After(t, {"quit"}, OtherKind)
      /\ One(t, {"pull"}) /\ (m.kind = "pull" => ~Carries(t, {"pull"}))
  BY <1>1, Receives
<1>3. /\ UNCHANGED <<room, users, authed, history, layer, drawing, link, used, commands, stale, raced, loading>>
      /\ UNCHANGED <<chosen, selected, orphans, odd>>
  BY DEF RoomPull, server, browser, bounds, ghosts
<1>4. m.view = NoView BY <1>2, OutKinds
<1>5. reply \in InMessage /\ reply.kind = "pulled"
  <2>1. room \in EditState BY <1>1 DEF TypeOK
  <2>2. PullData(room, NoView) \in NoDeletes BY <2>1, AnswerToNothing
  <2>3. reply \in [kind : {"pulled"}, data : NoDeletes] BY <2>2
  <2>. QED BY <2>3 DEF InMessage
<1>6. inbox' = [inbox EXCEPT ![c] = IF Listening(c) THEN q ELSE inbox[c]]
  BY <1>4 DEF RoomPull
<1>7. inbox[c] \in Seq(InMessage) /\ One(inbox[c], {"pulled"}) BY <1>1 DEF Wired
<1> HIDE DEF reply
<1>8. q \in Seq(InMessage) BY <1>5, <1>7, AppendProperties
<1>9. /\ inbox' \in [Client -> Seq(Message)]
      /\ inbox'[c] = IF Listening(c) THEN q ELSE inbox[c]
      /\ \A d \in Client \ {c} : inbox'[d] = inbox[d]
  <2>1. (IF Listening(c) THEN q ELSE inbox[c]) \in Seq(InMessage) BY <1>7, <1>8
  <2> HIDE DEF q
  <2>. QED BY <1>1, <1>6, <2>1, WireTypes
<1>10. TypeOK' BY <1>1, <1>2, <1>3, <1>9 DEF TypeOK
<1>11. Alone(c) BY <1>2, <1>3, <1>9 DEF Alone, Unmoved
<1> HIDE DEF t, m
<1>12. /\ Carries(outbox[c], {"pull"}) /\ ~Carries(t, {"pull"}) /\ c \in users
       /\ Carries(t, {"auth"}) <=> Carries(outbox[c], {"auth"})
  BY <1>2
<1>13. c \notin stale /\ (Open(c) => ~Carries(inbox[c], {"pulled"}) /\ c \in loading)
  BY <1>1, <1>12 DEF Wired, Asking, Answered, Fresh, Open
<1>14. Open(c) => One(q, {"pulled"}) BY <1>5, <1>7, <1>13, CarriesAppend
<1> HIDE DEF q
<1>15. Wired(c)'
  <2>1. CASE Listening(c)
    <3>1. link[c] = "open" /\ inbox'[c] = q BY <1>9, <2>1 DEF Listening, Open
    <3>. QED
      BY <1>1, <1>2, <1>3, <1>8, <1>12, <1>13, <1>14, <3>1 DEF Wired, Asking, Answered, Fresh, Open, Clean
  <2>2. CASE ~Listening(c)
    <3>1. link[c] = "closed" /\ inbox'[c] = inbox[c]
      BY <1>2, <1>9, <1>12, <2>2 DEF Listening, Open
    <3>. QED
      BY <1>1, <1>2, <1>3, <1>12, <1>13, <3>1 DEF Wired, Asking, Answered, Fresh, Open, Clean
  <2>. QED BY <2>1, <2>2
<1>. QED BY <1>2, <1>5, <1>9, <1>10, <1>11, <1>15, ByOne DEF t, m, q, reply

(* What an edit makes of the room.                                         *)
RoomGets(s, m) == IF m.kind = "empty" THEN [s EXCEPT !.undone = <<>>] ELSE ReplayStep(s, m)

(* An edit message makes a board's lists of a board's lists.               *)
LEMMA RoomGetsType ==
  ASSUME NEW s \in EditState, NEW m \in InMessage, m.kind \in EditKind
  PROVE  RoomGets(s, m) \in EditState
<1>1. CASE m.kind = "empty"
  <2>1. <<>> \in Seq(Edit) BY EmptySeq
  <2>. QED BY <1>1, <2>1 DEF RoomGets, EditState
<1>2. CASE m.kind # "empty"
  <2>1. m.kind \in {"push", "undo", "redo"} BY <1>2 DEF EditKind
  <2>2. m.id \in Edit BY <2>1, InKinds
  <2>. QED BY <1>2, <2>2, ReplayStepType DEF RoomGets
<1>. QED BY <1>1, <1>2

(* ... and the others hear of it.                                          *)
Hears(c, d, m) ==
  /\ history'[d] = history[d] /\ layer'[d] = layer[d] /\ drawing'[d] = drawing[d]
  /\ link'[d] = link[d] /\ outbox'[d] = outbox[d]
  /\ inbox'[d] = (IF Listening(d) THEN Append(inbox[d], m) ELSE inbox[d])
  /\ d \in raced' <=> d \in raced \/ (d \in users /\ Asking(d))
  /\ chosen'[d] = chosen[d] /\ orphans'[d] = orphans[d]
  /\ d \in selected' <=> d \in selected

Told(c, m) ==
  /\ c \in authed /\ room' = RoomGets(room, m)
  /\ \A d \in Client \ {c} : Hears(c, d, m)
  /\ inbox'[c] = inbox[c] /\ (c \in raced' <=> c \in raced)

Untold(c) == c \notin authed /\ room' = room /\ raced' = raced /\ Alone(c) /\ inbox'[c] = inbox[c]

(* The room takes an edit message: obeyed and told to the others who       *)
(* listen, or not at all.                                                  *)
LEMMA EditWires ==
  ASSUME WiresOK, NEW c \in Client, RoomEdit(c)
  PROVE  LET m == Received(c)
         IN  /\ WiresOK' /\ outbox'[c] = Tail(outbox[c]) /\ m = Head(outbox[c])
             /\ m.kind \in EditKind /\ m \in InMessage /\ outbox[c] # <<>>
             /\ UNCHANGED <<users, authed, history, layer, drawing, link, used, commands, stale, loading>>
             /\ UNCHANGED <<chosen, selected, orphans, odd>>
             /\ Told(c, m) \/ Untold(c)
<1> DEFINE t == Tail(outbox[c])
           m == Received(c)
<1>1. TypeOK /\ Wired(c) /\ Receive(c, EditKind) BY DEF WiresOK, RoomEdit, EditKind
<1>2. /\ link[c] \in {"open", "closed"} /\ m.kind \in EditKind /\ m \in OutMessage(c)
      /\ outbox[c] # <<>> /\ m = Head(outbox[c])
      /\ t \in Seq(OutMessage(c)) /\ outbox' \in [Client -> Seq(Message)] /\ outbox'[c] = t
      /\ \A d \in Client \ {c} : outbox'[d] = outbox[d]
      /\ \A K : Carries(outbox[c], K) <=> m.kind \in K \/ Carries(t, K)
      /\ c \notin users => m.kind = "join"
      /\ Carries(t, {"quit"}) => link[c] = "closed" /\ One(t, {"quit"}) /\ After(t, {"quit"}, OtherKind)
      /\ One(t, {"pull"})
  BY <1>1, Receives
<1>3. /\ UNCHANGED <<users, authed, history, layer, drawing, link, used, commands, stale, loading>>
      /\ UNCHANGED <<chosen, selected, orphans, odd>>
  BY DEF RoomEdit, browser, bounds
<1>4. m \in InMessage /\ m.kind \notin {"join", "pull", "auth", "quit", "pulled"}
  <2>1. m \in InMessage BY <1>2, OutKinds
  <2>. QED BY <1>2, <2>1 DEF EditKind
<1> HIDE DEF t
<1>5. /\ Carries(t, {"pull"}) <=> Carries(outbox[c], {"pull"})
      /\ Carries(t, {"auth"}) <=> Carries(outbox[c], {"auth"})
      /\ c \in users
  BY <1>2, <1>4
<1>6. CASE c \in authed /\ room' = RoomGets(room, m) /\ Broadcast(c, m)
  <2> HIDE DEF m
  <2>1. /\ inbox' = [d \in Client |-> IF d # c /\ Listening(d) THEN Append(inbox[d], m) ELSE inbox[d]]
        /\ raced' = raced \cup {d \in users \ {c} : \E i \in DOMAIN outbox[d] : outbox[d][i].kind = "pull"}
    BY <1>6 DEF Broadcast
  <2>2. ASSUME NEW d \in Client \ {c} PROVE Hears(c, d, m)
    <3>1. Asking(d) <=> \E i \in DOMAIN outbox[d] : outbox[d][i].kind = "pull"
      <4>1. outbox[d] \in Seq(Message) BY <1>1 DEF TypeOK
      <4>2. DOMAIN outbox[d] = 1 .. Len(outbox[d]) BY <4>1, LenProperties
      <4>. QED BY <4>2 DEF Asking, Carries
    <3>2. d \in raced' <=> d \in raced \/ (d \in users /\ Asking(d)) BY <2>1, <3>1
    <3>. QED BY <1>2, <1>3, <2>1, <3>2 DEF Hears
  <2>3. inbox'[c] = inbox[c] /\ (c \in raced' <=> c \in raced) BY <2>1
  <2>4. Told(c, m) BY <1>6, <2>2, <2>3 DEF Told
  <2>5. ASSUME NEW d \in Client PROVE inbox[d] \in Seq(InMessage) /\ Append(inbox[d], m) \in Seq(InMessage)
    <3>1. inbox[d] \in Seq(InMessage) BY DEF WiresOK, Wired
    <3>. QED BY <1>4, <3>1, AppendProperties
  <2>6. inbox' \in [Client -> Seq(Message)]
    <3>1. \A d \in Client : inbox[d] \in Seq(Message) /\ Append(inbox[d], m) \in Seq(Message)
      BY <2>5, MessageSets, SeqOfMore
    <3>. QED BY <2>1, <3>1
  <2>7. raced' \subseteq Client BY <1>1, <2>1 DEF TypeOK
  <2>8. room' \in EditState BY <1>1, <1>2, <1>4, <1>6, RoomGetsType DEF TypeOK
  <2>9. TypeOK' BY <1>1, <1>2, <1>3, <2>6, <2>7, <2>8 DEF TypeOK
  <2>10. Wired(c)' BY <1>1, <1>2, <1>3, <1>5, <2>3 DEF Wired, Asking, Answered, Fresh, Open, Clean
  <2>11. ASSUME NEW d \in Client \ {c} PROVE Wired(d)'
    <3>1. Wired(d) BY DEF WiresOK
    <3>2. Hears(c, d, m) BY <2>2
    <3>3. CASE Listening(d)
      <4> DEFINE q == Append(inbox[d], m)
      <4>1. inbox'[d] = q /\ link[d] = "open" BY <3>2, <3>3 DEF Hears, Listening, Open
      <4>2. q \in Seq(InMessage) /\ inbox[d] \in Seq(InMessage) BY <2>5
      <4>3. /\ Carries(q, {"pulled"}) <=> Carries(inbox[d], {"pulled"})
            /\ One(inbox[d], {"pulled"}) => One(q, {"pulled"})
        <5>1. m.kind \notin {"pulled"} BY <1>4
        <5>. QED BY <1>4, <4>2, <5>1, CarriesAppend
      <4> HIDE DEF q
      <4>. QED
        BY <1>3, <3>1, <3>2, <4>1, <4>2, <4>3 DEF Hears, Wired, Asking, Answered, Fresh, Open, Clean
    <3>4. CASE ~Listening(d)
      <4>1. Unmoved(d) BY <1>3, <3>2, <3>4 DEF Unmoved, Hears
      <4>. QED BY <3>1, <4>1, StillWired
    <3>. QED BY <3>3, <3>4
  <2>12. WiresOK' BY <2>9, <2>10, <2>11 DEF WiresOK
  <2>. QED BY <1>2, <1>3, <1>4, <2>4, <2>12 DEF t, m
<1>7. CASE c \notin authed /\ UNCHANGED <<room, inbox, raced>>
  <2> HIDE DEF m
  <2>1. TypeOK' BY <1>1, <1>2, <1>3, <1>7 DEF TypeOK
  <2>2. Alone(c) BY <1>2, <1>3, <1>7 DEF Alone, Unmoved
  <2>3. Wired(c)' BY <1>1, <1>2, <1>3, <1>5, <1>7 DEF Wired, Asking, Answered, Fresh, Open, Clean
  <2>4. WiresOK' BY <2>1, <2>2, <2>3, ByOne
  <2>. QED BY <1>2, <1>3, <1>4, <1>7, <2>2, <2>4 DEF Untold, t, m
<1>. QED BY <1>6, <1>7 DEF RoomEdit, RoomGets

----------------------------------------------------------------------------
(* A browser handles a message.                                            *)

HandledAs(p, m, q) ==
  /\ m.kind = "push" => q = PushOn(p, m.id)
  /\ m.kind = "undo" => q = UndoOn(p, m.id)
  /\ m.kind = "redo" => q = RedoOn(p, m.id)
  /\ m.kind = "empty" => q = [p EXCEPT !.history = emptyUndone(@)]
  /\ m.kind = "pulled" => \E cd \in SetToSeqs(m.data.delete_current),
                             ud \in SetToSeqs(m.data.delete_undone) : q = PullOn(p, m.data, cd, ud)

(* A message makes a page of a page.                                       *)
LEMMA HandledType ==
  ASSUME NEW p \in PageState, NEW m \in InMessage, NEW q, HandledAs(p, m, q)
  PROVE  q \in PageState
<1>1. /\ m.kind \in EditKind \cup {"pulled"}
      /\ m.kind \in {"push", "undo", "redo"} => m.id \in Edit
      /\ m.kind = "pulled" => /\ m.data \in Answer
                              /\ m.data.delete_current = {} /\ m.data.delete_undone = {}
  BY InKinds
<1>2. CASE m.kind = "push" BY <1>1, <1>2, PushType DEF HandledAs
<1>3. CASE m.kind = "undo" BY <1>1, <1>3, UndoType DEF HandledAs
<1>4. CASE m.kind = "redo" BY <1>1, <1>4, RedoType DEF HandledAs
<1>5. CASE m.kind = "empty"
  <2>1. p.history \in EditState /\ p.history.current \in Seq(Edit) BY PageParts
  <2>2. emptyUndone(p.history) \in EditState
    <3>1. <<>> \in Seq(Edit) BY EmptySeq
    <3>. QED BY <2>1, <3>1 DEF emptyUndone, EditState
  <2>3. q = [p EXCEPT !.history = emptyUndone(p.history)] BY <1>5 DEF HandledAs
  <2>. QED BY <2>2, <2>3 DEF PageState
<1>6. CASE m.kind = "pulled"
  <2>1. PICK cd \in SetToSeqs(m.data.delete_current), ud \in SetToSeqs(m.data.delete_undone) :
           q = PullOn(p, m.data, cd, ud)
    BY <1>6 DEF HandledAs
  <2>. QED BY <1>1, <1>6, <2>1, Pulled
<1>. QED BY <1>1, <1>2, <1>3, <1>4, <1>5, <1>6 DEF EditKind

(* A browser takes the next message, and its page becomes what the handler *)
(* makes of it.                                                            *)
LEMMA HandleWires ==
  ASSUME WiresOK, NEW c \in Client, HandleMessage(c)
  PROVE  LET m == Head(inbox[c])
         IN  /\ WiresOK' /\ Alone(c) /\ Open(c) /\ inbox[c] # <<>> /\ inbox[c] \in Seq(InMessage)
             /\ m \in InMessage /\ inbox'[c] = Tail(inbox[c]) /\ Tail(inbox[c]) \in Seq(InMessage)
             /\ UNCHANGED <<room, users, authed, drawing, link, outbox, used, commands, stale, raced>>
             /\ UNCHANGED <<chosen, selected, orphans, odd>>
             /\ \A K : Carries(inbox[c], K) <=> m.kind \in K \/ Carries(Tail(inbox[c]), K)
             /\ m.kind = "pulled" => ~Carries(Tail(inbox[c]), {"pulled"})
             /\ \E q \in PageState : /\ HandledAs(PageOf(c), m, q)
                                     /\ history'[c] = q.history /\ layer'[c] = q.layer
<1> DEFINE i == inbox[c]
           m == Head(inbox[c])
           t == Tail(inbox[c])
           p == PageOf(c)
<1>1. TypeOK /\ Wired(c) /\ i # <<>> BY DEF WiresOK, HandleMessage
<1>2. i \in Seq(InMessage) /\ link[c] = "open" BY <1>1 DEF TypeOK, Wired
<1>3. m \in InMessage /\ t \in Seq(InMessage) BY <1>1, <1>2, TailIs
<1>4. /\ UNCHANGED <<room, users, authed, drawing, link, outbox, used, commands, stale, raced>>
      /\ UNCHANGED <<chosen, selected, orphans, odd>>
      /\ inbox' = [inbox EXCEPT ![c] = t]
  BY DEF HandleMessage, server, bounds, ghosts
<1>5. p \in PageState BY <1>1, BrowserParts
<1>6. PICK q : /\ Become(c, q) /\ HandledAs(p, m, q)
               /\ loading' = IF m.kind = "pulled" /\ q.ok THEN loading \ {c} ELSE loading
  <2>1. CASE m.kind = "push" /\ Become(c, PushOn(p, m.id)) /\ UNCHANGED loading
    BY <2>1 DEF HandledAs
  <2>2. CASE m.kind = "undo" /\ Become(c, UndoOn(p, m.id)) /\ UNCHANGED loading
    BY <2>2 DEF HandledAs
  <2>3. CASE m.kind = "redo" /\ Become(c, RedoOn(p, m.id)) /\ UNCHANGED loading
    BY <2>3 DEF HandledAs
  <2>4. CASE m.kind = "empty" /\ Become(c, [p EXCEPT !.history = emptyUndone(@)]) /\ UNCHANGED loading
    BY <2>4 DEF HandledAs
  <2>5. CASE /\ m.kind = "pulled"
             /\ \E cd \in SetToSeqs(m.data.delete_current), ud \in SetToSeqs(m.data.delete_undone) :
                  LET q == PullOn(p, m.data, cd, ud)
                  IN  Become(c, q) /\ loading' = IF q.ok THEN loading \ {c} ELSE loading
    BY <2>5 DEF HandledAs
  <2>. QED BY <2>1, <2>2, <2>3, <2>4, <2>5 DEF HandleMessage
<1> HIDE DEF p, m, t, i
<1>7. q \in PageState BY <1>3, <1>5, <1>6, HandledType
<1>8. /\ history' = [history EXCEPT ![c] = q.history] /\ layer' = [layer EXCEPT ![c] = q.layer]
      /\ q.history \in EditState /\ q.layer \in Layer /\ history'[c] = q.history /\ layer'[c] = q.layer
  BY <1>1, <1>6, <1>7, Becomes
<1>9. /\ history' \in [Client -> EditState] /\ layer' \in [Client -> [Adds -> Nat]]
      /\ \A d \in Client \ {c} : history'[d] = history[d] /\ layer'[d] = layer[d]
  BY <1>1, <1>8 DEF TypeOK, Layer
<1>10. /\ inbox' \in [Client -> Seq(Message)] /\ inbox'[c] = t
       /\ \A d \in Client \ {c} : inbox'[d] = inbox[d]
  BY <1>1, <1>3, <1>4, WireTypes
<1>11. loading' \subseteq Client /\ \A d \in Client \ {c} : d \in loading' <=> d \in loading
  BY <1>1, <1>6 DEF TypeOK
<1>12. TypeOK' BY <1>1, <1>4, <1>9, <1>10, <1>11 DEF TypeOK
<1>13. Alone(c) BY <1>4, <1>9, <1>10, <1>11 DEF Alone, Unmoved
<1>14. /\ \A K : Carries(i, K) <=> m.kind \in K \/ Carries(t, K)
       /\ One(i, {"pulled"}) => /\ One(t, {"pulled"})
                                /\ m.kind \in {"pulled"} => ~Carries(t, {"pulled"})
  BY <1>1, <1>2, CarriesTail DEF i, t, m
<1>15. One(i, {"pulled"}) BY <1>1 DEF Wired, i
<1>16. Wired(c)'
  <2>1. m.kind # "pulled" => loading' = loading BY <1>6
  <2>2. CASE m.kind = "pulled"
    <3>1. Carries(i, {"pulled"}) /\ ~Carries(t, {"pulled"}) BY <1>14, <1>15, <2>2
    <3>2. Fresh(c) => ~Asking(c) BY <1>1, <3>1 DEF Wired, Answered, i
    <3>. QED
      BY <1>1, <1>2, <1>3, <1>4, <1>10, <1>14, <1>15, <3>1, <3>2 DEF Wired, Asking, Answered, Fresh, Open, i
  <2>3. CASE m.kind # "pulled"
    <3>1. Carries(i, {"pulled"}) <=> Carries(t, {"pulled"}) BY <1>14, <2>3
    <3>. QED
      BY <1>1, <1>2, <1>3, <1>4, <1>10, <1>14, <1>15, <2>1, <2>3, <3>1
      DEF Wired, Asking, Answered, Fresh, Open, i
  <2>. QED BY <2>2, <2>3
<1>17. WiresOK' BY <1>12, <1>13, <1>16, ByOne
<1>18. m.kind = "pulled" => ~Carries(t, {"pulled"}) BY <1>14, <1>15
<1>. QED BY <1>1, <1>2, <1>3, <1>4, <1>6, <1>7, <1>8, <1>10, <1>13, <1>14, <1>17, <1>18 DEF p, m, t, i, Open

----------------------------------------------------------------------------
(* Every step keeps the wires in order.                                    *)

(* A step that changes nothing keeps the wires.                            *)
LEMMA WiresStutter ==
  ASSUME WiresOK, UNCHANGED vars
  PROVE  WiresOK'
<1>1. TypeOK' BY DEF WiresOK, TypeOK, vars, server, browser, bounds, ghosts
<1>2. \A d \in Client : Unmoved(d) BY DEF vars, server, browser, bounds, ghosts, Unmoved
<1>3. \A d \in Client : Wired(d)' BY <1>2, StillWired DEF WiresOK
<1>. QED BY <1>1, <1>3 DEF WiresOK

(* WiresOK is inductive, with any number of editors.                       *)
LEMMA WiresStep ==
  ASSUME WiresOK, [Next]_vars
  PROVE  WiresOK'
<1>1. CASE UNCHANGED vars BY <1>1, WiresStutter
<1>2. ASSUME NEW c \in Client, ClientStep(c) PROVE WiresOK'
  BY <1>2, ConnectWires, OpenedWires, DisconnectWires, LoseWires, ReconnectWires, MouseDownWires,
     SelectWires, DeleteWires, CutWires, MouseUpWires, AbandonWires, UndoWires, RedoWires, HandleWires
  DEF ClientStep
<1>3. ASSUME NEW c \in Client, RoomStep(c) PROVE WiresOK'
  BY <1>3, JoinWires, QuitWires, AuthWires, EditWires, PullWires DEF RoomStep
<1>. QED BY <1>1, <1>2, <1>3 DEF Next

(* Whatever the browsers and the room do, and however many of them edit,   *)
(* what each of them keeps and what travels between them stays what it is. *)
THEOREM TypeCorrect == Spec => []TypeOK
<1>1. Init => WiresOK BY WiresInit
<1>2. WiresOK /\ [Next]_vars => WiresOK' BY WiresStep
<1>3. WiresOK => TypeOK BY DEF WiresOK
<1>. QED BY <1>1, <1>2, <1>3, PTL DEF Spec

----------------------------------------------------------------------------
(* With one editor, the room and the pages follow its edits.               *)

(* An edit the editor makes of what it has, and what it has then.          *)
Goes(s, m, t) ==
  /\ m.kind = "push" => /\ Erasable(s.current, m.id)
                        /\ t = [current |-> Append(s.current, m.id), undone |-> s.undone]
  /\ m.kind = "undo" => /\ s.current # <<>> /\ m.id = Last(s.current)
                        /\ Undrawable(s.current, m.id)
                        /\ t = [current |-> Front(s.current), undone |-> Append(s.undone, m.id)]
  /\ m.kind = "redo" => /\ s.undone # <<>> /\ m.id = Last(s.undone)
                        /\ Erasable(s.current, m.id)
                        /\ t = [current |-> Append(s.current, m.id), undone |-> Front(s.undone)]
  /\ m.kind = "empty" => t = [current |-> s.current, undone |-> <<>>]
  /\ m.kind \notin EditKind => t = s

(* What the messages of a list, one after the other, make of s.            *)
Walk(w, s, q, t) ==
  /\ w \in [0 .. Len(q) -> EditState]
  /\ w[0] = s /\ w[Len(q)] = t
  /\ \A i \in 1 .. Len(q) : Goes(w[i - 1], q[i], w[i])

Chain(s, q, t) == \E w : Walk(w, s, q, t)

(* Nothing on its way changes nothing.                                     *)
LEMMA ChainEmpty ==
  ASSUME NEW s \in EditState
  PROVE  Chain(s, <<>>, s) /\ \A t : Chain(s, <<>>, t) => t = s
<1>1. Len(<<>>) = 0 /\ 0 \in 0 .. 0 OBVIOUS
<1>2. Chain(s, <<>>, s)
  <2> DEFINE w == [i \in 0 .. 0 |-> s]
  <2>1. w \in [0 .. 0 -> EditState] /\ w[0] = s /\ \A i \in 1 .. 0 : Goes(w[i - 1], <<>>[i], w[i])
    OBVIOUS
  <2> HIDE DEF w
  <2>2. Walk(w, s, <<>>, s) BY <1>1, <2>1 DEF Walk
  <2>. QED BY <2>2 DEF Chain
<1>3. ASSUME NEW t, Chain(s, <<>>, t) PROVE t = s
  <2>1. PICK w : Walk(w, s, <<>>, t) BY <1>3 DEF Chain
  <2>2. w[0] = s /\ w[0] = t BY <1>1, <2>1 DEF Walk
  <2>. QED BY <2>2
<1>. QED BY <1>2, <1>3

(* Messages that are no edits make nothing of it.                          *)
LEMMA ChainIdle ==
  ASSUME NEW S, NEW q \in Seq(S), NEW s \in EditState, ~Carries(q, EditKind)
  PROVE  Chain(s, q, s)
<1> DEFINE n == Len(q)
           w == [i \in 0 .. n |-> s]
<1>1. n \in Nat BY LenProperties
<1>2. w \in [0 .. n -> EditState] /\ w[0] = s /\ w[n] = s BY <1>1
<1>3. ASSUME NEW i \in 1 .. n PROVE Goes(w[i - 1], q[i], w[i])
  <2>1. q[i].kind \notin EditKind BY DEF Carries
  <2>2. w[i - 1] = s /\ w[i] = s BY <1>1
  <2> HIDE DEF w
  <2>. QED BY <2>1, <2>2 DEF Goes, EditKind
<1> HIDE DEF w
<1>4. Walk(w, s, q, s) BY <1>2, <1>3 DEF Walk
<1>. QED BY <1>4 DEF Chain

(* The first of them is taken ...                                          *)
LEMMA ChainHead ==
  ASSUME NEW S, NEW q \in Seq(S), q # <<>>, NEW s, NEW t, Chain(s, q, t)
  PROVE  \E r \in EditState : Goes(s, Head(q), r) /\ Chain(r, Tail(q), t)
<1> DEFINE n == Len(q) - 1
           k == Tail(q)
<1>1. /\ n \in Nat /\ Len(q) = n + 1 /\ Len(k) = n /\ Head(q) = q[1]
      /\ \A i \in 1 .. n : k[i] = q[i + 1]
  BY TailIs
<1> HIDE DEF n, k
<1>2. PICK w : Walk(w, s, q, t) BY DEF Chain
<1>3. /\ w \in [0 .. n + 1 -> EditState] /\ w[0] = s /\ w[n + 1] = t
      /\ \A i \in 1 .. n + 1 : Goes(w[i - 1], q[i], w[i])
  BY <1>1, <1>2 DEF Walk
<1> DEFINE v == [i \in 0 .. n |-> w[i + 1]]
<1>4. v \in [0 .. n -> EditState] /\ v[0] = w[1] /\ v[n] = t BY <1>1, <1>3
<1>5. ASSUME NEW i \in 1 .. n PROVE Goes(v[i - 1], k[i], v[i])
  <2>1. i + 1 \in 1 .. n + 1 /\ (i + 1) - 1 = (i - 1) + 1 /\ i - 1 \in 0 .. n /\ i \in 0 .. n BY <1>1
  <2>2. Goes(w[(i + 1) - 1], q[i + 1], w[i + 1]) BY <1>3, <2>1
  <2>3. v[i - 1] = w[(i + 1) - 1] /\ v[i] = w[i + 1] BY <2>1
  <2> HIDE DEF v
  <2>. QED BY <1>1, <2>2, <2>3
<1> HIDE DEF v
<1>6. Walk(v, w[1], k, t) BY <1>1, <1>4, <1>5 DEF Walk
<1>7. w[1] \in EditState /\ Goes(s, Head(q), w[1])
  <2>1. 1 \in 1 .. n + 1 /\ 1 \in 0 .. n + 1 /\ 1 - 1 = 0 BY <1>1
  <2>. QED BY <1>1, <1>3, <2>1
<1>. QED BY <1>6, <1>7 DEF Chain, k

(* ... and another one put behind them.                                    *)
LEMMA ChainAppend ==
  ASSUME NEW S, NEW q \in Seq(S), NEW m \in S, NEW s, NEW r, Chain(s, q, r),
         NEW t \in EditState, Goes(r, m, t)
  PROVE  Chain(s, Append(q, m), t)
<1> DEFINE n == Len(q)
           k == Append(q, m)
<1>1. n \in Nat /\ Len(k) = n + 1 /\ k[n + 1] = m /\ \A i \in 1 .. n : k[i] = q[i]
  BY AppendProperties, LenProperties
<1> HIDE DEF n, k
<1>2. PICK w : Walk(w, s, q, r) BY DEF Chain
<1>3. /\ w \in [0 .. n -> EditState] /\ w[0] = s /\ w[n] = r
      /\ \A i \in 1 .. n : Goes(w[i - 1], q[i], w[i])
  BY <1>2 DEF Walk, n
<1> DEFINE v == [i \in 0 .. n + 1 |-> IF i = n + 1 THEN t ELSE w[i]]
<1>4. /\ v \in [0 .. n + 1 -> EditState] /\ v[0] = s /\ v[n + 1] = t /\ v[n] = r
      /\ \A i \in 0 .. n : v[i] = w[i]
  BY <1>1, <1>3
<1> HIDE DEF v
<1>5. ASSUME NEW i \in 1 .. n + 1 PROVE Goes(v[i - 1], k[i], v[i])
  <2>1. CASE i = n + 1
    <3>1. i - 1 = n BY <1>1, <2>1
    <3>. QED BY <1>1, <1>4, <2>1, <3>1
  <2>2. CASE i # n + 1
    <3>1. i \in 1 .. n /\ i \in 0 .. n /\ i - 1 \in 0 .. n BY <1>1, <2>2
    <3>2. v[i - 1] = w[i - 1] /\ v[i] = w[i] /\ k[i] = q[i] BY <1>1, <1>4, <3>1
    <3>3. Goes(w[i - 1], q[i], w[i]) BY <1>3, <3>1
    <3>. QED BY <3>2, <3>3
  <2>. QED BY <2>1, <2>2
<1>6. Walk(v, s, k, t) BY <1>1, <1>4, <1>5 DEF Walk
<1>. QED BY <1>6 DEF Chain, k

(* Its ends are states.                                                    *)
LEMMA ChainEnds ==
  ASSUME NEW S, NEW q \in Seq(S), NEW s, NEW t, Chain(s, q, t)
  PROVE  s \in EditState /\ t \in EditState
<1>1. PICK w : Walk(w, s, q, t) BY DEF Chain
<1>2. Len(q) \in Nat BY LenProperties
<1>3. 0 \in 0 .. Len(q) /\ Len(q) \in 0 .. Len(q) BY <1>2
<1>. QED BY <1>1, <1>3 DEF Walk

(* The room does what the editor did.                                      *)
LEMMA RoomGoes ==
  ASSUME NEW s \in EditState, NEW m, m.kind \in EditKind, NEW t, Goes(s, m, t)
  PROVE  RoomGets(s, m) = t
<1>1. s.current \in Seq(Edit) /\ s.undone \in Seq(Edit) BY DEF EditState
<1>2. CASE m.kind = "push" BY <1>2 DEF Goes, RoomGets, ReplayStep
<1>3. CASE m.kind = "undo"
  <2>1. s.current # <<>> /\ m.id = Last(s.current) BY <1>3 DEF Goes
  <2>2. m.id \in ToSet(s.current) /\ RemoveLast(s.current, m.id) = Front(s.current)
    BY <1>1, <2>1, FoundLast
  <2>. QED BY <1>3, <2>2 DEF Goes, RoomGets, ReplayStep
<1>4. CASE m.kind = "redo"
  <2>1. s.undone # <<>> /\ m.id = Last(s.undone) BY <1>4 DEF Goes
  <2>2. m.id \in ToSet(s.undone) /\ RemoveLast(s.undone, m.id) = Front(s.undone)
    BY <1>1, <2>1, FoundLast
  <2>. QED BY <1>4, <2>2 DEF Goes, RoomGets, ReplayStep
<1>5. CASE m.kind = "empty"
  <2>1. [s EXCEPT !.undone = <<>>] = [current |-> s.current, undone |-> <<>>] BY DEF EditState
  <2>. QED BY <1>5, <2>1 DEF Goes, RoomGets
<1>. QED BY <1>2, <1>3, <1>4, <1>5 DEF EditKind

(* Its list can still be drawn.                                            *)
LEMMA DrawableGoes ==
  ASSUME NEW s \in EditState, NEW m \in InMessage, m.kind \in EditKind, NEW t, Goes(s, m, t),
         Drawable(s.current)
  PROVE  Drawable(t.current)
<1>1. s.current \in Seq(Edit) /\ s.undone \in Seq(Edit) BY DEF EditState
<1>2. m.kind \in {"push", "undo", "redo"} => m.id \in Edit BY InKinds
<1>3. CASE m.kind \in {"push", "redo"}
  <2>1. Erasable(s.current, m.id) /\ t.current = Append(s.current, m.id) BY <1>3 DEF Goes
  <2>. QED BY <1>1, <1>2, <1>3, <2>1, DrawableGrows
<1>4. CASE m.kind = "undo"
  <2>1. s.current # <<>> /\ t.current = Front(s.current) BY <1>4 DEF Goes
  <2>. QED BY <1>1, <2>1, DrawableShrinks
<1>5. CASE m.kind = "empty"
  <2>1. t.current = s.current BY <1>5 DEF Goes
  <2>. QED BY <2>1
<1>. QED BY <1>3, <1>4, <1>5 DEF EditKind

(* What is in a list that grows, and in one that loses its end.            *)
LEMMA InLists ==
  ASSUME NEW s \in Seq(Edit), NEW x \in Edit
  PROVE  /\ ToSet(Append(s, x)) = ToSet(s) \cup {x}
         /\ s # <<>> => ToSet(Front(s)) \subseteq ToSet(s) /\ Last(s) \in ToSet(s)
         /\ ToSet(<<>>) = {}
<1>1. ToSet(<<>>) = {} BY DEF ToSet
<1>2. ToSet(Append(s, x)) = ToSet(s) \cup {x}
  <2> DEFINE n == Len(s)
             t == Append(s, x)
  <2>1. /\ n \in Nat /\ DOMAIN s = 1 .. n /\ DOMAIN t = 1 .. n + 1
        /\ t[n + 1] = x /\ \A i \in 1 .. n : t[i] = s[i]
    BY AppendProperties, LenProperties
  <2> HIDE DEF n, t
  <2>2. \A y : y \in ToSet(t) <=> \E i \in 1 .. n + 1 : t[i] = y BY <2>1 DEF ToSet
  <2>3. \A y : y \in ToSet(s) <=> \E i \in 1 .. n : s[i] = y BY <2>1 DEF ToSet
  <2>4. \A i \in 1 .. n + 1 : i \in 1 .. n \/ i = n + 1 BY <2>1
  <2>5. \A i \in 1 .. n : i \in 1 .. n + 1 BY <2>1
  <2>6. n + 1 \in 1 .. n + 1 BY <2>1
  <2>7. ASSUME NEW y PROVE y \in ToSet(t) <=> y \in ToSet(s) \/ y = x
    BY <2>1, <2>2, <2>3, <2>4, <2>5, <2>6
  <2>. QED BY <2>7 DEF t
<1>3. ASSUME s # <<>> PROVE ToSet(Front(s)) \subseteq ToSet(s) /\ Last(s) \in ToSet(s)
  <2> DEFINE f == Front(s)
  <2>1. f \in Seq(Edit) /\ Len(s) \in Nat \ {0} /\ Len(f) = Len(s) - 1 /\ \A i \in 1 .. Len(s) - 1 : f[i] = s[i]
    BY <1>3, FrontAndLast
  <2>2. DOMAIN f = 1 .. Len(s) - 1 /\ DOMAIN s = 1 .. Len(s) BY <2>1, LenProperties
  <2> HIDE DEF f
  <2>3. \A i \in 1 .. Len(s) - 1 : i \in 1 .. Len(s) BY <2>1
  <2>4. ToSet(f) \subseteq ToSet(s) BY <2>1, <2>2, <2>3 DEF ToSet
  <2>5. Last(s) \in ToSet(s) BY <1>3, FoundLast
  <2>. QED BY <2>4, <2>5 DEF f
<1>. QED BY <1>1, <1>2, <1>3

Lists(s) == ToSet(s.current) \cup ToSet(s.undone)

(* No message brings an edit but the one it pushes.                        *)
LEMMA ListsGo ==
  ASSUME NEW s \in EditState, NEW m \in InMessage, m.kind \in EditKind, NEW t, Goes(s, m, t)
  PROVE  Lists(t) \subseteq Lists(s) \cup {x \in Edit : m.kind = "push" /\ x = m.id}
<1>1. s.current \in Seq(Edit) /\ s.undone \in Seq(Edit) BY DEF EditState
<1>2. m.kind \in {"push", "undo", "redo"} => m.id \in Edit BY InKinds
<1>3. CASE m.kind = "push"
  <2>1. t.current = Append(s.current, m.id) /\ t.undone = s.undone BY <1>3 DEF Goes
  <2>2. ToSet(t.current) = ToSet(s.current) \cup {m.id} BY <1>1, <1>2, <1>3, <2>1, InLists
  <2>. QED BY <1>2, <1>3, <2>1, <2>2 DEF Lists
<1>4. CASE m.kind = "undo"
  <2>1. /\ s.current # <<>> /\ m.id = Last(s.current)
        /\ t.current = Front(s.current) /\ t.undone = Append(s.undone, m.id)
    BY <1>4 DEF Goes
  <2>2. ToSet(t.undone) = ToSet(s.undone) \cup {m.id} BY <1>1, <1>2, <1>4, <2>1, InLists
  <2>3. ToSet(t.current) \subseteq ToSet(s.current) /\ m.id \in ToSet(s.current)
    BY <1>1, <1>2, <1>4, <2>1, InLists
  <2>. QED BY <2>2, <2>3 DEF Lists
<1>5. CASE m.kind = "redo"
  <2>1. /\ s.undone # <<>> /\ m.id = Last(s.undone)
        /\ t.undone = Front(s.undone) /\ t.current = Append(s.current, m.id)
    BY <1>5 DEF Goes
  <2>2. ToSet(t.current) = ToSet(s.current) \cup {m.id} BY <1>1, <1>2, <1>5, <2>1, InLists
  <2>3. ToSet(t.undone) \subseteq ToSet(s.undone) /\ m.id \in ToSet(s.undone)
    BY <1>1, <1>2, <1>5, <2>1, InLists
  <2>. QED BY <2>2, <2>3 DEF Lists
<1>6. CASE m.kind = "empty"
  <2>1. t.current = s.current /\ t.undone = <<>> BY <1>6 DEF Goes
  <2>2. ToSet(<<>>) = {} BY DEF ToSet
  <2>. QED BY <2>1, <2>2 DEF Lists
<1>. QED BY <1>3, <1>4, <1>5, <1>6 DEF EditKind

----------------------------------------------------------------------------
(* A page that lists and draws s behind and over what it had.              *)

Shows(h, l, s, jc, ju, x) ==
  /\ h = [current |-> jc \o s.current, undone |-> ju \o s.undone]
  /\ \A a \in Adds : l[a] = x[a] + Drawn(s.current, a)

(* It can do what s allows.                                                *)
LEMMA ShownCan ==
  ASSUME NEW h, NEW l, NEW s \in EditState, NEW jc, NEW ju, NEW x \in Layer,
         Shows(h, l, s, jc, ju, x), NEW id \in Edit
  PROVE  /\ Erasable(s.current, id) => CanApply(l, id)
         /\ Undrawable(s.current, id) => CanCancel(l, id)
<1>1. s.current \in Seq(Edit) BY DEF EditState
<1>2. \A a \in Adds : /\ x[a] \in Nat /\ Drawn(s.current, a) \in Int
                      /\ l[a] = x[a] + Drawn(s.current, a)
  BY <1>1, DrawnGrows, CollabAssumption DEF Shows, Layer
<1>3. id \in Removes => Target[id] \in Adds BY CollabAssumption
<1>4. ASSUME NEW a \in Adds, Drawn(s.current, a) > 0 PROVE l[a] > 0 BY <1>2, <1>4
<1>5. Erasable(s.current, id) => CanApply(l, id) BY <1>3, <1>4 DEF Erasable, CanApply
<1>6. Undrawable(s.current, id) => CanCancel(l, id) BY <1>4 DEF Undrawable, CanCancel
<1>. QED BY <1>5, <1>6

(* A page that shows s and handles a push of what s allows shows s with    *)
(* it.                                                                     *)
LEMMA PushShows ==
  ASSUME NEW p \in PageState, p.ok, NEW s \in EditState, NEW jc \in Seq(Edit), NEW ju \in Seq(Edit),
         NEW x \in Layer, Shows(p.history, p.layer, s, jc, ju, x),
         NEW id \in Edit, Erasable(s.current, id)
  PROVE  Shows(PushOn(p, id).history, PushOn(p, id).layer,
               [current |-> Append(s.current, id), undone |-> s.undone], jc, ju, x)
<1> DEFINE h == p.history
           l == p.layer
           c == s.current
           u == s.undone
<1>1. c \in Seq(Edit) /\ u \in Seq(Edit) BY DEF EditState
<1>2. h \in EditState /\ l \in Layer BY PageParts
<1>3. CanApply(l, id) BY ShownCan
<1>4. PushOn(p, id) = Page(addCurrent(h, id), applyEdit(l, id), TRUE) BY <1>3 DEF PushOn
<1>5. h.current = jc \o c /\ h.undone = ju \o u BY DEF Shows
<1>6. \A a \in Adds : l[a] = x[a] + Drawn(c, a) BY DEF Shows
<1> HIDE DEF h, l, c, u
<1>7. addCurrent(h, id) = [current |-> Append(jc \o c, id), undone |-> ju \o u]
  BY <1>2, <1>5, Setters
<1>8. jc \o Append(c, id) = Append(jc \o c, id) BY <1>1, EndOfEdits, Zenon
<1>9. \A a \in Adds : applyEdit(l, id)[a] = x[a] + Drawn(Append(c, id), a)
  <2> TAKE a \in Adds
  <2>1. applyEdit(l, id)[a] = l[a] + Gain(id, a) BY <1>2, <1>3, Applied
  <2>2. Drawn(Append(c, id), a) = Drawn(c, a) + Gain(id, a) /\ Drawn(c, a) \in Int /\ Gain(id, a) \in Int
    BY <1>1, DrawnGrows, GainIs
  <2>3. x[a] \in Nat BY DEF Layer
  <2>. QED BY <1>6, <2>1, <2>2, <2>3
<1>10. PushOn(p, id).history = addCurrent(h, id) /\ PushOn(p, id).layer = applyEdit(l, id)
  BY <1>4 DEF Page
<1>. QED BY <1>7, <1>8, <1>9, <1>10 DEF Shows, c, u

(* ... an undo of the last edit of s.                                      *)
LEMMA UndoShows ==
  ASSUME NEW p \in PageState, NEW s \in EditState, NEW jc \in Seq(Edit), NEW ju \in Seq(Edit),
         NEW x \in Layer, Shows(p.history, p.layer, s, jc, ju, x),
         s.current # <<>>, NEW id, id = Last(s.current), CanCancel(p.layer, id)
  PROVE  Shows(UndoOn(p, id).history, UndoOn(p, id).layer,
               [current |-> Front(s.current), undone |-> Append(s.undone, id)], jc, ju, x)
<1> DEFINE h == p.history
           l == p.layer
           c == s.current
           u == s.undone
           k == jc \o c
<1>1. c \in Seq(Edit) /\ u \in Seq(Edit) /\ c # <<>> /\ id = Last(c) BY DEF EditState
<1>2. h \in EditState /\ l \in Layer /\ CanCancel(l, id) BY PageParts
<1>3. h.current = k /\ h.undone = ju \o u BY DEF Shows
<1>4. \A a \in Adds : l[a] = x[a] + Drawn(c, a) BY DEF Shows
<1>5. UndoOn(p, id) = IF FindLast(h.current, id) = 0 \/ ~CanCancel(l, id) THEN p
                      ELSE Page(undo(h, id), cancelEdit(l, id), TRUE)
  BY DEF UndoOn
<1> HIDE DEF h, l, c, u
<1>6. id \in Edit BY <1>1, FrontAndLast
<1>7. k \in Seq(Edit) /\ k # <<>> /\ Last(k) = id /\ Front(k) = jc \o Front(c)
  BY <1>1, <1>6, EndOfList
<1> HIDE DEF k
<1>8. FindLast(k, id) = Len(k) /\ FindLast(k, id) # 0 /\ RemoveAt(k, Len(k)) = Front(k)
  BY <1>7, FoundLast
<1>9. undo(h, id) = [current |-> jc \o Front(c), undone |-> Append(ju \o u, id)]
  <2>1. undo(h, id) = IF FindLast(h.current, id) = 0 THEN h
                      ELSE [current |-> RemoveAt(h.current, FindLast(h.current, id)),
                            undone |-> Append(h.undone, id)]
    BY DEF undo
  <2>2. FindLast(h.current, id) # 0 /\ RemoveAt(h.current, FindLast(h.current, id)) = jc \o Front(c)
    BY <1>3, <1>7, <1>8
  <2>3. Append(h.undone, id) = Append(ju \o u, id) BY <1>3
  <2>. QED BY <2>1, <2>2, <2>3
<1>10. ju \o Append(u, id) = Append(ju \o u, id)
  <2>1. u \in Seq(Edit) BY <1>1
  <2>2. \A e \in Edit : ju \o Append(u, e) = Append(ju \o u, e) BY <2>1, EndOfList
  <2>. QED BY <1>6, <2>2
<1>11. \A a \in Adds : cancelEdit(l, id)[a] = x[a] + Drawn(Front(c), a)
  <2> TAKE a \in Adds
  <2>1. cancelEdit(l, id)[a] = l[a] - Gain(id, a) BY <1>2, <1>6, Cancelled
  <2>2. Drawn(Front(c), a) = Drawn(c, a) - Gain(id, a) /\ Drawn(c, a) \in Int /\ Gain(id, a) \in Int
    BY <1>1, <1>6, DrawnShrinks, GainIs
  <2>3. x[a] \in Nat BY DEF Layer
  <2>. QED BY <1>4, <2>1, <2>2, <2>3
<1>12. UndoOn(p, id).history = undo(h, id) /\ UndoOn(p, id).layer = cancelEdit(l, id)
  BY <1>2, <1>3, <1>5, <1>8 DEF Page
<1>. QED BY <1>9, <1>10, <1>11, <1>12 DEF Shows, c, u

(* ... a redo of the last undone edit of s.                                *)
LEMMA RedoShows ==
  ASSUME NEW p \in PageState, NEW s \in EditState, NEW jc \in Seq(Edit), NEW ju \in Seq(Edit),
         NEW x \in Layer, Shows(p.history, p.layer, s, jc, ju, x),
         s.undone # <<>>, NEW id, id = Last(s.undone), CanApply(p.layer, id)
  PROVE  Shows(RedoOn(p, id).history, RedoOn(p, id).layer,
               [current |-> Append(s.current, id), undone |-> Front(s.undone)], jc, ju, x)
<1> DEFINE h == p.history
           l == p.layer
           c == s.current
           u == s.undone
           k == ju \o u
<1>1. c \in Seq(Edit) /\ u \in Seq(Edit) /\ u # <<>> /\ id = Last(u) BY DEF EditState
<1>2. h \in EditState /\ l \in Layer /\ CanApply(l, id) BY PageParts
<1>3. h.undone = k /\ h.current = jc \o c BY DEF Shows
<1>4. \A a \in Adds : l[a] = x[a] + Drawn(c, a) BY DEF Shows
<1>5. RedoOn(p, id) = IF FindLast(h.undone, id) = 0 \/ ~CanApply(l, id) THEN p
                      ELSE Page(redo(h), applyEdit(l, id), TRUE)
  BY DEF RedoOn
<1> HIDE DEF h, l, c, u
<1>6. id \in Edit BY <1>1, FrontAndLast
<1>7. k \in Seq(Edit) /\ k # <<>> /\ Last(k) = id /\ Front(k) = ju \o Front(u)
  BY <1>1, <1>6, EndOfList
<1> HIDE DEF k
<1>8. FindLast(k, id) # 0 BY <1>7, FoundLast
<1>9. redo(h) = [current |-> Append(jc \o c, id), undone |-> ju \o Front(u)]
  <2>1. redo(h) = IF h.undone = <<>> THEN h
                  ELSE [current |-> Append(h.current, Last(h.undone)), undone |-> Front(h.undone)]
    BY DEF redo
  <2>2. h.undone # <<>> /\ Front(h.undone) = ju \o Front(u) BY <1>3, <1>7
  <2>3. Append(h.current, Last(h.undone)) = Append(jc \o c, id) BY <1>3, <1>7
  <2>. QED BY <2>1, <2>2, <2>3
<1>10. jc \o Append(c, id) = Append(jc \o c, id)
  <2>1. c \in Seq(Edit) BY <1>1
  <2>2. \A e \in Edit : jc \o Append(c, e) = Append(jc \o c, e) BY <2>1, EndOfList
  <2>. QED BY <1>6, <2>2
<1>11. \A a \in Adds : applyEdit(l, id)[a] = x[a] + Drawn(Append(c, id), a)
  <2> TAKE a \in Adds
  <2>1. applyEdit(l, id)[a] = l[a] + Gain(id, a) BY <1>2, <1>6, Applied
  <2>2. Drawn(Append(c, id), a) = Drawn(c, a) + Gain(id, a) /\ Drawn(c, a) \in Int /\ Gain(id, a) \in Int
    BY <1>1, <1>6, DrawnGrows, GainIs
  <2>3. x[a] \in Nat BY DEF Layer
  <2>. QED BY <1>4, <2>1, <2>2, <2>3
<1>12. RedoOn(p, id).history = redo(h) /\ RedoOn(p, id).layer = applyEdit(l, id)
  BY <1>2, <1>3, <1>5, <1>8 DEF Page
<1>. QED BY <1>9, <1>10, <1>11, <1>12 DEF Shows, c, u

(* ... and follows it when it handles an edit the editor made of s.        *)
LEMMA FollowStep ==
  ASSUME NEW p \in PageState, p.ok, NEW s \in EditState, NEW jc \in Seq(Edit), NEW ju \in Seq(Edit),
         NEW x \in Layer, Shows(p.history, p.layer, s, jc, ju, x),
         NEW m \in InMessage, m.kind \in EditKind, NEW q, HandledAs(p, m, q),
         NEW t \in EditState, Goes(s, m, t)
  PROVE  \E k \in Seq(Edit) : Shows(q.history, q.layer, t, jc, k, x) /\ (ju = <<>> => k = <<>>)
<1>1. s.current \in Seq(Edit) /\ s.undone \in Seq(Edit) BY DEF EditState
<1>2. m.kind \in {"push", "undo", "redo"} => m.id \in Edit BY InKinds
<1>3. CASE m.kind = "push"
  <2>1. /\ Erasable(s.current, m.id) /\ q = PushOn(p, m.id)
        /\ t = [current |-> Append(s.current, m.id), undone |-> s.undone]
    BY <1>3 DEF Goes, HandledAs
  <2>2. Shows(q.history, q.layer, t, jc, ju, x) BY <1>2, <1>3, <2>1, PushShows
  <2>. QED BY <2>2
<1>4. CASE m.kind = "undo"
  <2>1. /\ s.current # <<>> /\ m.id = Last(s.current) /\ Undrawable(s.current, m.id)
        /\ t = [current |-> Front(s.current), undone |-> Append(s.undone, m.id)]
        /\ q = UndoOn(p, m.id)
    BY <1>4 DEF Goes, HandledAs
  <2>2. CanCancel(p.layer, m.id) BY <1>2, <1>4, <2>1, ShownCan
  <2>3. Shows(q.history, q.layer, t, jc, ju, x) BY <2>1, <2>2, UndoShows
  <2>. QED BY <2>3
<1>5. CASE m.kind = "redo"
  <2>1. /\ s.undone # <<>> /\ m.id = Last(s.undone) /\ Erasable(s.current, m.id)
        /\ t = [current |-> Append(s.current, m.id), undone |-> Front(s.undone)]
        /\ q = RedoOn(p, m.id)
    BY <1>5 DEF Goes, HandledAs
  <2>2. CanApply(p.layer, m.id) BY <1>2, <1>5, <2>1, ShownCan
  <2>3. Shows(q.history, q.layer, t, jc, ju, x) BY <2>1, <2>2, RedoShows
  <2>. QED BY <2>3
<1>6. CASE m.kind = "empty"
  <2>1. t = [current |-> s.current, undone |-> <<>>] BY <1>6 DEF Goes
  <2>2. p.history \in EditState BY PageParts
  <2>3. q = [p EXCEPT !.history = emptyUndone(p.history)] BY <1>6 DEF HandledAs
  <2>4. q.history = emptyUndone(p.history) /\ q.layer = p.layer BY <2>3 DEF PageState
  <2>5. p.history.current = jc \o s.current BY DEF Shows
  <2>6. q.history = [current |-> jc \o s.current, undone |-> <<>>]
    <3>1. emptyUndone(p.history) = [current |-> p.history.current, undone |-> <<>>]
      <4> DEFINE h == p.history
      <4>1. [h EXCEPT !.undone = <<>>] = [current |-> h.current, undone |-> <<>>]
        BY <2>2 DEF EditState
      <4>. QED BY <4>1 DEF emptyUndone
    <3>. QED BY <2>4, <2>5, <3>1
  <2>7. <<>> \in Seq(Edit) /\ <<>> \o <<>> = <<>> BY EmptySeq, ConcatEmptySeq
  <2>8. t.current = s.current /\ t.undone = <<>> BY <2>1
  <2>9. \A a \in Adds : q.layer[a] = x[a] + Drawn(t.current, a) BY <2>4, <2>8 DEF Shows
  <2>10. Shows(q.history, q.layer, t, jc, <<>>, x) BY <2>6, <2>7, <2>8, <2>9 DEF Shows
  <2>. QED BY <2>7, <2>10
<1>. QED BY <1>3, <1>4, <1>5, <1>6 DEF EditKind

----------------------------------------------------------------------------
(* The invariant, of one editor.                                           *)

OneEditor == \A x, y \in Editor : x = y

Following(c) == Fresh(c) /\ ~Asking(c) /\ ~Answered(c)
Live(c) == c \in authed \/ Carries(outbox[c], {"auth"})

(* The edits of E, and the shapes they erase, are among those of U.        *)
Made(E, U) == E \subseteq U /\ \A x \in E \cap Removes : Target[x] \in U
Known(E) == Made(E, used)

(* The room's list can be drawn.                                           *)
RoomFine == Drawable(room.current) /\ Known(Lists(room))

(* What an answer says the room has.                                       *)
Said(m) == [current |-> m.data.create_current, undone |-> m.data.create_undone]

(* The answer m is on its way behind pre, and rest leads on to the room.   *)
AnswerAt(c, pre, m, rest) ==
  /\ inbox[c] = pre \o (<<m>> \o rest) /\ m.kind = "pulled"
  /\ Drawable(m.data.create_current) /\ Chain(Said(m), rest, room)
  /\ c \notin raced => pre = <<>>

(* The page shows s, and what is on its way leads on to the room.          *)
FollowsAt(c, s, jc, ju, x) ==
  /\ Shows(history[c], layer[c], s, jc, ju, x) /\ Chain(s, inbox[c], room)
  /\ c \notin raced => jc = <<>> /\ ju = <<>> /\ x = Blank

(* Somebody who watches.                                                   *)
Attached(c) ==
  /\ Fresh(c) /\ (Asking(c) \/ Answered(c)) /\ c \notin raced => Clean(c)
  /\ Fresh(c) /\ Asking(c) /\ c \notin raced => inbox[c] = <<>>
  /\ Fresh(c) /\ Answered(c) =>
       \E pre, rest \in Seq(InMessage), m \in InMessage : AnswerAt(c, pre, m, rest)
  /\ Following(c) =>
       \E s \in EditState, jc, ju \in Seq(Edit), x \in Layer : FollowsAt(c, s, jc, ju, x)

(* The shapes of a canvas that are no edits: those whose drawing was       *)
(* abandoned, and the one in the making, which is not selected.            *)
InHand(c) == orphans[c] \cup ({drawing[c]} \ {None})
InTheMaking(c) == drawing[c] \notin orphans[c] \cup ({chosen[c]} \ {None})

(* A page, the shapes W in its hand, and the edits made so far.            *)
Draws(h, l, W, U) ==
  /\ \A a \in Adds : l[a] = Drawn(h.current, a) + (IF a \in W THEN 1 ELSE 0)
  /\ Made(Lists(h), U) /\ W \subseteq U
  /\ W \cap Lists(h) = {} /\ \A x \in Lists(h) \cap Removes : Target[x] \notin W

(* A history that is t but for undone edits that were given up, if any.    *)
Ends(h, t, some) ==
  /\ h.current = t.current
  /\ \E given \in Seq(Edit) : t.undone = given \o h.undone /\ (~some => given = <<>>)

(* The editor.                                                             *)
Leads(c) ==
  /\ c \notin raced /\ (Fresh(c) => Live(c)) /\ After(outbox[c], EditKind, {"auth"})
  /\ Live(c) => /\ \E t \in EditState : Chain(room, outbox[c], t)
                /\ \A i \in 1 .. Len(outbox[c]) :
                     outbox[c][i].kind = "push" => Known({outbox[c][i].id})
  /\ Fresh(c) /\ (Asking(c) \/ Answered(c)) => Clean(c) /\ ~Carries(outbox[c], EditKind)
  /\ Fresh(c) /\ Asking(c) => inbox[c] = <<>>
  /\ Fresh(c) /\ Answered(c) =>
       \E m \in InMessage : inbox[c] = <<m>> /\ m.kind = "pulled" /\ Said(m) = room
  /\ Following(c) => /\ inbox[c] = <<>> /\ InTheMaking(c)
                     /\ \E t \in EditState : /\ Chain(room, outbox[c], t)
                                             /\ Ends(history[c], t, c \in selected)
                     /\ Draws(history[c], layer[c], InHand(c), used)

InStep == /\ WiresOK /\ RoomFine
          /\ \A c \in Client \ Editor : Attached(c)
          /\ \A c \in Editor : Leads(c)

(* Who does not move keeps its part.                                       *)
LEMMA StillAttached ==
  ASSUME NEW d, Attached(d), Unmoved(d), room' = room, d \in raced' <=> d \in raced
  PROVE  Attached(d)'
<1>1. /\ history'[d] = history[d] /\ layer'[d] = layer[d] /\ drawing'[d] = drawing[d]
      /\ inbox'[d] = inbox[d] /\ outbox'[d] = outbox[d]
      /\ Fresh(d)' <=> Fresh(d)
      /\ Asking(d)' <=> Asking(d)
      /\ Answered(d)' <=> Answered(d)
      /\ Clean(d)' <=> Clean(d)
      /\ Following(d)' <=> Following(d)
  BY DEF Unmoved, Fresh, Open, Asking, Answered, Clean, Following
<1>2. ASSUME NEW pre, NEW rest, NEW m, AnswerAt(d, pre, m, rest) PROVE AnswerAt(d, pre, m, rest)'
  BY <1>1, <1>2 DEF AnswerAt
<1>3. ASSUME NEW s, NEW jc, NEW ju, NEW x, FollowsAt(d, s, jc, ju, x) PROVE FollowsAt(d, s, jc, ju, x)'
  BY <1>1, <1>3 DEF FollowsAt
<1>. QED BY <1>1, <1>2, <1>3 DEF Attached

(* Edits that were made stay made.                                         *)
LEMMA StillKnown ==
  ASSUME used \subseteq used'
  PROVE  \A E : Known(E) => Made(E, used')
BY DEF Known, Made

(* A page draws what it did when further edits are made elsewhere.         *)
LEMMA StillDraws ==
  ASSUME NEW U, NEW V, U \subseteq V, NEW h, NEW l, NEW W, Draws(h, l, W, U)
  PROVE  Draws(h, l, W, V)
BY DEF Draws, Made

(* An edit of the one is an edit of the other: the end of a history that   *)
(* misses undone edits moves with it.                                      *)
LEMMA EndsGo ==
  ASSUME NEW h \in EditState, NEW t \in EditState, NEW some, Ends(h, t, some),
         NEW m \in InMessage, m.kind \in EditKind, NEW g, Goes(h, m, g)
  PROVE  \E r \in EditState :
           Goes(t, m, r) /\ Ends(g, r, some) /\ (m.kind = "empty" => Ends(g, r, FALSE))
<1>1. /\ h.current \in Seq(Edit) /\ h.undone \in Seq(Edit) /\ t.current = h.current
      /\ m.kind \in {"push", "undo", "redo"} => m.id \in Edit
  BY InKinds DEF Ends, EditState
<1>2. PICK given \in Seq(Edit) : t.undone = given \o h.undone /\ (~some => given = <<>>)
  BY DEF Ends
<1>3. t.undone \in Seq(Edit) BY DEF EditState
<1>4. CASE m.kind = "push"
  <2> DEFINE r == [current |-> Append(t.current, m.id), undone |-> t.undone]
  <2>1. g = [current |-> Append(h.current, m.id), undone |-> h.undone] /\ Erasable(t.current, m.id)
    BY <1>1, <1>4 DEF Goes
  <2>2. r \in EditState BY <1>1, <1>3, <1>4 DEF EditState
  <2>3. r.current = Append(t.current, m.id) /\ r.undone = t.undone OBVIOUS
  <2>4. Goes(t, m, r) BY <1>4, <2>1 DEF Goes, EditKind
  <2> HIDE DEF r
  <2>5. Ends(g, r, some) BY <1>1, <1>2, <2>1, <2>3 DEF Ends
  <2>. QED BY <1>4, <2>2, <2>4, <2>5
<1>5. CASE m.kind = "undo"
  <2> DEFINE r == [current |-> Front(t.current), undone |-> Append(t.undone, m.id)]
  <2>1. /\ h.current # <<>> /\ m.id = Last(h.current) /\ Undrawable(h.current, m.id)
        /\ g = [current |-> Front(h.current), undone |-> Append(h.undone, m.id)]
    BY <1>5 DEF Goes
  <2>2. Front(t.current) \in Seq(Edit) BY <1>1, <2>1, FrontAndLast
  <2>3. r \in EditState BY <1>1, <1>3, <1>5, <2>2 DEF EditState
  <2>4. r.current = Front(t.current) /\ r.undone = Append(t.undone, m.id) OBVIOUS
  <2>5. Goes(t, m, r) BY <1>1, <1>5, <2>1 DEF Goes, EditKind
  <2>6. Append(t.undone, m.id) = given \o Append(h.undone, m.id)
    <3>1. m.id \in Edit BY <1>1, <1>5
    <3>2. given \o Append(h.undone, m.id) = Append(given \o h.undone, m.id) BY <1>1, <3>1, EndOfEdits
    <3>. QED BY <1>2, <3>2
  <2> HIDE DEF r
  <2>7. g.current = Front(h.current) /\ g.undone = Append(h.undone, m.id) BY <2>1
  <2>8. Ends(g, r, some) BY <1>1, <1>2, <2>4, <2>6, <2>7 DEF Ends
  <2>. QED BY <1>5, <2>3, <2>5, <2>8
<1>6. CASE m.kind = "redo"
  <2> DEFINE r == [current |-> Append(t.current, m.id), undone |-> Front(t.undone)]
  <2>1. /\ h.undone # <<>> /\ m.id = Last(h.undone) /\ Erasable(h.current, m.id)
        /\ g = [current |-> Append(h.current, m.id), undone |-> Front(h.undone)]
    BY <1>6 DEF Goes
  <2>2. t.undone # <<>> /\ Last(t.undone) = Last(h.undone) /\ Front(t.undone) = given \o Front(h.undone)
    BY <1>1, <1>2, <2>1, FrontOfEdits
  <2>3. Front(t.undone) \in Seq(Edit) BY <1>3, <2>2, FrontAndLast
  <2>4. r \in EditState BY <1>1, <1>6, <2>3 DEF EditState
  <2>5. r.current = Append(t.current, m.id) /\ r.undone = Front(t.undone) OBVIOUS
  <2>6. Goes(t, m, r) BY <1>1, <1>6, <2>1, <2>2 DEF Goes, EditKind
  <2> HIDE DEF r
  <2>7. g.current = Append(h.current, m.id) /\ g.undone = Front(h.undone) BY <2>1
  <2>8. Ends(g, r, some) BY <1>1, <1>2, <2>2, <2>5, <2>7 DEF Ends
  <2>. QED BY <1>6, <2>4, <2>6, <2>8
<1>7. CASE m.kind = "empty"
  <2> DEFINE r == [current |-> t.current, undone |-> <<>>]
  <2>1. g = [current |-> h.current, undone |-> <<>>] BY <1>7 DEF Goes
  <2>2. <<>> \in Seq(Edit) /\ <<>> \o <<>> = <<>> BY EmptySeq, ConcatEmptySeq
  <2>3. r \in EditState BY <1>1, <2>2 DEF EditState
  <2>4. r.current = t.current /\ r.undone = <<>> OBVIOUS
  <2>5. Goes(t, m, r) BY <1>7 DEF Goes, EditKind
  <2> HIDE DEF r
  <2>6. Ends(g, r, FALSE) /\ Ends(g, r, some) BY <1>1, <2>1, <2>2, <2>4 DEF Ends
  <2>. QED BY <2>3, <2>5, <2>6
<1>. QED BY <1>4, <1>5, <1>6, <1>7 DEF EditKind

(* Two that agree do, and emptying one leaves it the end of the other.     *)
LEMMA EndsAre ==
  ASSUME NEW h \in EditState
  PROVE  /\ Ends(h, h, FALSE)
         /\ \A t \in EditState : \A some, more \in BOOLEAN :
              /\ Ends(h, t, some) /\ (some => more) => Ends(h, t, more)
              /\ Ends(h, t, some) => Ends([current |-> h.current, undone |-> <<>>], t, TRUE)
<1>1. h.undone \in Seq(Edit) /\ <<>> \in Seq(Edit) BY EmptySeq DEF EditState
<1>2. Ends(h, h, FALSE)
  <2>1. <<>> \o h.undone = h.undone BY <1>1, ConcatEmptySeq
  <2>. QED BY <1>1, <2>1 DEF Ends
<1>3. ASSUME NEW t \in EditState, NEW some \in BOOLEAN, NEW more \in BOOLEAN, Ends(h, t, some)
      PROVE  /\ (some => more) => Ends(h, t, more)
             /\ Ends([current |-> h.current, undone |-> <<>>], t, TRUE)
  <2>1. t.undone \in Seq(Edit) /\ t.undone \o <<>> = t.undone BY ConcatEmptySeq DEF EditState
  <2>2. (some => more) => Ends(h, t, more) BY <1>3 DEF Ends
  <2>3. h.current = t.current BY <1>3 DEF Ends
  <2>4. \E given \in Seq(Edit) : t.undone = given \o <<>> BY <2>1
  <2>5. Ends([current |-> h.current, undone |-> <<>>], t, TRUE) BY <2>3, <2>4 DEF Ends
  <2>. QED BY <2>2, <2>5
<1>. QED BY <1>2, <1>3

(* An editor that nothing happens to, with a room that stays, stays in     *)
(* step.                                                                   *)
LEMMA StillLeads ==
  ASSUME NEW d, Leads(d), Unmoved(d), room' = room, d \in raced' <=> d \in raced, used \subseteq used'
  PROVE  Leads(d)'
<1>1. /\ history'[d] = history[d] /\ layer'[d] = layer[d] /\ InHand(d)' = InHand(d)
      /\ inbox'[d] = inbox[d] /\ outbox'[d] = outbox[d]
      /\ d \in selected' <=> d \in selected
      /\ InTheMaking(d)' <=> InTheMaking(d)
      /\ Fresh(d)' <=> Fresh(d)
      /\ Asking(d)' <=> Asking(d)
      /\ Answered(d)' <=> Answered(d)
      /\ Clean(d)' <=> Clean(d)
      /\ Following(d)' <=> Following(d)
      /\ Live(d)' <=> Live(d)
  BY DEF Unmoved, Fresh, Open, Asking, Answered, Clean, Following, Live, InHand, InTheMaking
<1>2. \A E : Known(E) => Made(E, used') BY StillKnown
<1>3. Draws(history[d], layer[d], InHand(d), used) => Draws(history'[d], layer'[d], InHand(d)', used')
  BY <1>1, StillDraws
<1>4. \A t : Ends(history[d], t, d \in selected) => Ends(history'[d], t, d \in selected') BY <1>1 DEF Ends
<1>. QED BY <1>1, <1>2, <1>3, <1>4 DEF Leads, Known

(* A step of one browser that leaves the room as it is.                    *)
LEMMA OneMoves ==
  ASSUME InStep, WiresOK', NEW c \in Client, Alone(c), room' = room,
         \A d \in Client \ {c} : d \in raced' <=> d \in raced, used \subseteq used',
         c \notin Editor => Attached(c)', c \in Editor => Leads(c)'
  PROVE  InStep'
<1>1. RoomFine' BY StillKnown DEF InStep, RoomFine, Known
<1>2. ASSUME NEW d \in Client \ Editor PROVE Attached(d)'
  <2>1. Attached(d) BY DEF InStep
  <2>2. CASE d = c BY <2>2
  <2>3. CASE d # c
    <3>1. Unmoved(d) /\ (d \in raced' <=> d \in raced) BY <2>3 DEF Alone
    <3>. QED BY <2>1, <3>1, StillAttached
  <2>. QED BY <2>2, <2>3
<1>3. ASSUME NEW d \in Editor PROVE Leads(d)'
  <2>1. Leads(d) /\ d \in Client BY CollabAssumption DEF InStep
  <2>2. CASE d = c BY <2>2
  <2>3. CASE d # c
    <3>1. Unmoved(d) /\ (d \in raced' <=> d \in raced) BY <2>1, <2>3 DEF Alone
    <3>. QED BY <2>1, <3>1, StillLeads
  <2>. QED BY <2>2, <2>3
<1>. QED BY <1>1, <1>2, <1>3 DEF InStep

----------------------------------------------------------------------------
(* The connections.                                                        *)

(* Nothing of the kinds J is behind anything.                              *)
LEMMA AfterNone ==
  ASSUME NEW q, NEW K, NEW J, ~Carries(q, K) \/ ~Carries(q, J)
  PROVE  After(q, K, J)
BY DEF Carries, After

(* At first there is nothing anywhere.                                     *)
LEMMA InStepInit ==
  ASSUME Init
  PROVE  InStep
<1>1. WiresOK BY WiresInit
<1>2. /\ room = NoEdits /\ raced = {} /\ authed = {}
      /\ \A c \in Client : outbox[c] = <<>> /\ link[c] = "closed"
  BY DEF Init
<1>3. room.current = <<>> /\ room.undone = <<>> BY <1>2 DEF NoEdits
<1>4. RoomFine
  <2>1. Drawable(<<>>)
    <3>1. Len(<<>>) = 0 /\ 1 .. 0 = {} OBVIOUS
    <3>. QED BY <3>1 DEF Drawable
  <2>2. Lists(room) = {}
    <3>1. ToSet(<<>>) = {} BY DEF ToSet
    <3>. QED BY <1>3, <3>1 DEF Lists
  <2>3. Known(Lists(room)) BY <2>2 DEF Known, Made
  <2>. QED BY <1>3, <2>1, <2>3 DEF RoomFine
<1>5. ASSUME NEW c \in Client PROVE ~Fresh(c) /\ ~Live(c) /\ ~Following(c)
  BY <1>2, CarriesNone DEF Fresh, Open, Live, Following
<1>6. ASSUME NEW c \in Client \ Editor PROVE Attached(c) BY <1>5 DEF Attached
<1>7. ASSUME NEW c \in Editor PROVE Leads(c)
  <2>1. c \in Client BY CollabAssumption
  <2>2. c \notin raced /\ After(outbox[c], EditKind, {"auth"}) BY <1>2, <2>1, CarriesNone
  <2>. QED BY <1>5, <2>1, <2>2 DEF Leads
<1>. QED BY <1>1, <1>4, <1>6, <1>7 DEF InStep

(* A page opens the board: it has nothing and is nobody's user yet.        *)
LEMMA ConnectInStep ==
  ASSUME InStep, NEW c \in Client, Connect(c)
  PROVE  InStep'
<1>1. WiresOK /\ Wired(c) /\ WiresOK' /\ Alone(c) BY ConnectWires DEF InStep, WiresOK
<1>2. /\ room' = room /\ raced' = raced /\ used' = used /\ authed' = authed
      /\ outbox' = outbox /\ outbox[c] = <<>> /\ c \notin users /\ link'[c] = "opening"
  BY <1>1 DEF Connect, server, ghosts, bounds, WiresOK, TypeOK
<1>3. ~Fresh(c)' /\ ~Following(c)' BY <1>2 DEF Fresh, Open, Following
<1>4. ~Live(c)' BY <1>1, <1>2, CarriesNone DEF Live, Wired
<1>5. c \notin Editor => Attached(c)' BY <1>3 DEF Attached
<1>6. c \in Editor => Leads(c)'
  <2>1. c \in Editor => c \notin raced /\ After(outbox[c], EditKind, {"auth"}) BY DEF InStep, Leads
  <2>. QED BY <1>2, <1>3, <1>4, <2>1 DEF Leads
<1>. QED BY <1>1, <1>2, <1>5, <1>6, OneMoves

(* The connection opens: its messages ask for the room as it will be.      *)
LEMMA OpenedInStep ==
  ASSUME InStep, NEW c \in Client, Opened(c)
  PROVE  InStep'
<1> DEFINE g == Greeting(c)
<1>1. WiresOK /\ WiresOK' /\ Alone(c) /\ outbox'[c] = g BY OpenedWires DEF InStep
<1>2. /\ room' = room /\ raced' = raced /\ used' = used /\ authed' = authed
      /\ inbox' = inbox /\ history' = history /\ layer' = layer /\ drawing' = drawing
      /\ chosen' = chosen /\ orphans' = orphans /\ selected' = selected
      /\ link[c] = "opening"
  BY DEF Opened, server, ghosts, bounds, browser
<1>3. Clean(c) /\ inbox[c] = <<>> BY <1>1, <1>2 DEF WiresOK, Wired
<1>4. Clean(c)' /\ inbox'[c] = <<>> BY <1>2, <1>3 DEF Clean
<1>5. /\ g \in Seq(OutMessage(c)) /\ Carries(g, {"pull"}) /\ ~Carries(g, EditKind)
      /\ c \in Editor => Carries(g, {"auth"})
  BY Greets
<1> HIDE DEF g
<1>6. Asking(c)' /\ ~Answered(c)' /\ ~Following(c)'
  BY <1>1, <1>4, <1>5, CarriesNone DEF Asking, Answered, Following
<1>7. c \notin Editor => Attached(c)' BY <1>4, <1>6 DEF Attached
<1>8. ASSUME c \in Editor PROVE Leads(c)'
  <2>1. c \notin raced' BY <1>2, <1>8 DEF InStep, Leads
  <2>2. room \in EditState /\ Chain(room, g, room) BY <1>1, <1>5, ChainIdle DEF WiresOK, TypeOK
  <2>3. \A i \in 1 .. Len(g) : g[i].kind # "push" BY <1>5 DEF Carries, EditKind
  <2>4. After(g, EditKind, {"auth"}) BY <1>5, AfterNone
  <2>5. Live(c)' BY <1>1, <1>5, <1>8 DEF Live
  <2>. QED BY <1>1, <1>2, <1>4, <1>5, <1>6, <2>1, <2>2, <2>3, <2>4, <2>5 DEF Leads
<1>. QED BY <1>1, <1>2, <1>7, <1>8, OneMoves

(* A page leaves: only its quit matters from now on.                       *)
LEMMA DisconnectInStep ==
  ASSUME InStep, NEW c \in Client, Disconnect(c)
  PROVE  InStep'
<1> DEFINE quit == [kind |-> "quit"]
           q == outbox[c]
           t == Append(q, quit)
<1>1. /\ WiresOK /\ Wired(c) /\ WiresOK' /\ Alone(c) /\ link'[c] = "closed"
      /\ outbox'[c] = IF Open(c) THEN t ELSE <<>>
  BY DisconnectWires DEF InStep, WiresOK
<1>2. /\ room' = room /\ raced' = raced \ {c} /\ used' = used /\ authed' = authed
  BY DEF Disconnect, server, bounds
<1>3. ~Fresh(c)' /\ ~Following(c)' BY <1>1 DEF Fresh, Open, Following
<1>4. c \notin Editor => Attached(c)' BY <1>3 DEF Attached
<1>5. ASSUME c \in Editor PROVE Leads(c)'
  <2>1. c \notin raced' /\ Leads(c) BY <1>2, <1>5 DEF InStep
  <2>2. CASE Open(c)
    <3>1. outbox'[c] = t BY <1>1, <2>2
    <3>2. q \in Seq(OutMessage(c)) /\ quit \in OutMessage(c) BY <1>1, Sent DEF Wired
    <3>3. quit.kind = "quit" /\ quit.kind \notin {"auth"} OBVIOUS
    <3>4. Len(q) \in Nat /\ Len(t) = Len(q) + 1 /\ t[Len(q) + 1] = quit /\ \A i \in 1 .. Len(q) : t[i] = q[i]
      BY <3>2, AppendProperties, LenProperties
    <3> HIDE DEF quit
    <3>5. Carries(t, {"auth"}) <=> Carries(q, {"auth"}) BY <3>2, <3>3, CarriesAppend
    <3>6. After(t, EditKind, {"auth"})
      <4>1. After(q, EditKind, {"auth"}) BY <2>1 DEF Leads
      <4>. QED BY <3>2, <3>3, <4>1, CarriesAppend
    <3>7. Live(c)' => Live(c) BY <1>2, <3>1, <3>5 DEF Live
    <3>8. ASSUME Live(c) PROVE \E r \in EditState : Chain(room, t, r)
      <4>1. PICK r \in EditState : Chain(room, q, r) BY <2>1, <3>8 DEF Leads
      <4>2. Goes(r, quit, r) BY <3>3 DEF Goes, EditKind
      <4>3. Chain(room, t, r) BY <3>2, <4>1, <4>2, ChainAppend
      <4>. QED BY <4>3
    <3>9. ASSUME Live(c), NEW i \in 1 .. Len(t), t[i].kind = "push" PROVE Made({t[i].id}, used')
      <4>1. i # Len(q) + 1 BY <3>3, <3>4, <3>9
      <4>2. i \in 1 .. Len(q) /\ t[i] = q[i] BY <3>4, <4>1
      <4>3. Known({q[i].id}) BY <2>1, <3>9, <4>2 DEF Leads
      <4>. QED BY <1>2, <4>2, <4>3 DEF Known, Made
    <3> HIDE DEF t
    <3>. QED BY <1>2, <1>3, <2>1, <3>1, <3>6, <3>7, <3>8, <3>9 DEF Leads, Known
  <2>3. CASE ~Open(c)
    <3>1. outbox'[c] = <<>> BY <1>1, <2>3
    <3>2. c \notin authed
      <4>1. link[c] \in {"closed", "opening", "lost"} /\ link[c] # "closed"
        BY <1>1, <2>3 DEF Open, WiresOK, TypeOK, Disconnect
      <4>. QED BY <1>1, <4>1 DEF Wired
    <3>3. ~Live(c)' BY <1>2, <3>1, <3>2, CarriesNone DEF Live
    <3>4. After(<<>>, EditKind, {"auth"}) BY CarriesNone
    <3>. QED BY <1>3, <2>1, <3>1, <3>3, <3>4 DEF Leads
  <2>. QED BY <2>2, <2>3
<1>6. \A d \in Client \ {c} : d \in raced' <=> d \in raced BY <1>2
<1>. QED BY <1>1, <1>2, <1>4, <1>5, <1>6, OneMoves

(* A connection breaks: its page is stale, and nothing it sends is         *)
(* accepted.                                                               *)
LEMMA LoseInStep ==
  ASSUME InStep, NEW c \in Client, Lose(c)
  PROVE  InStep'
<1>1. /\ WiresOK' /\ Alone(c) /\ outbox'[c] = <<>> /\ link'[c] = "lost"
  BY LoseWires DEF InStep
<1>2. room' = room /\ raced' = raced /\ used' = used /\ authed' = authed \ {c} BY DEF Lose, bounds
<1>3. ~Fresh(c)' /\ ~Following(c)' BY <1>1 DEF Fresh, Open, Following
<1>4. c \notin Editor => Attached(c)' BY <1>3 DEF Attached
<1>5. c \in Editor => Leads(c)'
  <2>1. ~Live(c)' BY <1>1, <1>2, CarriesNone DEF Live
  <2>2. After(<<>>, EditKind, {"auth"}) BY CarriesNone
  <2>3. c \in Editor => c \notin raced' BY <1>2 DEF InStep, Leads
  <2>. QED BY <1>1, <1>3, <2>1, <2>2, <2>3 DEF Leads
<1>. QED BY <1>1, <1>2, <1>4, <1>5, OneMoves

(* A stale page comes back: nothing is claimed of it.                      *)
LEMMA ReconnectInStep ==
  ASSUME InStep, NEW c \in Client, Reconnect(c)
  PROVE  InStep'
<1>1. /\ WiresOK' /\ Alone(c) /\ c \in stale' BY ReconnectWires DEF InStep
<1>2. room' = room /\ raced' = raced /\ used' = used
  BY DEF Reconnect, server, ghosts, bounds
<1>3. ~Fresh(c)' /\ ~Following(c)' BY <1>1 DEF Fresh, Following
<1>4. Wired(c)' BY <1>1 DEF WiresOK
<1>5. ~Live(c)' /\ ~Carries(outbox'[c], {"auth"}) BY <1>1, <1>4 DEF Wired, Live
<1>6. After(outbox'[c], EditKind, {"auth"}) BY <1>5, AfterNone
<1>7. c \notin Editor => Attached(c)' BY <1>3 DEF Attached
<1>8. c \in Editor => Leads(c)'
  <2>1. c \in Editor => c \notin raced' BY <1>2 DEF InStep, Leads
  <2>. QED BY <1>3, <1>5, <1>6, <2>1 DEF Leads
<1>. QED BY <1>1, <1>2, <1>7, <1>8, OneMoves

----------------------------------------------------------------------------
(* The editor edits.                                                       *)

(* A shape that is drawn is listed.                                        *)
LEMMA DrawnListed ==
  ASSUME NEW s \in Seq(Edit), NEW a \in Adds, Drawn(s, a) > 0
  PROVE  a \in ToSet(s)
<1> DEFINE n == Len(s)
           I == {i \in 1 .. n : s[i] = a}
           J == {i \in 1 .. n : s[i] \in Removes /\ Target[s[i]] = a}
<1>1. n \in Nat /\ DOMAIN s = 1 .. n BY LenProperties
<1>2. Drawn(s, a) = Cardinality(I) - Cardinality(J) BY <1>1 DEF Drawn
<1>3. IsFiniteSet(1 .. n) BY <1>1, FS_Interval
<1>4. IsFiniteSet(J) /\ J \subseteq 1 .. n BY <1>3, FS_Subset
<1>5. Cardinality(J) \in Nat BY <1>4, FS_CardinalityType
<1>6. I # {}
  <2>1. Cardinality({}) = 0 BY FS_EmptySet
  <2>2. ASSUME I = {} PROVE FALSE
    <3> HIDE DEF I, J
    <3>. QED BY <1>2, <1>5, <2>1, <2>2
  <2>. QED BY <2>2
<1>7. \E i \in 1 .. n : s[i] = a BY <1>6
<1>. QED BY <1>1, <1>7 DEF ToSet

(* The history stays, or gives up what is undone and is known to.          *)
Kept(c) ==
  /\ c \in selected => c \in selected'
  /\ \/ history'[c] = history[c]
     \/ history'[c] = [current |-> history[c].current, undone |-> <<>>] /\ c \in selected'

(* What the editor does to its page, and says of it.                       *)
LEMMA LeadMoves ==
  ASSUME WiresOK, WiresOK', NEW c \in Client, c \in Editor, Leads(c),
         link[c] \in {"open", "lost"}, ~Clean(c) \/ c \notin loading,
         UNCHANGED <<room, authed, link, inbox, stale, raced>>, used \subseteq used',
         NEW m \in OutMessage(c), m.kind \in EditKind,
         outbox'[c] \in {outbox[c], Append(outbox[c], m)},
         Open(c) /\ InTheMaking(c) /\ Draws(history[c], layer[c], InHand(c), used) =>
           /\ Draws(history'[c], layer'[c], InHand(c)', used') /\ InTheMaking(c)'
           /\ m.kind = "push" => Made({m.id}, used')
           /\ \/ outbox'[c] = outbox[c] /\ Kept(c)
              \/ /\ outbox'[c] = Append(outbox[c], m) /\ Goes(history[c], m, history'[c])
                 /\ m.kind = "empty" \/ (c \in selected' <=> c \in selected)
  PROVE  Leads(c)'
<1> DEFINE q == outbox[c]
           t == Append(q, m)
           h == history'[c]
<1>1. Wired(c) /\ Wired(c)' /\ TypeOK' /\ q \in Seq(OutMessage(c)) BY DEF WiresOK, Wired
<1>2. c \notin raced /\ c \notin raced' BY DEF Leads
<1>3. Fresh(c)' <=> Fresh(c) BY DEF Fresh, Open
<1>4. CASE ~Fresh(c)
  <2>1. c \in stale' BY <1>1, <1>4 DEF Fresh, Open, Wired
  <2>2. ~Live(c)' /\ ~Carries(outbox'[c], {"auth"}) BY <1>1, <2>1 DEF Wired, Live
  <2>3. After(outbox'[c], EditKind, {"auth"}) BY <2>2, AfterNone
  <2>4. ~Following(c)' BY <1>3, <1>4 DEF Following
  <2>. QED BY <1>2, <1>3, <1>4, <2>2, <2>3, <2>4 DEF Leads
<1>5. CASE Fresh(c)
  <2>1. ~Asking(c) /\ ~Answered(c) BY <1>1, <1>5 DEF Leads, Wired
  <2>2. Following(c) /\ Open(c) BY <1>5, <2>1 DEF Following, Fresh
  <2>3. /\ Live(c) /\ inbox[c] = <<>> /\ After(q, EditKind, {"auth"})
        /\ InTheMaking(c) /\ Draws(history[c], layer[c], InHand(c), used)
        /\ \A i \in 1 .. Len(q) : q[i].kind = "push" => Known({q[i].id})
    BY <1>5, <2>2 DEF Leads
  <2>4. /\ Draws(history'[c], layer'[c], InHand(c)', used') /\ InTheMaking(c)'
        /\ m.kind = "push" => Made({m.id}, used')
        /\ \/ outbox'[c] = q /\ Kept(c)
           \/ /\ outbox'[c] = t /\ Goes(history[c], m, h)
              /\ m.kind = "empty" \/ (c \in selected' <=> c \in selected)
    BY <2>2, <2>3
  <2>5. h \in EditState BY <1>1 DEF TypeOK
  <2>6. m.kind \notin {"auth"} /\ m.kind \notin {"pull"} BY DEF EditKind
  <2>7. /\ Carries(t, {"auth"}) <=> Carries(q, {"auth"})
        /\ Carries(t, {"pull"}) <=> Carries(q, {"pull"})
        /\ After(t, EditKind, {"auth"})
    BY <1>1, <2>3, <2>6, CarriesAppend
  <2>8. Len(q) \in Nat /\ Len(t) = Len(q) + 1 /\ t[Len(q) + 1] = m /\ \A i \in 1 .. Len(q) : t[i] = q[i]
    BY <1>1, AppendProperties, LenProperties
  <2>9. \A i \in 1 .. Len(t) : t[i].kind = "push" => Made({t[i].id}, used')
    <3> SUFFICES ASSUME NEW i \in 1 .. Len(t), t[i].kind = "push" PROVE Made({t[i].id}, used')
      OBVIOUS
    <3>1. i \in 1 .. Len(q) \/ i = Len(q) + 1 BY <2>8
    <3>2. CASE i \in 1 .. Len(q)
      <4>1. t[i] = q[i] /\ Known({q[i].id}) BY <2>3, <2>8, <3>2
      <4>. QED BY <4>1, StillKnown
    <3>3. CASE i = Len(q) + 1
      <4>1. t[i] = m BY <2>8, <3>3
      <4>. QED BY <2>4, <4>1
    <3>. QED BY <3>1, <3>2, <3>3
  <2> HIDE DEF t, h
  <2>10. \A i \in 1 .. Len(q) : q[i].kind = "push" => Made({q[i].id}, used') BY <2>3, StillKnown
  <2>11. /\ Live(c)' /\ ~Asking(c)' /\ ~Answered(c)'
         /\ After(outbox'[c], EditKind, {"auth"})
         /\ \A i \in 1 .. Len(outbox'[c]) : outbox'[c][i].kind = "push" => Made({outbox'[c][i].id}, used')
    BY <2>1, <2>3, <2>4, <2>7, <2>9, <2>10 DEF Live, Asking, Answered, t
  <2>12. PICK s \in EditState : Chain(room, q, s) /\ Ends(history[c], s, c \in selected)
    BY <1>5, <2>2 DEF Leads
  <2>13. history[c] \in EditState /\ (c \in selected) \in BOOLEAN /\ (c \in selected') \in BOOLEAN
    BY <1>1 DEF WiresOK, TypeOK
  <2>14. \E z \in EditState : Chain(room, outbox'[c], z) /\ Ends(h, z, c \in selected')
    <3>1. CASE outbox'[c] = q /\ Kept(c)
      <4>1. Ends(history[c], s, c \in selected')
        <5>1. c \in selected => c \in selected' BY <3>1 DEF Kept
        <5>. QED BY <2>12, <2>13, <5>1, EndsAre
      <4>2. CASE h = history[c] BY <2>12, <3>1, <4>1, <4>2
      <4>3. CASE h = [current |-> history[c].current, undone |-> <<>>] /\ c \in selected'
        <5>1. Ends(h, s, TRUE) BY <2>12, <2>13, <4>3, EndsAre
        <5>2. (c \in selected') = TRUE BY <4>3
        <5>3. Ends(h, s, c \in selected') BY <5>1, <5>2
        <5>. QED BY <2>12, <3>1, <5>3
      <4>. QED BY <3>1, <4>2, <4>3 DEF Kept, h
    <3>2. CASE /\ outbox'[c] = t /\ Goes(history[c], m, h)
               /\ m.kind = "empty" \/ (c \in selected' <=> c \in selected)
      <4>1. m \in InMessage BY OutKinds
      <4>2. PICK z \in EditState : Goes(s, m, z) /\ Ends(h, z, c \in selected)
                                   /\ (m.kind = "empty" => Ends(h, z, FALSE))
        BY <2>12, <2>13, <3>2, <4>1, EndsGo
      <4>3. Chain(room, outbox'[c], z) BY <1>1, <2>12, <3>2, <4>2, ChainAppend DEF t
      <4>4. Ends(h, z, c \in selected')
        <5>1. CASE m.kind = "empty" BY <2>5, <2>13, <4>2, <5>1, EndsAre
        <5>2. CASE c \in selected' <=> c \in selected BY <2>5, <2>13, <4>2, <5>2, EndsAre
        <5>. QED BY <3>2, <5>1, <5>2
      <4>. QED BY <4>3, <4>4
    <3>. QED BY <2>4, <3>1, <3>2
  <2>15. \E z \in EditState : Chain(room', outbox'[c], z) /\ Ends(history'[c], z, c \in selected')
    BY <2>14 DEF h
  <2>. QED BY <1>2, <1>3, <1>5, <2>3, <2>4, <2>11, <2>15 DEF Leads, Following, Known
<1>. QED BY <1>4, <1>5

(* A page after an edit E, with the shapes Z in its hand.                  *)
LEMMA DrawsOn ==
  ASSUME NEW U, NEW V, U \subseteq V, NEW h, NEW l, NEW W, Draws(h, l, W, U),
         NEW t, NEW E, Lists(t) \subseteq Lists(h) \cup E, Made(E, V),
         NEW Z, Z \subseteq V, Z \cap (Lists(h) \cup E) = {},
         \A x \in (Lists(h) \cup E) \cap Removes : Target[x] \notin Z,
         NEW k, \A a \in Adds : k[a] = Drawn(t.current, a) + (IF a \in Z THEN 1 ELSE 0)
  PROVE  Draws(t, k, Z, V)
BY DEF Draws, Made

(* What is not made yet is neither listed nor erased.                      *)
LEMMA NotMade ==
  ASSUME NEW U, NEW h, NEW l, NEW W, Draws(h, l, W, U), NEW x, x \notin U
  PROVE  x \notin W /\ x \notin Lists(h) /\ \A y \in Lists(h) \cap Removes : Target[y] # x
BY DEF Draws, Made

(* Lists hold edits.                                                       *)
LEMMA ListsTyped ==
  ASSUME NEW h \in EditState
  PROVE  Lists(h) \subseteq Edit
<1>1. h.current \in Seq(Edit) /\ h.undone \in Seq(Edit) BY DEF EditState
<1>2. \A s \in Seq(Edit) : ToSet(s) \subseteq Edit
  <2> TAKE s \in Seq(Edit)
  <2>1. DOMAIN s = 1 .. Len(s) /\ \A i \in 1 .. Len(s) : s[i] \in Edit BY LenProperties, ElementOfSeq
  <2>. QED BY <2>1 DEF ToSet
<1>. QED BY <1>1, <1>2 DEF Lists

(* A shape is begun: what was undone is given up.                          *)
LEMMA MouseDownInStep ==
  ASSUME InStep, NEW c \in Client, NEW a \in Adds, MouseDown(c, a)
  PROVE  InStep'
<1> DEFINE m == [kind |-> "empty"]
           h == history[c]
           g == history'[c]
           l == layer[c]
           k == layer'[c]
           W == InHand(c)
<1>1. /\ WiresOK /\ TypeOK /\ WiresOK' /\ Alone(c) /\ link[c] \in {"open", "lost"}
      /\ g = emptyUndone(h) /\ drawing'[c] = a /\ k = [l EXCEPT ![a] = @ + 1]
  BY MouseDownWires DEF InStep, WiresOK
<1>2. /\ c \in Editor /\ c \notin loading /\ a \notin used /\ used' = used \cup {a}
      /\ UNCHANGED <<room, authed, link, inbox, stale, raced>>
      /\ orphans' = [orphans EXCEPT ![c] = @ \cup ({drawing[c]} \ {None})]
      /\ chosen' = [chosen EXCEPT ![c] = None]
  BY DEF MouseDown, MayAct, server
<1>3. h \in EditState /\ l \in Layer /\ h.current \in Seq(Edit) BY <1>1, BrowserParts
<1>4. g = [current |-> h.current, undone |-> <<>>]
  <2>1. a \in Edit BY CollabAssumption
  <2>. QED BY <1>1, <1>3, <2>1, Setters
<1>5. m \in OutMessage(c) /\ m.kind = "empty"
  <2>1. m \in OutMessage(c) BY Sent
  <2>. QED BY <2>1
<1>6. \/ outbox'[c] = outbox[c] /\ h.undone = <<>> /\ selected' = selected
      \/ outbox'[c] = Append(outbox[c], m)
  <2>1. outbox[c] \in Seq(OutMessage(c)) BY <1>1 DEF WiresOK, Wired
  <2>2. outbox \in [Client -> Seq(Message)] BY <1>1 DEF TypeOK
  <2>3. CASE h.undone = <<>> /\ UNCHANGED <<outbox, selected>> BY <2>3
  <2>4. CASE Send(c, <<m>>)
    <3>1. outbox' = [outbox EXCEPT ![c] = outbox[c] \o <<m>>] BY <2>4 DEF Send
    <3> HIDE DEF m
    <3>2. outbox[c] \o <<m>> = Append(outbox[c], m) BY <1>5, <2>1, AppendIsConcat
    <3>. QED BY <2>2, <3>1, <3>2
  <2>. QED BY <2>3, <2>4 DEF MouseDown
<1> HIDE DEF m
<1>7. Goes(h, m, g) BY <1>4, <1>5 DEF Goes, EditKind
<1>8. h.undone = <<>> => g = h BY <1>3, <1>4 DEF EditState
<1>9. InHand(c)' = W \cup {a} /\ chosen'[c] = None /\ orphans'[c] = orphans[c] \cup ({drawing[c]} \ {None})
  <2>1. orphans'[c] = orphans[c] \cup ({drawing[c]} \ {None}) /\ chosen'[c] = None
    BY <1>1, <1>2 DEF TypeOK
  <2>2. a # None BY CollabAssumption
  <2>. QED BY <1>1, <2>1, <2>2 DEF InHand
<1>10. ASSUME Draws(h, l, W, used) PROVE Draws(g, k, W \cup {a}, used') /\ InTheMaking(c)'
  <2>1. Lists(g) \subseteq Lists(h) \cup {}
    <3>1. ToSet(<<>>) = {} BY DEF ToSet
    <3>2. g.current = h.current /\ g.undone = <<>> BY <1>4
    <3>. QED BY <3>1, <3>2 DEF Lists
  <2>2. a \notin W /\ a \notin Lists(h) /\ \A y \in Lists(h) \cap Removes : Target[y] # a
    BY <1>2, <1>10, NotMade
  <2>3. \A b \in Adds : k[b] = Drawn(g.current, b) + (IF b \in W \cup {a} THEN 1 ELSE 0)
    <3> TAKE b \in Adds
    <3>1. l[b] = Drawn(h.current, b) + (IF b \in W THEN 1 ELSE 0) BY <1>10 DEF Draws
    <3>2. Drawn(h.current, b) \in Int
      <4>1. a \in Edit BY CollabAssumption
      <4>. QED BY <1>3, <4>1, DrawnGrows
    <3>3. k[b] = IF a = b THEN l[b] + 1 ELSE l[b] BY <1>1, <1>3 DEF Layer
    <3>4. g.current = h.current BY <1>4
    <3> HIDE DEF W
    <3>. QED BY <2>2, <3>1, <3>2, <3>3, <3>4
  <2>4. used \subseteq used' /\ Made({}, used') BY <1>2 DEF Made
  <2>5. W \cup {a} \subseteq used' /\ (W \cup {a}) \cap (Lists(h) \cup {}) = {}
        /\ \A x \in (Lists(h) \cup {}) \cap Removes : Target[x] \notin W \cup {a}
    BY <1>2, <1>10, <2>2 DEF Draws
  <2>6. InTheMaking(c)' BY <1>1, <1>9, <2>2 DEF InTheMaking, InHand
  <2> HIDE DEF h, g, l, k, W
  <2>7. Draws(g, k, W \cup {a}, used') BY <1>10, <2>1, <2>3, <2>4, <2>5, DrawsOn
  <2>. QED BY <2>6, <2>7
<1>11. c \in Editor => Leads(c)'
  <2>1. Leads(c) /\ m.kind \in EditKind /\ m.kind # "push" /\ used \subseteq used'
    BY <1>2, <1>5 DEF InStep, EditKind
  <2>2. Draws(h, l, W, used) => Draws(g, k, InHand(c)', used') /\ InTheMaking(c)'
    BY <1>9, <1>10
  <2>3. \/ outbox'[c] = outbox[c] /\ Kept(c)
        \/ outbox'[c] = Append(outbox[c], m) /\ Goes(h, m, g)
    BY <1>6, <1>7, <1>8 DEF Kept
  <2>4. outbox'[c] \in {outbox[c], Append(outbox[c], m)} BY <1>6
  <2>. QED BY <1>1, <1>2, <1>5, <2>1, <2>2, <2>3, <2>4, LeadMoves
<1>12. room' = room /\ raced' = raced /\ used \subseteq used' BY <1>2
<1>. QED BY <1>1, <1>2, <1>11, <1>12, OneMoves

(* ... and finished.                                                       *)
LEMMA MouseUpInStep ==
  ASSUME InStep, NEW c \in Client, MouseUp(c)
  PROVE  InStep'
<1> DEFINE a == drawing[c]
           m == [kind |-> "push", id |-> a]
           h == history[c]
           g == history'[c]
           l == layer[c]
           W == InHand(c)
           Z == W \ {a}
<1>1. /\ WiresOK /\ TypeOK /\ WiresOK' /\ Alone(c) /\ link[c] \in {"open", "lost"} /\ a \in Adds
      /\ g = addCurrent(h, a) /\ drawing'[c] = None /\ layer'[c] = l
      /\ outbox'[c] = Append(outbox[c], m)
  BY MouseUpWires DEF InStep, WiresOK
<1>2. /\ c \in Editor /\ a # None
      /\ UNCHANGED <<room, authed, link, inbox, stale, raced, used, chosen, orphans, selected>>
  BY DEF MouseUp, MayAct, server, bounds, ghosts
<1>3. h \in EditState /\ l \in Layer /\ h.current \in Seq(Edit) BY <1>1, BrowserParts
<1>4. a \in Edit /\ a \notin Removes BY <1>1, CollabAssumption
<1>5. g = [current |-> Append(h.current, a), undone |-> h.undone] BY <1>1, <1>3, <1>4, Setters
<1>6. m \in OutMessage(c) /\ m.kind = "push" /\ m.id = a
  <2>1. m \in OutMessage(c) BY <1>4, Sent
  <2>. QED BY <2>1
<1> HIDE DEF m
<1>7. Goes(h, m, g) BY <1>4, <1>5, <1>6 DEF Goes, EditKind, Erasable
<1>8. a \in W BY <1>2 DEF InHand
<1>9. ASSUME Draws(h, l, W, used) PROVE Draws(g, l, Z, used')
  <2>1. Lists(g) \subseteq Lists(h) \cup {a}
    <3>1. ToSet(Append(h.current, a)) = ToSet(h.current) \cup {a} BY <1>3, <1>4, InLists
    <3>2. g.current = Append(h.current, a) /\ g.undone = h.undone BY <1>5
    <3>. QED BY <3>1, <3>2 DEF Lists
  <2>2. \A b \in Adds : l[b] = Drawn(g.current, b) + (IF b \in Z THEN 1 ELSE 0)
    <3> TAKE b \in Adds
    <3>1. l[b] = Drawn(h.current, b) + (IF b \in W THEN 1 ELSE 0) BY <1>9 DEF Draws
    <3>2. Drawn(h.current, b) \in Int /\ Drawn(Append(h.current, a), b) = Drawn(h.current, b) + Gain(a, b)
      BY <1>3, <1>4, DrawnGrows
    <3>3. Gain(a, b) = IF a = b THEN 1 ELSE 0 BY <1>1, <1>4, GainIs
    <3>4. g.current = Append(h.current, a) BY <1>5
    <3> HIDE DEF W, a
    <3>. QED BY <1>8, <3>1, <3>2, <3>3, <3>4
  <2>3. Made({a}, used') BY <1>2, <1>4, <1>8, <1>9 DEF Made, Draws
  <2>4. used \subseteq used' /\ Z \subseteq used' BY <1>2, <1>9 DEF Draws
  <2>5. Z \cap (Lists(h) \cup {a}) = {} /\ \A x \in (Lists(h) \cup {a}) \cap Removes : Target[x] \notin Z
    BY <1>4, <1>9 DEF Draws
  <2> HIDE DEF h, g, l, a, Z, W
  <2>. QED BY <1>9, <2>1, <2>2, <2>3, <2>4, <2>5, DrawsOn
<1>10. ASSUME InTheMaking(c) PROVE InHand(c)' = Z /\ InTheMaking(c)'
  <2>1. a \notin orphans[c] BY <1>10 DEF InTheMaking
  <2>2. InHand(c)' = orphans[c] BY <1>1, <1>2 DEF InHand
  <2>3. orphans[c] \subseteq Adds /\ None \notin Adds /\ chosen[c] \in Adds \cup {None} BY <1>1, BrowserParts
  <2>4. InTheMaking(c)' BY <1>1, <1>2, <2>3 DEF InTheMaking
  <2>. QED BY <1>2, <2>1, <2>2, <2>4 DEF InHand
<1>11. c \in Editor => Leads(c)'
  <2>1. Leads(c) /\ m.kind \in EditKind /\ used \subseteq used' /\ ~Clean(c)
    BY <1>2, <1>6 DEF InStep, EditKind, Clean
  <2>2. InTheMaking(c) /\ Draws(h, l, W, used) => Draws(g, layer'[c], InHand(c)', used') /\ InTheMaking(c)'
    BY <1>1, <1>9, <1>10
  <2>3. Draws(h, l, W, used) => Made({m.id}, used') BY <1>2, <1>4, <1>6, <1>8 DEF Made, Draws
  <2>. QED BY <1>1, <1>2, <1>6, <1>7, <2>1, <2>2, <2>3, LeadMoves
<1>12. room' = room /\ raced' = raced /\ used \subseteq used' BY <1>2
<1>. QED BY <1>1, <1>2, <1>11, <1>12, OneMoves

(* ... or left where it is, and in the page's hand.                        *)
LEMMA AbandonInStep ==
  ASSUME InStep, NEW c \in Client, Abandon(c)
  PROVE  InStep'
<1> DEFINE m == [kind |-> "empty"]
<1>1. /\ WiresOK /\ TypeOK /\ WiresOK' /\ Alone(c) /\ link[c] \in {"open", "lost"} /\ drawing[c] \in Adds
      /\ history'[c] = history[c] /\ drawing'[c] = None /\ layer'[c] = layer[c]
      /\ outbox'[c] = outbox[c]
  BY AbandonWires DEF InStep, WiresOK
<1>2. /\ c \in Editor
      /\ UNCHANGED <<room, authed, link, inbox, stale, raced, used, chosen, selected>>
      /\ orphans' = [orphans EXCEPT ![c] = @ \cup {drawing[c]}]
  BY DEF Abandon, MayAct, server, bounds
<1>3. orphans'[c] = orphans[c] \cup {drawing[c]} BY <1>1, <1>2 DEF TypeOK
<1>4. None \notin Adds /\ orphans[c] \subseteq Adds BY <1>1, BrowserParts
<1>5. InHand(c)' = InHand(c) BY <1>1, <1>3, <1>4 DEF InHand
<1>6. InTheMaking(c)' BY <1>1, <1>2, <1>3, <1>4 DEF InTheMaking
<1>7. m \in OutMessage(c) /\ m.kind = "empty"
  <2>1. m \in OutMessage(c) BY Sent
  <2>. QED BY <2>1
<1> HIDE DEF m
<1>8. c \in Editor => Leads(c)'
  <2>1. Leads(c) /\ m.kind \in EditKind /\ m.kind # "push" /\ used \subseteq used' /\ ~Clean(c)
    BY <1>1, <1>2, <1>4, <1>7 DEF InStep, EditKind, Clean
  <2>2. outbox'[c] = outbox[c] /\ Kept(c) BY <1>1, <1>2 DEF Kept
  <2>3. Draws(history[c], layer[c], InHand(c), used) => Draws(history'[c], layer'[c], InHand(c)', used')
    BY <1>1, <1>2, <1>5
  <2>. QED BY <1>1, <1>2, <1>6, <1>7, <2>1, <2>2, <2>3, LeadMoves
<1>9. room' = room /\ raced' = raced /\ used \subseteq used' BY <1>2
<1>. QED BY <1>1, <1>2, <1>8, <1>9, OneMoves

(* A shape is selected: the page gives up what it has undone.              *)
LEMMA SelectInStep ==
  ASSUME InStep, NEW c \in Client, NEW a \in Adds, Select(c, a)
  PROVE  InStep'
<1> DEFINE m == [kind |-> "empty"]
           h == history[c]
           g == history'[c]
<1>1. /\ WiresOK /\ TypeOK /\ WiresOK' /\ Alone(c) /\ link[c] \in {"open", "lost"}
      /\ g = emptyUndone(h) /\ drawing'[c] = drawing[c] /\ layer'[c] = layer[c]
      /\ outbox'[c] = outbox[c]
  BY SelectWires DEF InStep, WiresOK
<1>2. /\ c \in Editor /\ c \notin loading /\ a # drawing[c]
      /\ UNCHANGED <<room, authed, link, inbox, stale, raced, used, orphans>>
      /\ chosen' = [chosen EXCEPT ![c] = a]
      /\ selected' = IF h.undone = <<>> THEN selected ELSE selected \cup {c}
  BY DEF Select, MayAct, server, bounds
<1>3. h \in EditState BY <1>1, BrowserParts
<1>4. g = [current |-> h.current, undone |-> <<>>]
  <2>1. a \in Edit BY CollabAssumption
  <2>. QED BY <1>1, <1>3, <2>1, Setters
<1>5. h.undone = <<>> => g = h BY <1>3, <1>4 DEF EditState
<1>6. chosen'[c] = a BY <1>1, <1>2 DEF TypeOK
<1>7. InHand(c)' = InHand(c) BY <1>1, <1>2 DEF InHand
<1>8. InTheMaking(c) => InTheMaking(c)' BY <1>1, <1>2, <1>6 DEF InTheMaking
<1>9. Draws(h, layer[c], InHand(c), used) => Draws(g, layer'[c], InHand(c)', used')
  <2>1. Lists(g) \subseteq Lists(h)
    <3>1. ToSet(<<>>) = {} BY DEF ToSet
    <3>2. g.current = h.current /\ g.undone = <<>> BY <1>4
    <3>. QED BY <3>1, <3>2 DEF Lists
  <2>2. g.current = h.current BY <1>4
  <2> HIDE DEF g, h
  <2>. QED BY <1>1, <1>2, <1>7, <2>1, <2>2 DEF Draws, Made
<1>10. m \in OutMessage(c) /\ m.kind = "empty"
  <2>1. m \in OutMessage(c) BY Sent
  <2>. QED BY <2>1
<1> HIDE DEF m
<1>11. c \in Editor => Leads(c)'
  <2>1. Leads(c) /\ m.kind \in EditKind /\ m.kind # "push" /\ used \subseteq used'
    BY <1>2, <1>10 DEF InStep, EditKind
  <2>2. outbox'[c] = outbox[c] /\ Kept(c) BY <1>1, <1>2, <1>4, <1>5 DEF Kept
  <2>. QED BY <1>1, <1>2, <1>8, <1>9, <1>10, <2>1, <2>2, LeadMoves
<1>12. room' = room /\ raced' = raced /\ used \subseteq used' BY <1>2
<1>. QED BY <1>1, <1>2, <1>11, <1>12, OneMoves

(* A shape is erased.                                                      *)
LEMMA DeleteInStep ==
  ASSUME InStep, NEW c \in Client, NEW r \in Removes, DeleteSelection(c, r), odd' = {}
  PROVE  InStep'
<1> DEFINE m == [kind |-> "push", id |-> r]
           h == history[c]
           g == history'[c]
           l == layer[c]
           k == layer'[c]
           W == InHand(c)
<1>1. /\ WiresOK /\ TypeOK /\ WiresOK' /\ Alone(c) /\ link[c] \in {"open", "lost"}
      /\ g = addCurrent(h, r) /\ drawing'[c] = drawing[c] /\ k = applyEdit(l, r)
      /\ outbox'[c] = Append(outbox[c], m)
  BY DeleteWires DEF InStep, WiresOK
<1>2. /\ c \in Editor /\ r \notin used /\ used' = used \cup {r} /\ CanApply(l, r)
      /\ Target[r] = chosen[c] /\ Target[r] \notin orphans[c] /\ chosen' = [chosen EXCEPT ![c] = None]
      /\ UNCHANGED <<room, authed, link, inbox, stale, raced, orphans, selected>>
  BY DEF DeleteSelection, Erase, MayAct, server
<1>3. /\ h \in EditState /\ l \in Layer /\ h.current \in Seq(Edit)
      /\ used \subseteq Edit
  BY <1>1, BrowserParts DEF TypeOK
<1>4. r \in Edit /\ Target[r] \in Adds /\ None \notin Edit /\ r \notin Adds BY CollabAssumption
<1>5. g = [current |-> Append(h.current, r), undone |-> h.undone] BY <1>1, <1>3, <1>4, Setters
<1>6. m \in OutMessage(c) /\ m.kind = "push" /\ m.id = r
  <2>1. m \in OutMessage(c) BY <1>4, Sent
  <2>. QED BY <2>1
<1> HIDE DEF m
<1>7. InHand(c)' = W BY <1>1, <1>2 DEF InHand
<1>8. InTheMaking(c) => InTheMaking(c)' /\ Target[r] \notin W
  <2>1. chosen'[c] = None BY <1>1, <1>2 DEF TypeOK
  <2>. QED BY <1>1, <1>2, <1>4, <2>1 DEF InTheMaking, InHand
<1>9. ASSUME Draws(h, l, W, used), InTheMaking(c)
      PROVE  Draws(g, k, W, used') /\ Made({m.id}, used') /\ Goes(h, m, g)
  <2>1. Lists(g) \subseteq Lists(h) \cup {r}
    <3>1. ToSet(Append(h.current, r)) = ToSet(h.current) \cup {r} BY <1>3, <1>4, InLists
    <3>2. g.current = Append(h.current, r) /\ g.undone = h.undone BY <1>5
    <3>. QED BY <3>1, <3>2 DEF Lists
  <2>2. Drawn(h.current, Target[r]) > 0
    <3>1. l[Target[r]] > 0 BY <1>2 DEF CanApply
    <3>2. l[Target[r]] = Drawn(h.current, Target[r]) + 0 BY <1>4, <1>8, <1>9 DEF Draws
    <3>3. Drawn(h.current, Target[r]) \in Int BY <1>3, <1>4, DrawnGrows
    <3>. QED BY <3>1, <3>2, <3>3
  <2>3. Target[r] \in Lists(h) BY <1>3, <1>4, <2>2, DrawnListed DEF Lists
  <2>4. Made({r}, used') BY <1>2, <1>9, <2>3 DEF Made, Draws
  <2>5. \A b \in Adds : k[b] = Drawn(g.current, b) + (IF b \in W THEN 1 ELSE 0)
    <3> TAKE b \in Adds
    <3>1. l[b] = Drawn(h.current, b) + (IF b \in W THEN 1 ELSE 0) BY <1>9 DEF Draws
    <3>2. Drawn(h.current, b) \in Int /\ Drawn(Append(h.current, r), b) = Drawn(h.current, b) + Gain(r, b)
      BY <1>3, <1>4, DrawnGrows
    <3>3. k[b] = l[b] + Gain(r, b) /\ Gain(r, b) \in Int BY <1>1, <1>2, <1>3, <1>4, Applied, GainIs
    <3>4. g.current = Append(h.current, r) BY <1>5
    <3> HIDE DEF W
    <3>. QED BY <3>1, <3>2, <3>3, <3>4
  <2>6. /\ used \subseteq used' /\ W \subseteq used' /\ W \cap (Lists(h) \cup {r}) = {}
        /\ \A x \in (Lists(h) \cup {r}) \cap Removes : Target[x] \notin W
    BY <1>2, <1>8, <1>9 DEF Draws
  <2>7. Goes(h, m, g) BY <1>5, <1>6, <2>2 DEF Goes, EditKind, Erasable
  <2> HIDE DEF h, g, l, k, W
  <2>. QED BY <1>6, <1>9, <2>1, <2>4, <2>5, <2>6, <2>7, DrawsOn
<1>10. c \in Editor => Leads(c)'
  <2>1. Leads(c) /\ m.kind \in EditKind /\ used \subseteq used' BY <1>2, <1>6 DEF InStep, EditKind
  <2>2. ~Clean(c)
    <3>1. l[Target[r]] > 0 BY <1>2 DEF CanApply
    <3>. QED BY <1>4, <3>1 DEF Clean, Blank
  <2>. QED BY <1>1, <1>2, <1>6, <1>7, <1>8, <1>9, <2>1, <2>2, LeadMoves
<1>11. room' = room /\ raced' = raced /\ used \subseteq used' BY <1>2
<1>. QED BY <1>1, <1>2, <1>10, <1>11, OneMoves

(* What a page draws, over nothing but the shapes in its hand.             *)
Held(W) == [a \in Adds |-> IF a \in W THEN 1 ELSE 0]

(* The editor's page shows its own history over the shapes in its hand.    *)
LEMMA ShowsItself ==
  ASSUME NEW h \in EditState, NEW l, NEW W, NEW U, Draws(h, l, W, U)
  PROVE  Shows(h, l, h, <<>>, <<>>, Held(W)) /\ Held(W) \in Layer
<1>1. /\ h.current \in Seq(Edit) /\ h.undone \in Seq(Edit)
      /\ h = [current |-> h.current, undone |-> h.undone]
  BY DEF EditState
<1>2. <<>> \o h.current = h.current /\ <<>> \o h.undone = h.undone BY <1>1, ConcatEmptySeq
<1>3. Held(W) \in Layer BY DEF Held, Layer
<1>4. \A a \in Adds : l[a] = Held(W)[a] + Drawn(h.current, a)
  <2> TAKE a \in Adds
  <2>1. l[a] = Drawn(h.current, a) + (IF a \in W THEN 1 ELSE 0) BY DEF Draws
  <2>2. Drawn(h.current, a) \in Int BY <1>1, DrawnGrows, CollabAssumption
  <2>3. Held(W)[a] = IF a \in W THEN 1 ELSE 0 BY DEF Held
  <2>. QED BY <2>1, <2>2, <2>3
<1>. QED BY <1>1, <1>2, <1>3, <1>4 DEF Shows

(* ... and a page that shows t over that and nothing else has t.           *)
LEMMA ItselfShown ==
  ASSUME NEW g, NEW k, NEW W, NEW t \in EditState, Shows(g, k, t, <<>>, <<>>, Held(W))
  PROVE  g = t /\ \A a \in Adds : k[a] = Drawn(t.current, a) + (IF a \in W THEN 1 ELSE 0)
<1>1. /\ t.current \in Seq(Edit) /\ t.undone \in Seq(Edit)
      /\ t = [current |-> t.current, undone |-> t.undone]
  BY DEF EditState
<1>2. <<>> \o t.current = t.current /\ <<>> \o t.undone = t.undone BY <1>1, ConcatEmptySeq
<1>3. g = t BY <1>1, <1>2 DEF Shows
<1>4. \A a \in Adds : k[a] = Drawn(t.current, a) + (IF a \in W THEN 1 ELSE 0)
  <2> TAKE a \in Adds
  <2>1. k[a] = Held(W)[a] + Drawn(t.current, a) BY DEF Shows
  <2>2. Drawn(t.current, a) \in Int BY <1>1, DrawnGrows, CollabAssumption
  <2>3. Held(W)[a] = IF a \in W THEN 1 ELSE 0 BY DEF Held
  <2>. QED BY <2>1, <2>2, <2>3
<1>. QED BY <1>3, <1>4

(* The last edit is undone: what can be cancelled on the canvas is drawn   *)
(* by the list.                                                            *)
LEMMA UndoLeads ==
  ASSUME TypeOK, NEW c \in Client, NEW p, p = PageOf(c), NEW h, h = history[c], NEW l, l = layer[c],
         NEW W, NEW U, Draws(h, l, W, U),
         h.current # <<>>, NEW id, id = Last(h.current), CanCancel(l, id),
         NEW m \in InMessage, m.kind = "undo", m.id = id,
         NEW g, g = UndoOn(p, id).history, NEW k, k = UndoOn(p, id).layer
  PROVE  Goes(h, m, g) /\ Draws(g, k, W, U)
<1> DEFINE t == [current |-> Front(h.current), undone |-> Append(h.undone, id)]
           x == Held(W)
<1>1. /\ h \in EditState /\ l \in Layer /\ p \in PageState /\ p.history = h /\ p.layer = l
      /\ h.current \in Seq(Edit) /\ h.undone \in Seq(Edit)
  BY BrowserParts
<1>2. id \in Edit /\ id \in ToSet(h.current) /\ Front(h.current) \in Seq(Edit)
  BY <1>1, FrontAndLast, FoundLast
<1>3. t \in EditState
  <2>1. Append(h.undone, id) \in Seq(Edit) BY <1>1, <1>2, AppendProperties
  <2>. QED BY <1>2, <2>1 DEF EditState
<1>4. Shows(h, l, h, <<>>, <<>>, x) /\ x \in Layer BY <1>1, ShowsItself
<1>5. <<>> \in Seq(Edit) BY EmptySeq
<1> HIDE DEF x
<1>6. Shows(g, k, t, <<>>, <<>>, x) BY <1>1, <1>4, <1>5, UndoShows
<1> HIDE DEF t
<1>7. g = t /\ \A a \in Adds : k[a] = Drawn(t.current, a) + (IF a \in W THEN 1 ELSE 0)
  BY <1>3, <1>6, ItselfShown DEF x
<1>8. Undrawable(h.current, id)
  <2> SUFFICES ASSUME id \in Adds PROVE Drawn(h.current, id) > 0
    BY DEF Undrawable
  <2>1. l[id] > 0 BY DEF CanCancel
  <2>2. id \in Lists(h) /\ id \notin W BY <1>2 DEF Lists, Draws
  <2>3. l[id] = Drawn(h.current, id) + 0 BY <2>2 DEF Draws
  <2>4. Drawn(h.current, id) \in Int BY <1>1, <1>2, DrawnGrows
  <2>. QED BY <2>1, <2>3, <2>4
<1>9. Goes(h, m, t) BY <1>8 DEF Goes, EditKind, t
<1>10. Lists(t) \subseteq Lists(h) \cup {} BY <1>1, <1>9, ListsGo DEF EditKind
<1>11. /\ U \subseteq U /\ Made({}, U) /\ W \subseteq U /\ W \cap (Lists(h) \cup {}) = {}
       /\ \A y \in (Lists(h) \cup {}) \cap Removes : Target[y] \notin W
  BY DEF Draws, Made
<1>12. Draws(t, k, W, U) BY <1>7, <1>10, <1>11, DrawsOn
<1>. QED BY <1>7, <1>9, <1>12

(* ... and the last undone one is done again.                              *)
LEMMA RedoLeads ==
  ASSUME TypeOK, NEW c \in Client, NEW p, p = PageOf(c), NEW h, h = history[c], NEW l, l = layer[c],
         NEW W, NEW U, Draws(h, l, W, U),
         h.undone # <<>>, NEW id, id = Last(h.undone), CanApply(l, id),
         NEW m \in InMessage, m.kind = "redo", m.id = id,
         NEW g, g = RedoOn(p, id).history, NEW k, k = RedoOn(p, id).layer
  PROVE  Goes(h, m, g) /\ Draws(g, k, W, U)
<1> DEFINE t == [current |-> Append(h.current, id), undone |-> Front(h.undone)]
           x == Held(W)
<1>1. /\ h \in EditState /\ l \in Layer /\ p \in PageState /\ p.history = h /\ p.layer = l
      /\ h.current \in Seq(Edit) /\ h.undone \in Seq(Edit)
  BY BrowserParts
<1>2. id \in Edit /\ id \in ToSet(h.undone) /\ Front(h.undone) \in Seq(Edit)
  BY <1>1, FrontAndLast, FoundLast
<1>3. t \in EditState
  <2>1. Append(h.current, id) \in Seq(Edit) BY <1>1, <1>2, AppendProperties
  <2>. QED BY <1>2, <2>1 DEF EditState
<1>4. Shows(h, l, h, <<>>, <<>>, x) /\ x \in Layer BY <1>1, ShowsItself
<1>5. <<>> \in Seq(Edit) BY EmptySeq
<1> HIDE DEF x
<1>6. Shows(g, k, t, <<>>, <<>>, x) BY <1>1, <1>4, <1>5, RedoShows
<1> HIDE DEF t
<1>7. g = t /\ \A a \in Adds : k[a] = Drawn(t.current, a) + (IF a \in W THEN 1 ELSE 0)
  BY <1>3, <1>6, ItselfShown DEF x
<1>8. Erasable(h.current, id)
  <2> SUFFICES ASSUME id \in Removes PROVE Drawn(h.current, Target[id]) > 0
    BY DEF Erasable
  <2>1. l[Target[id]] > 0 BY DEF CanApply
  <2>2. Target[id] \notin W /\ Target[id] \in Adds BY <1>2, CollabAssumption DEF Lists, Draws
  <2>3. l[Target[id]] = Drawn(h.current, Target[id]) + 0 BY <2>2 DEF Draws
  <2>4. Drawn(h.current, Target[id]) \in Int BY <1>1, <1>2, <2>2, DrawnGrows
  <2>. QED BY <2>1, <2>3, <2>4
<1>9. Goes(h, m, t) BY <1>8 DEF Goes, EditKind, t
<1>10. Lists(t) \subseteq Lists(h) \cup {} BY <1>1, <1>9, ListsGo DEF EditKind
<1>11. /\ U \subseteq U /\ Made({}, U) /\ W \subseteq U /\ W \cap (Lists(h) \cup {}) = {}
       /\ \A y \in (Lists(h) \cup {}) \cap Removes : Target[y] \notin W
  BY DEF Draws, Made
<1>12. Draws(t, k, W, U) BY <1>7, <1>10, <1>11, DrawsOn
<1>. QED BY <1>7, <1>9, <1>12

(* The editor undoes: the page and the end of the chain move alike.        *)
LEMMA UndoInStep ==
  ASSUME InStep, NEW c \in Client, Undo(c)
  PROVE  InStep'
<1> DEFINE id == Last(history[c].current)
           m == [kind |-> "undo", id |-> id]
<1>1. /\ WiresOK /\ TypeOK /\ WiresOK' /\ Alone(c) /\ link[c] \in {"open", "lost"}
      /\ history[c].current # <<>> /\ id \in Edit /\ CanCancel(layer[c], id) /\ drawing'[c] = drawing[c]
      /\ history'[c] = UndoOn(PageOf(c), id).history
      /\ layer'[c] = UndoOn(PageOf(c), id).layer
      /\ Open(c) => outbox'[c] = Append(outbox[c], m)
  BY UndoWires DEF InStep, WiresOK
<1>2. /\ c \in Editor /\ UNCHANGED <<room, authed, link, inbox, stale, raced, used>>
      /\ ~Open(c) => outbox' = outbox
      /\ UNCHANGED <<orphans, selected>> /\ chosen' = [chosen EXCEPT ![c] = None]
  BY DEF Undo, MayAct, Share, server, ghosts
<1>3. m \in OutMessage(c) /\ m.kind = "undo" /\ m.id = id /\ m \in InMessage
  <2>1. m \in OutMessage(c) /\ m \in OnEdit BY <1>1, Sent DEF OnEdit
  <2>. QED BY <2>1 DEF InMessage
<1> HIDE DEF m, id
<1>4. Draws(history[c], layer[c], InHand(c), used) =>
        Goes(history[c], m, history'[c]) /\ Draws(history'[c], layer'[c], InHand(c), used)
  BY <1>1, <1>3, UndoLeads DEF id
<1>5. InHand(c)' = InHand(c) BY <1>1, <1>2 DEF InHand
<1>6. InTheMaking(c) => InTheMaking(c)'
  <2>1. chosen'[c] = None BY <1>1, <1>2 DEF TypeOK
  <2>. QED BY <1>1, <1>2, <2>1 DEF InTheMaking
<1>7. c \in Editor => Leads(c)'
  <2>1. Leads(c) /\ m.kind \in EditKind /\ m.kind # "push" /\ used \subseteq used'
    BY <1>2, <1>3 DEF InStep, EditKind
  <2>2. ~Clean(c) BY <1>1 DEF Clean, NoEdits
  <2>3. outbox'[c] \in {outbox[c], Append(outbox[c], m)} BY <1>1, <1>2
  <2>4. ~Open(c) \/ outbox'[c] = Append(outbox[c], m) BY <1>1
  <2>. QED BY <1>1, <1>2, <1>3, <1>4, <1>5, <1>6, <2>1, <2>2, <2>3, <2>4, LeadMoves
<1>8. room' = room /\ raced' = raced /\ used \subseteq used' BY <1>2
<1>. QED BY <1>1, <1>2, <1>7, <1>8, OneMoves

(* The editor redoes: the page and the end of the chain move alike.        *)
LEMMA RedoInStep ==
  ASSUME InStep, NEW c \in Client, Redo(c)
  PROVE  InStep'
<1> DEFINE id == Last(history[c].undone)
           m == [kind |-> "redo", id |-> id]
<1>1. /\ WiresOK /\ TypeOK /\ WiresOK' /\ Alone(c) /\ link[c] \in {"open", "lost"}
      /\ history[c].undone # <<>> /\ id \in Edit /\ CanApply(layer[c], id) /\ drawing'[c] = drawing[c]
      /\ history'[c] = RedoOn(PageOf(c), id).history
      /\ layer'[c] = RedoOn(PageOf(c), id).layer
      /\ Open(c) => outbox'[c] = Append(outbox[c], m)
  BY RedoWires DEF InStep, WiresOK
<1>2. /\ c \in Editor /\ UNCHANGED <<room, authed, link, inbox, stale, raced, used>>
      /\ ~Open(c) => outbox' = outbox
      /\ UNCHANGED <<orphans, selected>> /\ chosen' = [chosen EXCEPT ![c] = None]
  BY DEF Redo, MayAct, Share, server, ghosts
<1>3. m \in OutMessage(c) /\ m.kind = "redo" /\ m.id = id /\ m \in InMessage
  <2>1. m \in OutMessage(c) /\ m \in OnEdit BY <1>1, Sent DEF OnEdit
  <2>. QED BY <2>1 DEF InMessage
<1> HIDE DEF m, id
<1>4. Draws(history[c], layer[c], InHand(c), used) =>
        Goes(history[c], m, history'[c]) /\ Draws(history'[c], layer'[c], InHand(c), used)
  BY <1>1, <1>3, RedoLeads DEF id
<1>5. InHand(c)' = InHand(c) BY <1>1, <1>2 DEF InHand
<1>6. InTheMaking(c) => InTheMaking(c)'
  <2>1. chosen'[c] = None BY <1>1, <1>2 DEF TypeOK
  <2>. QED BY <1>1, <1>2, <2>1 DEF InTheMaking
<1>7. c \in Editor => Leads(c)'
  <2>1. Leads(c) /\ m.kind \in EditKind /\ m.kind # "push" /\ used \subseteq used'
    BY <1>2, <1>3 DEF InStep, EditKind
  <2>2. ~Clean(c) BY <1>1 DEF Clean, NoEdits
  <2>3. outbox'[c] \in {outbox[c], Append(outbox[c], m)} BY <1>1, <1>2
  <2>4. ~Open(c) \/ outbox'[c] = Append(outbox[c], m) BY <1>1
  <2>. QED BY <1>1, <1>2, <1>3, <1>4, <1>5, <1>6, <2>1, <2>2, <2>3, <2>4, LeadMoves
<1>8. room' = room /\ raced' = raced /\ used \subseteq used' BY <1>2
<1>. QED BY <1>1, <1>2, <1>7, <1>8, OneMoves

----------------------------------------------------------------------------
(* The room handles what is no edit.                                       *)

(* What is said of a list of messages is said of the rest of it.           *)
LEMMA RestKnown ==
  ASSUME NEW S, NEW q \in Seq(S), q # <<>>,
         \A i \in 1 .. Len(q) : q[i].kind = "push" => Known({q[i].id})
  PROVE  /\ \A i \in 1 .. Len(Tail(q)) : Tail(q)[i].kind = "push" => Known({Tail(q)[i].id})
         /\ Head(q).kind = "push" => Known({Head(q).id})
<1> DEFINE n == Len(q) - 1
           t == Tail(q)
<1>1. /\ n \in Nat /\ Len(q) = n + 1 /\ Len(t) = n /\ Head(q) = q[1]
      /\ \A i \in 1 .. n : t[i] = q[i + 1]
  BY TailIs
<1> HIDE DEF n, t
<1>2. \A i \in 1 .. n : i + 1 \in 1 .. n + 1 BY <1>1
<1>3. 1 \in 1 .. n + 1 BY <1>1
<1>4. \A i \in 1 .. Len(t) : t[i].kind = "push" => Known({t[i].id}) BY <1>1, <1>2
<1>5. Head(q).kind = "push" => Known({Head(q).id}) BY <1>1, <1>3
<1>. QED BY <1>4, <1>5 DEF t

(* A message of the editor that is no edit can be taken from the chain.    *)
LEMMA RestLeads ==
  ASSUME WiresOK, NEW c \in Client, Leads(c), outbox[c] # <<>>, Head(outbox[c]).kind \notin EditKind
  PROVE  LET t == Tail(outbox[c])
         IN  /\ After(t, EditKind, {"auth"}) /\ (Carries(t, EditKind) <=> Carries(outbox[c], EditKind))
             /\ \A s : Chain(room, outbox[c], s) => Chain(room, t, s)
             /\ Live(c) => /\ \E s \in EditState : Chain(room, t, s)
                           /\ \A i \in 1 .. Len(t) : t[i].kind = "push" => Known({t[i].id})
<1> DEFINE q == outbox[c]
           m == Head(q)
           t == Tail(q)
<1>1. q \in Seq(OutMessage(c)) /\ After(q, EditKind, {"auth"}) BY DEF WiresOK, Wired, Leads
<1>2. After(t, EditKind, {"auth"}) /\ (Carries(t, EditKind) <=> Carries(q, EditKind))
  BY <1>1, CarriesTail
<1>3. ASSUME NEW s, Chain(room, q, s) PROVE Chain(room, t, s)
  <2>1. PICK r \in EditState : Goes(room, m, r) /\ Chain(r, t, s) BY <1>1, <1>3, ChainHead
  <2>2. r = room BY <2>1 DEF Goes
  <2>. QED BY <2>1, <2>2
<1>4. ASSUME Live(c)
      PROVE  /\ \E s \in EditState : Chain(room, t, s)
             /\ \A i \in 1 .. Len(t) : t[i].kind = "push" => Known({t[i].id})
  <2>1. /\ \E s \in EditState : Chain(room, q, s)
        /\ \A i \in 1 .. Len(q) : q[i].kind = "push" => Known({q[i].id})
    BY <1>4 DEF Leads
  <2>2. \A i \in 1 .. Len(t) : t[i].kind = "push" => Known({t[i].id}) BY <1>1, <2>1, RestKnown
  <2>. QED BY <1>3, <2>1, <2>2
<1>. QED BY <1>2, <1>3, <1>4

(* The page of a client whose Join or Auth arrives has not changed.        *)
LEMMA ArrivesInStep ==
  ASSUME InStep, WiresOK', NEW c \in Client, Alone(c), outbox[c] # <<>>, outbox'[c] = Tail(outbox[c]),
         Head(outbox[c]).kind \notin EditKind \cup {"pull"}, Live(c)' <=> Live(c),
         UNCHANGED <<room, browser, link, inbox, used, ghosts>>
  PROVE  InStep'
<1> DEFINE t == Tail(outbox[c])
<1>1. WiresOK /\ outbox[c] \in Seq(OutMessage(c)) BY DEF InStep, WiresOK, Wired
<1>2. /\ Fresh(c)' <=> Fresh(c)
      /\ Asking(c)' <=> Asking(c)
      /\ Answered(c)' <=> Answered(c)
      /\ Clean(c)' <=> Clean(c)
  <2>1. Carries(outbox[c], {"pull"}) <=> Carries(t, {"pull"}) BY <1>1, CarriesTail
  <2>. QED BY <2>1 DEF Fresh, Open, Asking, Answered, Clean, browser, ghosts
<1>3. /\ Following(c)' <=> Following(c)
      /\ InTheMaking(c)' <=> InTheMaking(c)
      /\ InHand(c)' = InHand(c)
      /\ history' = history /\ layer' = layer /\ raced' = raced /\ selected' = selected
  BY <1>2 DEF Following, InTheMaking, InHand, browser, ghosts
<1>4. ASSUME c \notin Editor PROVE Attached(c)'
  <2>1. Attached(c) BY <1>4 DEF InStep
  <2>2. ASSUME NEW pre, NEW rest, NEW m, AnswerAt(c, pre, m, rest) PROVE AnswerAt(c, pre, m, rest)'
    BY <1>3, <2>2 DEF AnswerAt
  <2>3. ASSUME NEW s, NEW jc, NEW ju, NEW x, FollowsAt(c, s, jc, ju, x)
        PROVE  FollowsAt(c, s, jc, ju, x)'
    BY <1>3, <2>3 DEF FollowsAt
  <2>. QED BY <1>2, <1>3, <2>1, <2>2, <2>3 DEF Attached
<1>5. ASSUME c \in Editor PROVE Leads(c)'
  <2>1. Leads(c) BY <1>5 DEF InStep
  <2>2. /\ After(t, EditKind, {"auth"}) /\ (Carries(t, EditKind) <=> Carries(outbox[c], EditKind))
        /\ \A s : Chain(room, outbox[c], s) => Chain(room, t, s)
        /\ Live(c) => /\ \E s \in EditState : Chain(room, t, s)
                      /\ \A i \in 1 .. Len(t) : t[i].kind = "push" => Known({t[i].id})
    BY <1>1, <2>1, RestLeads
  <2> HIDE DEF t
  <2>3. outbox'[c] = t BY DEF t
  <2>. QED BY <1>2, <1>3, <2>1, <2>2, <2>3 DEF Leads, Known
<1>6. used \subseteq used' OBVIOUS
<1>7. room' = room /\ \A d \in Client \ {c} : d \in raced' <=> d \in raced BY <1>3
<1>. QED BY <1>4, <1>5, <1>6, <1>7, OneMoves

(* The room takes a Join.                                                  *)
LEMMA JoinInStep ==
  ASSUME InStep, NEW c \in Client, RoomJoin(c)
  PROVE  InStep'
<1>1. /\ WiresOK /\ WiresOK' /\ Alone(c) /\ outbox'[c] = Tail(outbox[c]) /\ Received(c).kind = "join"
  BY JoinWires DEF InStep
<1>2. /\ UNCHANGED <<room, browser, link, inbox, used, ghosts>>
      /\ authed' = authed /\ Receive(c, {"join"})
  BY DEF RoomJoin, bounds
<1>3. outbox[c] \in Seq(OutMessage(c)) /\ outbox[c] # <<>> /\ Received(c) = Head(outbox[c])
  BY <1>1, <1>2, Receives
<1>4. Carries(outbox[c], {"auth"}) <=> Carries(Tail(outbox[c]), {"auth"}) BY <1>1, <1>3, CarriesTail
<1>5. Live(c)' <=> Live(c) BY <1>1, <1>2, <1>4 DEF Live
<1>6. Head(outbox[c]).kind \notin EditKind \cup {"pull"} BY <1>1, <1>3 DEF EditKind
<1>. QED BY <1>1, <1>2, <1>3, <1>5, <1>6, ArrivesInStep

(* The room takes an Auth.                                                 *)
LEMMA AuthInStep ==
  ASSUME InStep, NEW c \in Client, RoomAuth(c)
  PROVE  InStep'
<1>1. /\ WiresOK /\ WiresOK' /\ Alone(c) /\ outbox'[c] = Tail(outbox[c]) /\ Received(c).kind = "auth"
      /\ c \in authed'
  BY AuthWires DEF InStep
<1>2. /\ UNCHANGED <<room, browser, link, inbox, used, ghosts>>
      /\ Receive(c, {"auth"})
  BY DEF RoomAuth, bounds
<1>3. outbox[c] \in Seq(OutMessage(c)) /\ outbox[c] # <<>> /\ Received(c) = Head(outbox[c])
  BY <1>1, <1>2, Receives
<1>4. Carries(outbox[c], {"auth"}) BY <1>1, <1>3, CarriesTail
<1>5. Live(c)' <=> Live(c) BY <1>1, <1>4 DEF Live
<1>6. Head(outbox[c]).kind \notin EditKind \cup {"pull"} BY <1>1, <1>3 DEF EditKind
<1>. QED BY <1>1, <1>2, <1>3, <1>5, <1>6, ArrivesInStep

(* The room takes a Quit.                                                  *)
LEMMA QuitInStep ==
  ASSUME InStep, NEW c \in Client, RoomQuit(c)
  PROVE  InStep'
<1>1. /\ WiresOK' /\ Alone(c) /\ outbox'[c] = <<>> /\ link[c] = "closed" /\ c \notin authed'
  BY QuitWires DEF InStep
<1>2. room' = room /\ raced' = raced /\ used' = used /\ link' = link
  BY DEF RoomQuit, bounds, ghosts
<1>3. ~Fresh(c)' /\ ~Following(c)' BY <1>1, <1>2 DEF Fresh, Open, Following
<1>4. ~Live(c)' BY <1>1, CarriesNone DEF Live
<1>5. After(<<>>, EditKind, {"auth"}) BY CarriesNone
<1>6. c \notin Editor => Attached(c)' BY <1>3 DEF Attached
<1>7. c \in Editor => Leads(c)'
  <2>1. c \in Editor => c \notin raced' BY <1>2 DEF InStep, Leads
  <2>. QED BY <1>1, <1>3, <1>4, <1>5, <2>1 DEF Leads
<1>8. used \subseteq used' BY <1>2
<1>. QED BY <1>1, <1>2, <1>6, <1>7, <1>8, OneMoves

(* The pull is answered with what the room has.                            *)
LEMMA PullInStep ==
  ASSUME InStep, NEW c \in Client, RoomPull(c)
  PROVE  InStep'
<1> DEFINE reply == [kind |-> "pulled", data |-> PullData(room, NoView)]
           i == inbox[c]
           t == Tail(outbox[c])
<1>1. /\ WiresOK /\ TypeOK /\ Wired(c) /\ WiresOK' /\ Alone(c) /\ outbox'[c] = t
      /\ Received(c).kind = "pull" /\ reply \in InMessage
      /\ inbox'[c] = IF Listening(c) THEN Append(i, reply) ELSE i
  BY PullWires DEF InStep, WiresOK
<1>2. /\ UNCHANGED <<room, users, authed, history, layer, drawing, link, used, stale, raced>>
      /\ UNCHANGED <<chosen, orphans, selected>> /\ Receive(c, {"pull"})
  BY DEF RoomPull, server, browser, bounds, ghosts
<1>3. /\ outbox[c] \in Seq(OutMessage(c)) /\ outbox[c] # <<>> /\ Received(c) = Head(outbox[c])
      /\ c \notin users => Received(c).kind = "join"
      /\ ~Carries(t, {"pull"}) /\ i \in Seq(InMessage)
  BY <1>1, <1>2, Receives DEF Wired
<1>4. /\ Carries(outbox[c], {"pull"})
      /\ Carries(outbox[c], {"auth"}) <=> Carries(t, {"auth"})
  BY <1>1, <1>3, CarriesTail
<1>5. /\ Asking(c) /\ ~Asking(c)' /\ (Live(c)' <=> Live(c)) /\ (Fresh(c)' <=> Fresh(c))
      /\ Clean(c)' <=> Clean(c)
  BY <1>1, <1>2, <1>3, <1>4 DEF Asking, Live, Fresh, Open, Clean
<1>6. reply.kind = "pulled" /\ Said(reply) = room /\ reply.data.create_current = room.current
  <2>1. /\ room \in EditState /\ PullData(room, NoView).create_current = room.current
        /\ PullData(room, NoView).create_undone = room.undone
    BY <1>1, AnswerToNothing DEF TypeOK
  <2>. QED BY <2>1 DEF Said, EditState
<1>7. room \in EditState /\ Chain(room, <<>>, room) /\ <<>> \in Seq(InMessage)
  BY <1>1, ChainEmpty, EmptySeq DEF TypeOK
<1> HIDE DEF reply
<1>8. Fresh(c) => inbox'[c] = Append(i, reply)
  <2>1. c \in users BY <1>1, <1>3
  <2>. QED BY <1>1, <2>1 DEF Fresh, Listening
<1>9. Fresh(c) => Answered(c)'
  <2>1. Carries(Append(i, reply), {"pulled"}) BY <1>1, <1>3, <1>6, CarriesAppend
  <2>. QED BY <1>8, <2>1 DEF Answered
<1>10. ~Following(c)' BY <1>5, <1>9 DEF Following
<1>11. ASSUME c \notin Editor PROVE Attached(c)'
  <2>1. Attached(c) BY <1>11 DEF InStep
  <2>2. ASSUME Fresh(c)
        PROVE  \E pre, rest \in Seq(InMessage), m \in InMessage : AnswerAt(c, pre, m, rest)'
    <3>1. PICK pre \in Seq(InMessage), rest \in Seq(InMessage), m \in InMessage :
             pre = i /\ rest = <<>> /\ m = reply
      BY <1>1, <1>3, <1>7
    <3>2. inbox'[c] = pre \o (<<m>> \o rest)
      <4>1. Append(pre, m) = pre \o <<m>> BY AppendIsConcat
      <4>2. <<m>> \in Seq(InMessage) OBVIOUS
      <4>3. <<m>> \o rest = <<m>> BY <3>1, <4>2, ConcatEmptySeq
      <4>. QED BY <1>8, <2>2, <3>1, <4>1, <4>3
    <3>3. c \notin raced => pre = <<>> BY <1>5, <2>1, <2>2, <3>1 DEF Attached
    <3>4. Drawable(m.data.create_current) /\ Chain(Said(m), rest, room)
      BY <1>6, <1>7, <3>1 DEF InStep, RoomFine
    <3>5. m.kind = "pulled" BY <1>6, <3>1
    <3>6. AnswerAt(c, pre, m, rest)' BY <1>2, <3>2, <3>3, <3>4, <3>5 DEF AnswerAt
    <3>. QED BY <3>6
  <2>4. Fresh(c) /\ c \notin raced => Clean(c) BY <1>5, <2>1 DEF Attached
  <2>. QED BY <1>2, <1>5, <1>10, <2>2, <2>4 DEF Attached
<1>12. ASSUME c \in Editor PROVE Leads(c)'
  <2>1. Leads(c) BY <1>12 DEF InStep
  <2>2. /\ After(t, EditKind, {"auth"}) /\ (Carries(t, EditKind) <=> Carries(outbox[c], EditKind))
        /\ Live(c) => /\ \E s \in EditState : Chain(room, t, s)
                      /\ \A j \in 1 .. Len(t) : t[j].kind = "push" => Known({t[j].id})
    <3>1. Head(outbox[c]).kind \notin EditKind BY <1>1, <1>3 DEF EditKind
    <3>. QED BY <1>1, <1>3, <2>1, <3>1, RestLeads
  <2>3. ASSUME Fresh(c)
        PROVE  \E m \in InMessage : inbox'[c] = <<m>> /\ m.kind = "pulled" /\ Said(m) = room'
    <3>1. i = <<>> BY <1>5, <2>1, <2>3 DEF Leads
    <3>2. Append(i, reply) = <<reply>> BY <3>1
    <3>. QED BY <1>1, <1>2, <1>6, <1>8, <2>3, <3>2
  <2>4. Fresh(c) => Clean(c) /\ ~Carries(outbox[c], EditKind) BY <1>5, <2>1 DEF Leads
  <2>5. c \notin raced /\ (Fresh(c) => Live(c)) BY <2>1 DEF Leads
  <2> HIDE DEF t
  <2>. QED BY <1>1, <1>2, <1>5, <1>10, <2>2, <2>3, <2>4, <2>5 DEF Leads, Known
<1>13. used \subseteq used' BY <1>2
<1>. QED BY <1>1, <1>2, <1>11, <1>12, <1>13, OneMoves

----------------------------------------------------------------------------
(* The room handles an edit.                                               *)

(* Who watches hears of it.                                                *)
LEMMA HearsAttached ==
  ASSUME WiresOK, WiresOK', NEW c, NEW d \in Client, Attached(d), NEW m \in InMessage, m.kind \in EditKind,
         Hears(c, d, m), UNCHANGED <<users, stale>>, Goes(room, m, room')
  PROVE  Attached(d)'
<1> DEFINE i == inbox[d]
           t == Append(i, m)
<1>1. /\ Wired(d) /\ i \in Seq(InMessage) /\ m.kind \notin {"pulled"} /\ room' \in EditState
  BY DEF WiresOK, TypeOK, Wired, EditKind
<1>2. /\ history'[d] = history[d] /\ layer'[d] = layer[d]
      /\ inbox'[d] = (IF Listening(d) THEN t ELSE i)
      /\ Fresh(d)' <=> Fresh(d)
      /\ Asking(d)' <=> Asking(d)
      /\ Clean(d)' <=> Clean(d)
      /\ d \in raced' <=> d \in raced \/ (d \in users /\ Asking(d))
  BY DEF Hears, Fresh, Open, Asking, Clean
<1>3. Answered(d)' <=> Answered(d)
  <2>1. Carries(t, {"pulled"}) <=> Carries(i, {"pulled"}) BY <1>1, CarriesAppend
  <2> HIDE DEF t
  <2>. QED BY <1>2, <2>1 DEF Answered
<1>4. Following(d)' <=> Following(d) BY <1>2, <1>3 DEF Following
<1>5. CASE ~Fresh(d) BY <1>2, <1>4, <1>5 DEF Attached, Following
<1>6. CASE Fresh(d) /\ Asking(d)
  <2>1. ~Answered(d) BY <1>1, <1>6 DEF Wired
  <2>2. d \notin raced' => d \notin raced /\ inbox'[d] = i BY <1>2, <1>6 DEF Listening
  <2>. QED BY <1>2, <1>3, <1>4, <1>6, <2>1, <2>2 DEF Attached, Following
<1>7. CASE Fresh(d) /\ ~Asking(d)
  <2>1. d \in users /\ inbox'[d] = t /\ (d \in raced' <=> d \in raced)
    BY <1>1, <1>2, <1>7 DEF Wired, Listening, Fresh
  <2>2. ASSUME Answered(d)
        PROVE  \E pre, rest \in Seq(InMessage), a \in InMessage : AnswerAt(d, pre, a, rest)'
    <3>1. PICK pre \in Seq(InMessage), rest \in Seq(InMessage), a \in InMessage : AnswerAt(d, pre, a, rest)
      BY <1>7, <2>2 DEF Attached
    <3>2. PICK more \in Seq(InMessage) : more = Append(rest, m) BY AppendProperties
    <3>3. t = pre \o (<<a>> \o more)
      <4>1. <<a>> \o Append(rest, m) = Append(<<a>> \o rest, m) /\ <<a>> \o rest \in Seq(InMessage)
        <5>1. <<a>> \in Seq(InMessage) OBVIOUS
        <5>2. <<a>> \o rest \in Seq(InMessage) BY <5>1, ConcatProperties
        <5>. QED BY <1>1, <5>1, <5>2, EndOfNews, Zenon
      <4>2. pre \o Append(<<a>> \o rest, m) = Append(pre \o (<<a>> \o rest), m)
        BY <1>1, <4>1, EndOfNews, Zenon
      <4>. QED BY <3>1, <3>2, <4>1, <4>2 DEF AnswerAt
    <3>4. Chain(Said(a), more, room')
      <4>1. Chain(Said(a), rest, room) BY <3>1 DEF AnswerAt
      <4>. QED BY <1>1, <3>2, <4>1, ChainAppend
    <3> HIDE DEF t, i
    <3>5. AnswerAt(d, pre, a, more)' BY <2>1, <3>1, <3>3, <3>4 DEF AnswerAt
    <3>. QED BY <3>5
  <2>3. ASSUME Following(d)
        PROVE  \E s \in EditState, jc, ju \in Seq(Edit), x \in Layer : FollowsAt(d, s, jc, ju, x)'
    <3>1. PICK s \in EditState, jc \in Seq(Edit), ju \in Seq(Edit), x \in Layer : FollowsAt(d, s, jc, ju, x)
      BY <2>3 DEF Attached
    <3>2. Chain(s, t, room')
      <4>1. Chain(s, i, room) BY <3>1 DEF FollowsAt
      <4>. QED BY <1>1, <4>1, ChainAppend
    <3> HIDE DEF t, i
    <3>3. FollowsAt(d, s, jc, ju, x)' BY <1>2, <2>1, <3>1, <3>2 DEF FollowsAt
    <3>. QED BY <3>3
  <2>. QED BY <1>2, <1>3, <1>4, <1>7, <2>1, <2>2, <2>3 DEF Attached
<1>. QED BY <1>5, <1>6, <1>7

(* Who makes it has it already.                                            *)
LEMMA ToldInStep ==
  ASSUME InStep, OneEditor, NEW c \in Client, RoomEdit(c), Told(c, Received(c))
  PROVE  InStep'
<1> DEFINE m == Received(c)
           q == outbox[c]
           t == Tail(q)
<1>1. /\ WiresOK /\ TypeOK /\ Wired(c) /\ WiresOK' /\ outbox'[c] = t /\ m = Head(q)
      /\ m.kind \in EditKind /\ m \in InMessage /\ q # <<>>
      /\ UNCHANGED <<users, authed, history, layer, drawing, link, used, commands, stale, loading>>
      /\ UNCHANGED <<chosen, orphans, selected>>
  BY EditWires DEF InStep, WiresOK
<1>2. /\ c \in authed /\ room' = RoomGets(room, m) /\ \A d \in Client \ {c} : Hears(c, d, m)
      /\ inbox'[c] = inbox[c] /\ (c \in raced' <=> c \in raced)
  BY DEF Told
<1>3. c \in Editor /\ q \in Seq(OutMessage(c)) /\ room \in EditState BY <1>1, <1>2 DEF Wired, TypeOK
<1>4. Leads(c) /\ Live(c) /\ RoomFine BY <1>2, <1>3 DEF InStep, Live
<1> HIDE DEF m
<1>5. ASSUME NEW s, Chain(room, q, s) PROVE Goes(room, m, room') /\ Chain(room', t, s)
  <2>1. PICK r \in EditState : Goes(room, m, r) /\ Chain(r, t, s) BY <1>1, <1>3, <1>5, ChainHead
  <2>2. r = room' BY <1>1, <1>2, <1>3, <2>1, RoomGoes
  <2>. QED BY <2>1, <2>2
<1>6. PICK s \in EditState : Chain(room, q, s) BY <1>4 DEF Leads
<1>7. Goes(room, m, room') /\ Chain(room', t, s) BY <1>5, <1>6
<1>8. /\ \A i \in 1 .. Len(t) : t[i].kind = "push" => Known({t[i].id})
      /\ m.kind = "push" => Known({m.id})
  <2>1. \A i \in 1 .. Len(q) : q[i].kind = "push" => Known({q[i].id}) BY <1>4 DEF Leads
  <2>. QED BY <1>1, <1>3, <2>1, RestKnown
<1>9. RoomFine'
  <2>1. Drawable(room'.current) BY <1>1, <1>3, <1>4, <1>7, DrawableGoes DEF RoomFine
  <2>2. Lists(room') \subseteq Lists(room) \cup {x \in Edit : m.kind = "push" /\ x = m.id}
    BY <1>1, <1>3, <1>7, ListsGo
  <2>3. Known(Lists(room')) BY <1>4, <1>8, <2>2 DEF RoomFine, Known, Made
  <2>. QED BY <1>1, <2>1, <2>3 DEF RoomFine, Known
<1>10. /\ After(t, EditKind, {"auth"}) /\ Carries(q, EditKind)
       /\ Carries(q, {"auth"}) <=> Carries(t, {"auth"})
       /\ Carries(q, {"pull"}) <=> Carries(t, {"pull"})
  <2>1. After(q, EditKind, {"auth"}) BY <1>4 DEF Leads
  <2>2. m.kind \notin {"auth"} /\ m.kind \notin {"pull"} BY <1>1 DEF EditKind
  <2>. QED BY <1>1, <1>3, <2>1, <2>2, CarriesTail
<1> HIDE DEF t, q
<1>11. Leads(c)'
  <2>1. /\ Fresh(c)' <=> Fresh(c)
        /\ Asking(c)' <=> Asking(c)
        /\ Answered(c)' <=> Answered(c)
        /\ Live(c)'
    BY <1>1, <1>2, <1>10 DEF Fresh, Open, Asking, Answered, Live, q
  <2>2. Following(c)' <=> Following(c) BY <2>1 DEF Following
  <2>3. ~(Fresh(c) /\ (Asking(c) \/ Answered(c))) BY <1>4, <1>10 DEF Leads, q
  <2>4. Following(c) => /\ inbox[c] = <<>> /\ InTheMaking(c)'
                        /\ \E z \in EditState : /\ Chain(room', t, z)
                                                /\ Ends(history[c], z, c \in selected)
                        /\ Draws(history[c], layer[c], InHand(c), used)
    BY <1>1, <1>4, <1>5 DEF Leads, InTheMaking, q
  <2>5. InHand(c)' = InHand(c) BY <1>1 DEF InHand
  <2>. QED BY <1>1, <1>2, <1>4, <1>6, <1>7, <1>8, <1>10, <2>1, <2>2, <2>3, <2>4, <2>5 DEF Leads, Known
<1>12. ASSUME NEW d \in Client \ Editor PROVE Attached(d)'
  <2>1. Attached(d) /\ d # c BY <1>3 DEF InStep
  <2>2. Hears(c, d, m) BY <1>2, <2>1
  <2>. QED BY <1>1, <1>7, <2>1, <2>2, HearsAttached
<1>13. \A d \in Editor : d = c BY <1>3 DEF OneEditor
<1>. QED BY <1>1, <1>9, <1>11, <1>12, <1>13 DEF InStep

(* What the room does not let through has never been fresh.                *)
LEMMA UntoldInStep ==
  ASSUME InStep, NEW c \in Client, RoomEdit(c), Untold(c)
  PROVE  InStep'
<1> DEFINE m == Received(c)
           q == outbox[c]
           t == Tail(q)
<1>1. /\ WiresOK /\ Wired(c) /\ WiresOK' /\ outbox'[c] = t /\ m = Head(q)
      /\ m.kind \in EditKind /\ q # <<>>
      /\ UNCHANGED <<users, authed, history, layer, drawing, link, used, commands, stale, loading>>
      /\ UNCHANGED <<chosen, orphans, selected>>
  BY EditWires DEF InStep, WiresOK
<1>2. c \notin authed /\ room' = room /\ raced' = raced /\ Alone(c) /\ inbox'[c] = inbox[c]
  BY DEF Untold
<1>3. q \in Seq(OutMessage(c)) BY <1>1 DEF Wired
<1>4. Carries(q, {"pull"}) <=> Carries(t, {"pull"})
  <2>1. m.kind \notin {"pull"} BY <1>1 DEF EditKind
  <2>. QED BY <1>1, <1>3, <2>1, CarriesTail
<1>5. /\ Fresh(c)' <=> Fresh(c)
      /\ Asking(c)' <=> Asking(c)
      /\ Answered(c)' <=> Answered(c)
      /\ Clean(c)' <=> Clean(c)
  BY <1>1, <1>2, <1>4 DEF Fresh, Open, Asking, Answered, Clean
<1>6. Following(c)' <=> Following(c) BY <1>5 DEF Following
<1>7. ASSUME c \notin Editor PROVE Attached(c)'
  <2>1. Attached(c) BY <1>7 DEF InStep
  <2>2. ASSUME NEW pre, NEW rest, NEW a, AnswerAt(c, pre, a, rest) PROVE AnswerAt(c, pre, a, rest)'
    BY <1>2, <2>2 DEF AnswerAt
  <2>3. ASSUME NEW s, NEW jc, NEW ju, NEW x, FollowsAt(c, s, jc, ju, x)
        PROVE  FollowsAt(c, s, jc, ju, x)'
    BY <1>1, <1>2, <2>3 DEF FollowsAt
  <2>. QED BY <1>2, <1>5, <1>6, <2>1, <2>2, <2>3 DEF Attached
<1>8. ASSUME c \in Editor PROVE Leads(c)'
  <2>1. Leads(c) BY <1>8 DEF InStep
  <2>2. After(q, EditKind, {"auth"}) BY <2>1 DEF Leads
  <2>3. ~Carries(q, {"auth"}) /\ After(t, EditKind, {"auth"}) BY <1>1, <1>3, <2>2, CarriesTail
  <2>4. ~Carries(t, {"auth"}) BY <1>1, <1>3, <2>3, CarriesTail
  <2>5. ~Live(c) /\ ~Live(c)' BY <1>1, <1>2, <2>3, <2>4 DEF Live
  <2>6. ~Fresh(c)' /\ ~Following(c)' BY <1>5, <2>1, <2>5 DEF Leads, Following
  <2>7. c \notin raced' BY <1>2, <2>1 DEF Leads
  <2> HIDE DEF t
  <2>. QED BY <1>1, <2>3, <2>5, <2>6, <2>7 DEF Leads
<1>9. used \subseteq used' BY <1>1
<1>. QED BY <1>1, <1>2, <1>7, <1>8, <1>9, OneMoves

(* The room takes an edit message. Only here is one editor needed: what it *)
(* says is what the room has next.                                         *)
LEMMA EditInStep ==
  ASSUME InStep, OneEditor, NEW c \in Client, RoomEdit(c)
  PROVE  InStep'
<1>1. Told(c, Received(c)) \/ Untold(c) BY EditWires DEF InStep
<1>. QED BY <1>1, ToldInStep, UntoldInStep

----------------------------------------------------------------------------
(* A browser handles a message.                                            *)

(* The first of two lists put together loses its head.                     *)
LEMMA RestOfBoth ==
  ASSUME NEW S, NEW p \in Seq(S), p # <<>>, NEW z \in Seq(S)
  PROVE  Tail(p \o z) = Tail(p) \o z
<1> DEFINE e == p[1]
           t == Tail(p)
<1>1. Len(p) \in Nat \ {0} /\ t \in Seq(S) /\ e \in S BY TailIs
<1>2. p = <<e>> \o t
  <2>1. 1 \in 1 .. Len(p) /\ Len(p) \in 1 .. Len(p) BY <1>1
  <2>2. SubSeq(p, 1, Len(p)) = <<p[1]>> \o SubSeq(p, 1 + 1, Len(p)) BY <2>1, SubSeqRecursiveFirst
  <2>3. 1 + 1 = 2 OBVIOUS
  <2>4. SubSeq(p, 1, Len(p)) = p BY SubSeqFull
  <2>5. Tail(p) = SubSeq(p, 2, Len(p)) BY TailIsSubSeq
  <2>. QED BY <2>2, <2>3, <2>4, <2>5
<1> HIDE DEF e, t
<1>3. p \o z = <<e>> \o (t \o z)
  <2>1. <<e>> \in Seq(S) BY <1>1
  <2>2. (<<e>> \o t) \o z = <<e>> \o (t \o z) BY <1>1, <2>1, ConcatAssociative
  <2>. QED BY <1>2, <2>2
<1>4. t \o z \in Seq(S) BY <1>1, ConcatProperties
<1>5. Tail(<<e>> \o (t \o z)) = t \o z BY <1>1, <1>4, CarriesFront
<1>. QED BY <1>3, <1>5 DEF t

(* What the second carries both carry.                                     *)
LEMMA CarriesBehind ==
  ASSUME NEW S, NEW p \in Seq(S), NEW z \in Seq(S), NEW K, Carries(z, K)
  PROVE  Carries(p \o z, K)
<1>1. Len(p) \in Nat /\ Len(z) \in Nat BY LenProperties
<1>2. PICK i \in 1 .. Len(z) : z[i].kind \in K BY DEF Carries
<1>3. Len(p) + i \in 1 .. Len(p) + Len(z) /\ ~(Len(p) + i <= Len(p)) /\ (Len(p) + i) - Len(p) = i
  BY <1>1, <1>2
<1>4. (p \o z)[Len(p) + i] = z[i] /\ Len(p \o z) = Len(p) + Len(z) BY <1>3, ConcatProperties
<1>. QED BY <1>2, <1>3, <1>4 DEF Carries

(* The answer to a pull: the page has what it had, and what the room had.  *)
LEMMA AnswerShown ==
  ASSUME NEW p \in PageState, p.ok, NEW m \in InMessage, m.kind = "pulled",
         Drawable(m.data.create_current), NEW q, HandledAs(p, m, q)
  PROVE  Shows(q.history, q.layer, Said(m), p.history.current, p.history.undone, p.layer)
<1>1. m.data \in Answer /\ m.data.delete_current = {} /\ m.data.delete_undone = {} BY InKinds
<1>2. PICK cd \in SetToSeqs(m.data.delete_current), ud \in SetToSeqs(m.data.delete_undone) :
         q = PullOn(p, m.data, cd, ud)
  BY DEF HandledAs
<1>3. /\ q.history = [current |-> p.history.current \o m.data.create_current,
                      undone |-> p.history.undone \o m.data.create_undone]
      /\ \A a \in Adds : q.layer[a] = p.layer[a] + Drawn(m.data.create_current, a)
  <2>1. PICK d \in Answer : d = m.data BY <1>1
  <2>2. /\ d.delete_current = {} /\ d.delete_undone = {} /\ Drawable(d.create_current)
        /\ cd \in SetToSeqs(d.delete_current) /\ ud \in SetToSeqs(d.delete_undone)
        /\ q = PullOn(p, d, cd, ud)
    BY <1>1, <1>2, <2>1
  <2>3. /\ q.history = [current |-> p.history.current \o d.create_current,
                        undone |-> p.history.undone \o d.create_undone]
        /\ \A a \in Adds : q.layer[a] = p.layer[a] + Drawn(d.create_current, a)
    BY <2>2, Pulled
  <2>. QED BY <2>1, <2>3
<1>4. Said(m).current = m.data.create_current /\ Said(m).undone = m.data.create_undone BY DEF Said
<1>. QED BY <1>3, <1>4 DEF Shows

(* The editor hears nothing but the answer.                                *)
LEMMA HandleLeads ==
  ASSUME InStep, NEW c \in Client, HandleMessage(c), c \in Editor
  PROVE  Leads(c)'
<1> DEFINE i == inbox[c]
           m == Head(i)
           t == Tail(i)
<1>1. /\ WiresOK /\ TypeOK /\ Wired(c) /\ WiresOK' /\ i # <<>> /\ i \in Seq(InMessage)
      /\ m \in InMessage /\ inbox'[c] = t
      /\ UNCHANGED <<room, users, authed, drawing, link, outbox, used, commands, stale, raced>>
      /\ UNCHANGED <<chosen, orphans, selected>>
      /\ m.kind = "pulled" => ~Carries(t, {"pulled"})
  BY HandleWires DEF InStep, WiresOK
<1>2. PICK q \in PageState : /\ HandledAs(PageOf(c), m, q)
                             /\ history'[c] = q.history /\ layer'[c] = q.layer
  BY HandleWires DEF InStep
<1>3. Leads(c) /\ RoomFine /\ room \in EditState BY <1>1 DEF InStep, TypeOK
<1>4. (Fresh(c)' <=> Fresh(c)) /\ (Asking(c)' <=> Asking(c)) /\ (Live(c)' <=> Live(c))
  BY <1>1 DEF Fresh, Open, Asking, Live
<1>5. CASE ~Fresh(c)
  <2>1. ~Following(c)' BY <1>4, <1>5 DEF Following
  <2>. QED BY <1>1, <1>3, <1>4, <1>5, <2>1 DEF Leads, Known
<1>6. CASE Fresh(c)
  <2>1. Answered(c) /\ ~Asking(c) BY <1>1, <1>3, <1>6 DEF Leads, Following, Wired
  <2>2. /\ Clean(c) /\ ~Carries(outbox[c], EditKind)
        /\ \E a \in InMessage : i = <<a>> /\ a.kind = "pulled" /\ Said(a) = room
    BY <1>3, <1>6, <2>1 DEF Leads
  <2>3. m.kind = "pulled" /\ Said(m) = room /\ t = <<>>
    <3>1. PICK a \in InMessage : i = <<a>> /\ a.kind = "pulled" /\ Said(a) = room BY <2>2
    <3>2. m = a /\ t = <<>> BY <3>1
    <3>. QED BY <3>1, <3>2
  <2>4. PICK p : p = PageOf(c) OBVIOUS
  <2>5. /\ p \in PageState /\ p.ok /\ p.history = NoEdits /\ p.layer = Blank
        /\ InHand(c)' = {} /\ InTheMaking(c)' /\ c \notin selected' /\ history'[c] \in EditState
    <3>1. drawing'[c] = None /\ chosen'[c] = None /\ orphans'[c] = {} /\ c \notin selected'
      BY <1>1, <2>2 DEF Clean
    <3>2. InHand(c)' = {} /\ InTheMaking(c)' BY <3>1 DEF InHand, InTheMaking
    <3>. QED BY <1>1, <2>2, <2>4, <3>1, <3>2, BrowserParts DEF Clean, WiresOK, TypeOK
  <2>6. Drawable(m.data.create_current)
    <3>1. m.data.create_current = room.current BY <2>3 DEF Said
    <3>. QED BY <1>3, <3>1 DEF RoomFine
  <2> HIDE DEF m, t, i
  <2>7. Shows(q.history, q.layer, Said(m), p.history.current, p.history.undone, p.layer)
    BY <1>1, <1>2, <2>3, <2>4, <2>5, <2>6, AnswerShown
  <2>8. p.history.current = <<>> /\ p.history.undone = <<>> BY <2>5 DEF NoEdits
  <2>9. Shows(history'[c], layer'[c], room, <<>>, <<>>, Held({}))
    <3>1. Blank = Held({}) BY DEF Blank, Held
    <3>. QED BY <1>2, <2>3, <2>5, <2>7, <2>8, <3>1
  <2>10. /\ history'[c] = room
         /\ \A a \in Adds : layer'[c][a] = Drawn(room.current, a) + (IF a \in {} THEN 1 ELSE 0)
    BY <1>3, <2>9, ItselfShown
  <2>11. Draws(history'[c], layer'[c], InHand(c)', used')
    <3>1. Draws(history'[c], layer'[c], {}, used) BY <1>3, <2>10 DEF Draws, RoomFine, Known
    <3>. QED BY <1>1, <2>5, <3>1
  <2>12. Chain(room, outbox[c], room)
    <3>1. outbox[c] \in Seq(OutMessage(c)) BY <1>1 DEF Wired
    <3>. QED BY <1>3, <2>2, <3>1, ChainIdle
  <2>13. ~Asking(c)' /\ ~Answered(c)' BY <1>1, <1>4, <2>1, <2>3 DEF Answered
  <2>14. Ends(history'[c], room, c \in selected')
    <3>1. Ends(room, room, FALSE) BY <1>3, EndsAre
    <3>2. (c \in selected') = FALSE BY <2>5
    <3>. QED BY <2>10, <3>1, <3>2
  <2>15. \E z \in EditState : Chain(room', outbox'[c], z) /\ Ends(history'[c], z, c \in selected')
    BY <1>1, <1>3, <2>12, <2>14
  <2>. QED BY <1>1, <1>3, <1>4, <1>6, <2>3, <2>5, <2>11, <2>13, <2>15 DEF Leads, Known
<1>. QED BY <1>5, <1>6

(* Who watches takes the answer, and what follows it.                      *)
LEMMA HandleAttached ==
  ASSUME InStep, NEW c \in Client, HandleMessage(c), c \notin Editor
  PROVE  Attached(c)'
<1> DEFINE i == inbox[c]
           m == Head(i)
           t == Tail(i)
<1>1. /\ WiresOK /\ TypeOK /\ Wired(c) /\ WiresOK' /\ i # <<>> /\ i \in Seq(InMessage)
      /\ m \in InMessage /\ inbox'[c] = t /\ t \in Seq(InMessage)
      /\ UNCHANGED <<room, users, authed, drawing, link, outbox, used, commands, stale, raced>>
      /\ Carries(i, {"pulled"}) <=> m.kind \in {"pulled"} \/ Carries(t, {"pulled"})
      /\ m.kind = "pulled" => ~Carries(t, {"pulled"})
  BY HandleWires DEF InStep, WiresOK
<1>2. PICK q \in PageState : /\ HandledAs(PageOf(c), m, q)
                             /\ history'[c] = q.history /\ layer'[c] = q.layer
  BY HandleWires DEF InStep
<1>3. PICK p \in PageState : p = PageOf(c) /\ p.ok /\ p.history = history[c] /\ p.layer = layer[c]
  BY <1>1, BrowserParts
<1>4. Attached(c) BY DEF InStep
<1>5. (Fresh(c)' <=> Fresh(c)) /\ (Asking(c)' <=> Asking(c)) BY <1>1 DEF Fresh, Open, Asking
<1>6. Answered(c)' <=> Carries(t, {"pulled"}) BY <1>1 DEF Answered
<1>7. CASE ~Fresh(c) BY <1>5, <1>7 DEF Attached, Following
<1>8. CASE Fresh(c) /\ Asking(c)
  <2>1. ~Answered(c) /\ c \in raced' BY <1>1, <1>4, <1>8 DEF Wired, Attached
  <2>2. ~Answered(c)' BY <1>1, <1>6, <2>1 DEF Answered
  <2>. QED BY <1>5, <1>8, <2>1, <2>2 DEF Attached, Following
<1>9. CASE Fresh(c) /\ ~Asking(c) /\ Answered(c)
  <2>1. PICK pre \in Seq(InMessage), rest \in Seq(InMessage), a \in InMessage : AnswerAt(c, pre, a, rest)
    BY <1>4, <1>9 DEF Attached
  <2> DEFINE z == <<a>> \o rest
  <2>2. /\ i = pre \o z /\ a.kind = "pulled" /\ Drawable(a.data.create_current)
        /\ Chain(Said(a), rest, room) /\ (c \notin raced => pre = <<>>)
    BY <2>1 DEF AnswerAt
  <2>3. z \in Seq(InMessage) /\ Head(z) = a /\ Tail(z) = rest /\ Carries(z, {"pulled"})
    BY <2>2, CarriesFront
  <2> HIDE DEF z
  <2>4. CASE pre = <<>>
    <3>1. i = z BY <2>2, <2>3, <2>4, ConcatEmptySeq
    <3>2. m = a /\ t = rest BY <2>3, <3>1
    <3> HIDE DEF m, t, i
    <3>3. ~Answered(c)' BY <1>1, <1>6, <2>2, <3>2
    <3>4. PICK s \in EditState, jc \in Seq(Edit), ju \in Seq(Edit), x \in Layer :
             s = Said(a) /\ jc = history[c].current /\ ju = history[c].undone /\ x = layer[c]
      <4>1. Said(a) \in EditState BY <2>2, ChainEnds
      <4>. QED BY <1>1, <4>1, BrowserParts
    <3>5. Shows(history'[c], layer'[c], s, jc, ju, x)
      BY <1>2, <1>3, <2>2, <3>2, <3>4, AnswerShown
    <3>6. c \notin raced => jc = <<>> /\ ju = <<>> /\ x = Blank
      BY <1>4, <1>9, <3>4 DEF Attached, Clean, NoEdits
    <3>7. FollowsAt(c, s, jc, ju, x)' BY <1>1, <2>2, <3>2, <3>4, <3>5, <3>6 DEF FollowsAt
    <3>. QED BY <1>5, <1>9, <3>3, <3>7 DEF Attached
  <2>5. CASE pre # <<>>
    <3>1. c \in raced' BY <1>1, <2>2, <2>5
    <3>2. PICK k \in Seq(InMessage) : k = Tail(pre) BY <2>5, TailIs
    <3>3. t = k \o z BY <2>2, <2>3, <2>5, <3>2, RestOfBoth
    <3>4. Carries(k \o z, {"pulled"}) BY <2>3, CarriesBehind
    <3> HIDE DEF m, t, i
    <3>5. Answered(c)' BY <1>6, <3>3, <3>4
    <3>6. inbox'[c] = k \o (<<a>> \o rest) BY <1>1, <3>3 DEF z
    <3>7. AnswerAt(c, k, a, rest)' BY <1>1, <2>2, <3>1, <3>6 DEF AnswerAt
    <3>. QED BY <1>5, <1>9, <3>1, <3>5, <3>7 DEF Attached, Following
  <2>. QED BY <2>4, <2>5
<1>10. CASE Fresh(c) /\ ~Asking(c) /\ ~Answered(c)
  <2>1. PICK s \in EditState, jc \in Seq(Edit), ju \in Seq(Edit), x \in Layer : FollowsAt(c, s, jc, ju, x)
    BY <1>4, <1>10 DEF Attached, Following
  <2>2. m.kind \in EditKind /\ ~Answered(c)'
    <3>1. m.kind \notin {"pulled"} /\ ~Carries(t, {"pulled"}) BY <1>1, <1>10 DEF Answered
    <3>2. m.kind \in EditKind \cup {"pulled"} BY <1>1, InKinds
    <3>. QED BY <1>6, <3>1, <3>2
  <2>3. PICK r \in EditState : Goes(s, m, r) /\ Chain(r, t, room)
    <3>1. Chain(s, i, room) BY <2>1 DEF FollowsAt
    <3>. QED BY <1>1, <3>1, ChainHead
  <2> HIDE DEF m, t, i
  <2>4. Shows(p.history, p.layer, s, jc, ju, x) BY <1>3, <2>1 DEF FollowsAt
  <2>5. PICK k \in Seq(Edit) : Shows(q.history, q.layer, r, jc, k, x) /\ (ju = <<>> => k = <<>>)
    <3>1. HandledAs(p, m, q) BY <1>2, <1>3
    <3>2. PICK e \in InMessage : e = m BY <1>1
    <3>3. p.ok /\ e.kind \in EditKind /\ HandledAs(p, e, q) /\ Goes(s, e, r)
      BY <1>3, <2>2, <2>3, <3>1, <3>2
    <3>. QED BY <2>4, <3>3, FollowStep
  <2>6. c \notin raced => jc = <<>> /\ k = <<>> /\ x = Blank BY <2>1, <2>5 DEF FollowsAt
  <2>7. FollowsAt(c, r, jc, k, x)' BY <1>1, <1>2, <2>3, <2>5, <2>6 DEF FollowsAt
  <2>. QED BY <1>5, <1>10, <2>2, <2>7 DEF Attached
<1>. QED BY <1>7, <1>8, <1>9, <1>10

(* A browser takes the next message.                                       *)
LEMMA HandleInStep ==
  ASSUME InStep, NEW c \in Client, HandleMessage(c)
  PROVE  InStep'
<1>1. WiresOK' /\ Alone(c) /\ UNCHANGED <<room, used, raced>> BY HandleWires DEF InStep
<1>2. used \subseteq used' BY <1>1
<1>. QED BY <1>1, <1>2, HandleLeads, HandleAttached, OneMoves

----------------------------------------------------------------------------
(* What every step keeps, and what follows from it.                        *)

(* A step that changes nothing keeps InStep.                               *)
LEMMA InStepStutter ==
  ASSUME InStep, UNCHANGED vars
  PROVE  InStep'
<1>1. WiresOK' BY WiresStutter DEF InStep
<1>2. /\ room' = room /\ raced' = raced /\ used \subseteq used'
      /\ \A d \in Client : Unmoved(d)
  BY DEF vars, server, browser, bounds, ghosts, Unmoved
<1>3. RoomFine' BY <1>2, StillKnown DEF InStep, RoomFine, Known
<1>4. \A d \in Client \ Editor : Attached(d)' BY <1>2, StillAttached DEF InStep
<1>5. \A d \in Editor : Leads(d)'
  <2>1. Editor \subseteq Client BY CollabAssumption
  <2>. QED BY <1>2, <2>1, StillLeads DEF InStep
<1>. QED BY <1>1, <1>3, <1>4, <1>5 DEF InStep

(* What was done behind the room's back stays done.                        *)
LEMMA OddGrows ==
  ASSUME [Next]_vars
  PROVE  odd \subseteq odd'
<1>1. CASE UNCHANGED vars BY <1>1 DEF vars, ghosts
<1>2. ASSUME NEW c \in Client, ClientStep(c) PROVE odd \subseteq odd'
  <2>1. ASSUME NEW a \in Adds, MouseDown(c, a) \/ Select(c, a) PROVE odd \subseteq odd'
    BY <2>1 DEF MouseDown, Select
  <2>2. ASSUME NEW r \in Removes, DeleteSelection(c, r) PROVE odd \subseteq odd'
    BY <2>2 DEF DeleteSelection
  <2>3. ASSUME NEW r \in Removes, Cut(c, r) PROVE odd \subseteq odd' BY <2>3 DEF Cut
  <2>4. CASE Connect(c) \/ Opened(c) \/ Disconnect(c) \/ Lose(c) \/ Reconnect(c)
    BY <2>4 DEF Connect, Opened, Disconnect, Lose, Reconnect, ghosts
  <2>5. CASE MouseUp(c) \/ Abandon(c) \/ Undo(c) \/ Redo(c) \/ HandleMessage(c)
    BY <2>5 DEF MouseUp, Abandon, Undo, Redo, HandleMessage, ghosts
  <2>. QED BY <1>2, <2>1, <2>2, <2>3, <2>4, <2>5 DEF ClientStep
<1>3. ASSUME NEW c \in Client, RoomStep(c) PROVE odd \subseteq odd'
  BY <1>3 DEF RoomStep, RoomJoin, RoomQuit, RoomAuth, RoomEdit, RoomPull, ghosts
<1>. QED BY <1>1, <1>2, <1>3 DEF Next

(* InStep is inductive, with one editor that keeps nothing to itself.      *)
LEMMA InStepStep ==
  ASSUME InStep, OneEditor, [Next]_vars, odd' = {}
  PROVE  InStep'
<1>1. CASE UNCHANGED vars BY <1>1, InStepStutter
<1>2. ASSUME NEW c \in Client, ClientStep(c) PROVE InStep'
  <2>1. ASSUME NEW a \in Adds, MouseDown(c, a) \/ Select(c, a) PROVE InStep'
    BY <2>1, MouseDownInStep, SelectInStep
  <2>2. ASSUME NEW r \in Removes, DeleteSelection(c, r) PROVE InStep' BY <2>2, DeleteInStep
  <2>3. ASSUME NEW r \in Removes, Cut(c, r) PROVE FALSE BY <2>3 DEF Cut
  <2>4. CASE Connect(c) \/ Opened(c) \/ Disconnect(c) \/ Lose(c) \/ Reconnect(c)
    BY <2>4, ConnectInStep, OpenedInStep, DisconnectInStep, LoseInStep, ReconnectInStep
  <2>5. CASE MouseUp(c) \/ Abandon(c) \/ Undo(c) \/ Redo(c) \/ HandleMessage(c)
    BY <2>5, MouseUpInStep, AbandonInStep, UndoInStep, RedoInStep, HandleInStep
  <2>. QED BY <1>2, <2>1, <2>2, <2>3, <2>4, <2>5 DEF ClientStep
<1>3. ASSUME NEW c \in Client, RoomStep(c) PROVE InStep'
  BY <1>3, JoinInStep, QuitInStep, AuthInStep, EditInStep, PullInStep DEF RoomStep
<1>. QED BY <1>1, <1>2, <1>3 DEF Next

(* ... and until then the wires hold anyhow.                               *)
OneSpeaks == WiresOK /\ (odd = {} => InStep)

(* OneSpeaks is inductive, with one editor.                                *)
LEMMA OneSpeaksStep ==
  ASSUME OneEditor, OneSpeaks, [Next]_vars
  PROVE  OneSpeaks'
<1>1. WiresOK' BY WiresStep DEF OneSpeaks
<1>2. ASSUME odd' = {} PROVE InStep'
  <2>1. odd = {} BY <1>2, OddGrows
  <2>. QED BY <1>2, <2>1, InStepStep DEF OneSpeaks
<1>. QED BY <1>1, <1>2 DEF OneSpeaks

(* ... and holds at first.                                                 *)
LEMMA OneSpeaksInit ==
  ASSUME Init
  PROVE  OneSpeaks
BY InStepInit, WiresInit DEF OneSpeaks

(* Somebody in the room to whom nothing is on its way has the room's edits *)
(* behind what it had before it joined, but for the undone ones it gave up *)
(* by selecting.                                                           *)
LEMMA HasTheRoom ==
  ASSUME InStep, NEW c \in Client, Settled(c), c \notin stale
  PROVE  \E jc, ju, given \in Seq(Edit) :
           /\ history[c].current = jc \o room.current
           /\ given \o history[c].undone = ju \o room.undone
           /\ c \notin raced => jc = <<>> /\ ju = <<>>
           /\ c \notin selected => given = <<>>
<1>1. outbox[c] = <<>> /\ inbox[c] = <<>> /\ Fresh(c) BY DEF Settled, Fresh
<1>2. ~Asking(c) /\ ~Answered(c) BY <1>1, CarriesNone DEF Asking, Answered
<1>3. /\ Following(c) /\ room \in EditState /\ history[c] \in EditState
  BY <1>1, <1>2 DEF Following, InStep, WiresOK, TypeOK
<1>4. /\ <<>> \in Seq(Edit) /\ room.current \in Seq(Edit) /\ room.undone \in Seq(Edit)
      /\ history[c].undone \in Seq(Edit)
  BY <1>3, EmptySeq DEF EditState
<1>5. /\ <<>> \o room.current = room.current /\ <<>> \o room.undone = room.undone
      /\ <<>> \o history[c].undone = history[c].undone
  BY <1>4, ConcatEmptySeq
<1>6. CASE c \in Editor
  <2>1. PICK z \in EditState : Chain(room, <<>>, z) /\ Ends(history[c], z, c \in selected)
    BY <1>1, <1>3, <1>6 DEF InStep, Leads
  <2>2. z = room BY <1>3, <2>1, ChainEmpty
  <2>3. PICK given \in Seq(Edit) : room.undone = given \o history[c].undone /\ (c \notin selected => given = <<>>)
    BY <2>1, <2>2 DEF Ends
  <2>4. history[c].current = room.current BY <2>1, <2>2 DEF Ends
  <2>. QED BY <1>4, <1>5, <2>3, <2>4
<1>7. CASE c \notin Editor
  <2>1. PICK s \in EditState, jc \in Seq(Edit), ju \in Seq(Edit), x \in Layer : FollowsAt(c, s, jc, ju, x)
    BY <1>3, <1>7 DEF InStep, Attached
  <2>2. s = room
    <3>1. Chain(s, <<>>, room) BY <1>1, <2>1 DEF FollowsAt
    <3>. QED BY <3>1, ChainEmpty
  <2>3. history[c] = [current |-> jc \o room.current, undone |-> ju \o room.undone]
        /\ (c \notin raced => jc = <<>> /\ ju = <<>>)
    BY <2>1, <2>2 DEF FollowsAt, Shows
  <2>4. history[c].current = jc \o room.current /\ history[c].undone = ju \o room.undone
    <3> DEFINE z == [current |-> jc \o room.current, undone |-> ju \o room.undone]
    <3>1. z.current = jc \o room.current /\ z.undone = ju \o room.undone OBVIOUS
    <3>2. history[c] = z BY <2>3
    <3> HIDE DEF z
    <3>. QED BY <3>1, <3>2
  <2>. QED BY <1>4, <1>5, <2>3, <2>4
<1>. QED BY <1>6, <1>7

(* The second of two lists put together is among both.                     *)
LEMMA LastPart ==
  ASSUME NEW S, NEW j \in Seq(S), NEW s \in Seq(S)
  PROVE  ToSet(s) \subseteq ToSet(j \o s)
<1> DEFINE k == j \o s
<1>1. Len(j) \in Nat /\ Len(s) \in Nat /\ DOMAIN s = 1 .. Len(s) BY LenProperties
<1>2. /\ Len(k) = Len(j) + Len(s) /\ k \in Seq(S)
      /\ \A i \in 1 .. Len(j) + Len(s) : k[i] = IF i <= Len(j) THEN j[i] ELSE s[i - Len(j)]
  BY ConcatProperties
<1>3. DOMAIN k = 1 .. Len(j) + Len(s) BY <1>2, LenProperties
<1> HIDE DEF k
<1>4. ASSUME NEW i \in 1 .. Len(s) PROVE \E h \in 1 .. Len(j) + Len(s) : k[h] = s[i]
  <2>1. /\ Len(j) + i \in 1 .. Len(j) + Len(s) /\ ~(Len(j) + i <= Len(j))
        /\ (Len(j) + i) - Len(j) = i
    BY <1>1
  <2>. QED BY <1>2, <2>1
<1>5. ToSet(s) \subseteq ToSet(k) BY <1>1, <1>3, <1>4 DEF ToSet
<1>. QED BY <1>5 DEF k

(* ... and is how both end.                                                *)
LEMMA LastPartEnds ==
  ASSUME NEW j \in Seq(Edit), NEW s \in Seq(Edit)
  PROVE  EndsWith(j \o s, s)
<1> DEFINE k == j \o s
           n == Len(j)
<1>1. n \in Nat /\ Len(s) \in Nat BY LenProperties
<1>2. /\ Len(k) = n + Len(s) /\ k \in Seq(Edit)
      /\ \A i \in 1 .. n + Len(s) : k[i] = IF i <= n THEN j[i] ELSE s[i - n]
  BY ConcatProperties
<1> HIDE DEF k, n
<1>3. n \in 0 .. Len(k) BY <1>1, <1>2
<1>4. SubSeq(k, n + 1, Len(k)) = s
  <2>1. PICK a \in Int, b \in Int : a = n + 1 /\ b = Len(k) BY <1>1, <1>2
  <2>2. b - a + 1 = Len(s) /\ (a <= b <=> Len(s) > 0) /\ a .. b \subseteq 1 .. n + Len(s) /\ Len(k) = n + Len(s)
    BY <1>1, <1>2, <2>1
  <2>3. \A i \in a .. b : k[i] \in Edit
    <3>1. \A i \in 1 .. Len(k) : k[i] \in Edit BY <1>2, ElementOfSeq
    <3>. QED BY <2>2, <3>1
  <2> DEFINE t == SubSeq(k, a, b)
  <2>4. /\ t \in Seq(Edit) /\ Len(t) = (IF a <= b THEN b - a + 1 ELSE 0)
        /\ \A i \in 1 .. b - a + 1 : t[i] = k[a + i - 1]
    BY <2>3, SubSeqProperties
  <2> HIDE DEF t
  <2>5. Len(t) = Len(s) BY <1>1, <2>2, <2>4
  <2>6. ASSUME NEW i \in 1 .. Len(s) PROVE t[i] = s[i]
    <3>1. t[i] = k[a + i - 1]
      <4>1. i \in 1 .. b - a + 1 BY <2>2
      <4>. QED BY <2>4, <4>1
    <3>2. a + i - 1 = n + i /\ n + i \in 1 .. n + Len(s) /\ ~(n + i <= n) /\ n + i - n = i
      BY <1>1, <2>1
    <3>3. k[n + i] = s[i]
      <4>1. PICK h \in 1 .. n + Len(s) : h = n + i BY <3>2
      <4>2. k[h] = IF h <= n THEN j[h] ELSE s[h - n] BY <1>2
      <4>3. ~(h <= n) /\ h - n = i BY <1>1, <3>2, <4>1
      <4>4. k[h] = s[i] BY <4>2, <4>3
      <4>. QED BY <4>1, <4>4
    <3>. QED BY <3>1, <3>2, <3>3
  <2>7. t = s BY <2>4, <2>5, <2>6, SeqEqual
  <2>. QED BY <2>1, <2>7 DEF t
<1>5. EndsWith(k, s) BY <1>3, <1>4 DEF EndsWith
<1>. QED BY <1>5 DEF k

(* With one editor nobody misses an edit: not who joins while it draws,    *)
(* nor the editor itself when it comes back; only undone edits are missing *)
(* where a shape was selected (NothingMissing).                            *)
THEOREM NothingIsMissing ==
  ASSUME OneEditor
  PROVE  Spec => []NothingMissing
<1>1. Init => OneSpeaks BY OneSpeaksInit
<1>2. OneSpeaks /\ [Next]_vars => OneSpeaks' BY OneSpeaksStep
<1>3. OneSpeaks => NothingMissing
  <2> SUFFICES ASSUME InStep, NEW c \in Client, Settled(c), c \notin stale
               PROVE  /\ ToSet(room.current) \subseteq ToSet(history[c].current)
                      /\ c \notin selected => ToSet(room.undone) \subseteq ToSet(history[c].undone)
    BY DEF NothingMissing, OneSpeaks
  <2>1. PICK jc \in Seq(Edit), ju \in Seq(Edit), given \in Seq(Edit) :
           /\ history[c].current = jc \o room.current
           /\ given \o history[c].undone = ju \o room.undone
           /\ c \notin selected => given = <<>>
    BY HasTheRoom
  <2>2. room.current \in Seq(Edit) /\ room.undone \in Seq(Edit) /\ history[c].undone \in Seq(Edit)
    BY DEF InStep, WiresOK, TypeOK, EditState
  <2>3. /\ ToSet(room.current) \subseteq ToSet(jc \o room.current)
        /\ ToSet(room.undone) \subseteq ToSet(ju \o room.undone)
    BY <2>2, LastPart
  <2>4. <<>> \o history[c].undone = history[c].undone BY <2>2, ConcatEmptySeq
  <2>. QED BY <2>1, <2>3, <2>4
<1>. QED BY <1>1, <1>2, <1>3, PTL DEF Spec

(* ... and all have the room's lists, in the room's order, but those whom  *)
(* the editor's news reached before their answer; what is left of undone   *)
(* edits after a selection is the end of the room's (Converged).           *)
THEOREM AllConverge ==
  ASSUME OneEditor
  PROVE  Spec => []Converged
<1>1. Init => OneSpeaks BY OneSpeaksInit
<1>2. OneSpeaks /\ [Next]_vars => OneSpeaks' BY OneSpeaksStep
<1>3. OneSpeaks => Converged
  <2> SUFFICES ASSUME InStep, NEW c \in Client, Settled(c), c \notin stale, c \notin raced
               PROVE  /\ history[c].current = room.current
                      /\ \/ history[c].undone = room.undone
                         \/ c \in selected /\ EndsWith(room.undone, history[c].undone)
    BY DEF Converged, OneSpeaks
  <2>1. PICK given \in Seq(Edit) :
           /\ history[c].current = <<>> \o room.current
           /\ given \o history[c].undone = <<>> \o room.undone
           /\ c \notin selected => given = <<>>
    BY HasTheRoom
  <2>2. room.current \in Seq(Edit) /\ room.undone \in Seq(Edit) /\ history[c].undone \in Seq(Edit)
    BY DEF InStep, WiresOK, TypeOK, EditState
  <2>3. /\ <<>> \o room.current = room.current /\ <<>> \o room.undone = room.undone
        /\ <<>> \o history[c].undone = history[c].undone
    BY <2>2, ConcatEmptySeq
  <2>4. CASE c \notin selected BY <2>1, <2>3, <2>4
  <2>5. CASE c \in selected
    <3>1. EndsWith(given \o history[c].undone, history[c].undone) BY <2>2, LastPartEnds
    <3>2. given \o history[c].undone = room.undone BY <2>1, <2>3
    <3>. QED BY <2>1, <2>3, <2>5, <3>1, <3>2
  <2>. QED BY <2>4, <2>5
<1>. QED BY <1>1, <1>2, <1>3, PTL DEF Spec

(* At every moment the canvas of every page is what its history draws, but *)
(* for the shape in the making and those abandoned (CanvasShowsHistory).   *)
THEOREM CanvasIsHistory ==
  ASSUME OneEditor
  PROVE  Spec => []CanvasShowsHistory
<1>1. Init => OneSpeaks BY OneSpeaksInit
<1>2. OneSpeaks /\ [Next]_vars => OneSpeaks' BY OneSpeaksStep
<1>3. OneSpeaks => CanvasShowsHistory
  <2> SUFFICES ASSUME InStep, NEW c \in Client, c \notin stale, c \notin raced,
                      NEW a \in Adds, a # drawing[c], a \notin orphans[c]
               PROVE  layer[c][a] = Drawn(history[c].current, a)
    BY DEF CanvasShowsHistory, OneSpeaks
  <2>1. TypeOK /\ Wired(c) /\ history[c] \in EditState /\ layer[c] \in Layer
    BY BrowserParts DEF InStep, WiresOK
  <2>2. history[c].current \in Seq(Edit) /\ Drawn(history[c].current, a) \in Int
    BY <2>1, DrawnGrows, CollabAssumption DEF EditState
  <2>3. CASE Clean(c)
    <3>1. Drawn(<<>>, a) = 0
      <4>1. <<>> \in Seq(Edit) /\ a \in Edit BY EmptySeq, CollabAssumption
      <4>. QED BY <4>1, DrawnGrows
    <3>. QED BY <2>3, <3>1 DEF Clean, NoEdits, Blank
  <2>4. CASE ~Clean(c)
    <3>1. Fresh(c) BY <2>1, <2>4 DEF Wired, Fresh, Open, TypeOK
    <3>2. CASE c \in Editor
      <4>1. Following(c) BY <2>4, <3>1, <3>2 DEF InStep, Leads, Following
      <4>2. Draws(history[c], layer[c], InHand(c), used) BY <3>2, <4>1 DEF InStep, Leads
      <4>3. a \notin InHand(c) BY DEF InHand
      <4>4. layer[c][a] = Drawn(history[c].current, a) + 0 BY <4>2, <4>3 DEF Draws
      <4>. QED BY <2>2, <4>4
    <3>3. CASE c \notin Editor
      <4>1. Attached(c) BY <3>3 DEF InStep
      <4>2. Following(c) BY <2>4, <3>1, <4>1 DEF Attached, Following
      <4>3. PICK s \in EditState, jc \in Seq(Edit), ju \in Seq(Edit), x \in Layer :
               FollowsAt(c, s, jc, ju, x)
        BY <4>1, <4>2 DEF Attached
      <4>4. jc = <<>> /\ x = Blank /\ s.current \in Seq(Edit) BY <4>3 DEF FollowsAt, EditState
      <4>5. history[c].current = s.current
        <5>1. history[c].current = jc \o s.current BY <4>3 DEF FollowsAt, Shows
        <5>. QED BY <4>4, <5>1, ConcatEmptySeq
      <4>6. layer[c][a] = x[a] + Drawn(s.current, a) BY <4>3 DEF FollowsAt, Shows
      <4>7. x[a] = 0 BY <4>4 DEF Blank
      <4>. QED BY <2>2, <4>5, <4>6, <4>7
    <3>. QED BY <3>2, <3>3
  <2>. QED BY <2>3, <2>4
<1>. QED BY <1>1, <1>2, <1>3, PTL DEF Spec
=============================================================================
