---------------------------- MODULE CanvasProofs ----------------------------
(***************************************************************************)
(* The page on which one user draws keeps canvas, history, selection and   *)
(* room in step.                                                           *)
(***************************************************************************)
EXTENDS Canvas, FiniteSetTheorems, NaturalsInduction, WellFoundedInduction, SequenceTheorems, TLAPS

----------------------------------------------------------------------------
(* Induction on numbers, stated with sets so that it can be cited.         *)

(* Every nonempty set of numbers has a least element.                      *)
LEMMA LeastNumber ==
  ASSUME NEW T \in SUBSET Nat, T # {}
  PROVE  \E m \in T : \A n \in T : m <= n
<1> DEFINE R == {ss \in Nat \X Nat : ss[1] < ss[2]}
<1>1. IsWellFoundedOn(R, Nat)
  BY NatLessThanWellFounded, Zenon DEF OpToRel
<1>2. PICK x \in T : \A y \in T : ~ (<<y, x>> \in R)
  <2> HIDE DEF R
  <2>. QED BY <1>1, WFMin, Zenon
<1>3. \A y \in T : x <= y
  <2> TAKE y \in T
  <2>1. ~ (<<y, x>> \in R) BY <1>2
  <2>2. x \in Nat /\ y \in Nat OBVIOUS
  <2>. QED BY <2>1, <2>2
<1>. QED BY <1>3

(* Induction up to N.                                                      *)
LEMMA InductionUpTo ==
  ASSUME NEW N \in Nat, NEW T, 0 \in T,
         \A i \in 1..N : i - 1 \in T => i \in T
  PROVE  \A i \in 0..N : i \in T
<1> DEFINE B == {i \in 0..N : i \notin T}
<1> SUFFICES ASSUME B # {} PROVE FALSE
  OBVIOUS
<1>1. B \in SUBSET Nat OBVIOUS
<1>2. PICK m \in B : \A n \in B : m <= n
  <2> HIDE DEF B
  <2>. QED BY <1>1, LeastNumber
<1>3. m \in 1..N /\ m - 1 \in 0..N
  OBVIOUS
<1>4. m - 1 \notin B
  BY <1>2, <1>3
<1>. QED BY <1>3, <1>4
----------------------------------------------------------------------------
(* Layers.                                                                 *)

(* A layer is a function from some shapes to attributes.                   *)
LEMMA LayerIs ==
  ASSUME NEW l \in Layers
  PROVE  /\ On(l) \subseteq Shape /\ l = [s \in On(l) |-> l[s]]
         /\ \A s \in On(l) : l[s] \in Attrs
BY DEF Layers, On

(* A function from shapes to attributes is a layer.                        *)
LEMMA MakeLayer ==
  ASSUME NEW X \in SUBSET Shape, NEW l \in [X -> Attrs]
  PROVE  l \in Layers /\ On(l) = X
BY DEF Layers, On

(* The empty layer.                                                        *)
LEMMA NothingLayer == Nothing \in Layers /\ On(Nothing) = {}
<1>1. Nothing \in [{} -> Attrs] BY DEF Nothing
<1>. QED BY <1>1, MakeLayer

(* Layers with the same shapes and attributes are the same.                *)
LEMMA SameLayer ==
  ASSUME NEW l \in Layers, NEW m \in Layers, On(l) = On(m), \A s \in On(l) : l[s] = m[s]
  PROVE  l = m
BY LayerIs

(* A layer without shapes is the empty one.                                *)
LEMMA EmptyLayer ==
  ASSUME NEW l \in Layers, On(l) = {}
  PROVE  l = Nothing
BY SameLayer, NothingLayer

(* Some of the shapes of a layer, as they are.                             *)
LEMMA RestrictIs ==
  ASSUME NEW l \in Layers, NEW X \in SUBSET On(l)
  PROVE  /\ Restrict(l, X) \in Layers /\ On(Restrict(l, X)) = X
         /\ \A s \in X : Restrict(l, X)[s] = l[s]
<1>1. X \in SUBSET Shape /\ \A s \in X : l[s] \in Attrs BY LayerIs
<1>2. Restrict(l, X) \in [X -> Attrs] BY <1>1 DEF Restrict
<1>3. \A s \in X : Restrict(l, X)[s] = l[s] BY DEF Restrict
<1>. QED BY <1>1, <1>2, <1>3, MakeLayer

(* None of the shapes of a layer.                                          *)
LEMMA RestrictNone == \A l : Restrict(l, {}) = Nothing
BY DEF Restrict, Nothing

(* What an edit makes of a layer.                                          *)
LEMMA PutIs ==
  ASSUME NEW l \in Layers, NEW from \in Layers, NEW to \in Layers
  PROVE  /\ Put(l, from, to) \in Layers
         /\ On(Put(l, from, to)) = (On(l) \ On(from)) \cup On(to)
         /\ \A s \in On(Put(l, from, to)) :
              Put(l, from, to)[s] = IF s \in On(to) THEN to[s] ELSE l[s]
<1> DEFINE X == (On(l) \ On(from)) \cup On(to)
<1>1. X \in SUBSET Shape BY LayerIs
<1>2. \A s \in X : (IF s \in On(to) THEN to[s] ELSE l[s]) \in Attrs BY LayerIs
<1>3. Put(l, from, to) \in [X -> Attrs] BY <1>2 DEF Put
<1>4. \A s \in X : Put(l, from, to)[s] = IF s \in On(to) THEN to[s] ELSE l[s] BY DEF Put
<1> HIDE DEF X
<1>5. Put(l, from, to) \in Layers /\ On(Put(l, from, to)) = X BY <1>1, <1>3, MakeLayer
<1>. QED BY <1>4, <1>5 DEF X

(* Shapes that are moved are on what they were on.                         *)
LEMMA MovedIs ==
  ASSUME NEW l \in Layers
  PROVE  /\ Moved(l) \in Layers /\ On(Moved(l)) = On(l)
         /\ \A s \in On(l) : Moved(l)[s].on = l[s].on
<1>1. \A s \in On(l) : l[s] \in [at : 1..2, on : SUBSET Shape] BY LayerIs DEF Attrs
<1>2. \A s \in On(l) : [l[s] EXCEPT !.at = 3 - @] \in [at : 1..2, on : SUBSET Shape] BY <1>1
<1>3. Moved(l) \in [On(l) -> Attrs] BY <1>2 DEF Moved, Attrs
<1>4. \A s \in On(l) : Moved(l)[s].on = l[s].on BY <1>1 DEF Moved
<1>5. On(l) \in SUBSET Shape BY LayerIs
<1>. QED BY <1>3, <1>4, <1>5, MakeLayer

(* A shape alone, as it is drawn at first.                                 *)
LEMMA AloneIs ==
  ASSUME NEW s \in Shape
  PROVE  /\ [x \in {s} |-> [at |-> 1, on |-> {}]] \in Layers
         /\ On([x \in {s} |-> [at |-> 1, on |-> {}]]) = {s}
         /\ [x \in {s} |-> [at |-> 1, on |-> {}]][s] = [at |-> 1, on |-> {}]
<1>1. [x \in {s} |-> [at |-> 1, on |-> {}]] \in [{s} -> Attrs] BY DEF Attrs
<1>. QED BY <1>1, MakeLayer

----------------------------------------------------------------------------
(* Edits and lists of edits.                                               *)

(* The parts of an edit.                                                   *)
LEMMA EditIs ==
  ASSUME NEW e \in Edit
  PROVE  e.id \in Nat /\ e.from \in Layers /\ e.to \in Layers
BY DEF Edit

(* The elements of a sequence are finitely many.                           *)
LEMMA RangeFinite ==
  ASSUME NEW S, NEW q \in Seq(S)
  PROVE  IsFiniteSet(Range(q)) /\ Range(q) \subseteq S
<1>1. DOMAIN q = 1 .. Len(q) /\ Len(q) \in Nat OBVIOUS
<1>2. q \in [1 .. Len(q) -> Range(q)] BY <1>1 DEF Range
<1>3. \A x \in Range(q) : \E i \in 1 .. Len(q) : q[i] = x BY <1>1 DEF Range
<1>4. q \in Surjection(1 .. Len(q), Range(q)) BY <1>2, <1>3 DEF Surjection
<1>5. IsFiniteSet(1 .. Len(q)) BY <1>1, FS_Interval
<1>6. IsFiniteSet(Range(q)) BY <1>4, <1>5, FS_Surjection
<1>. QED BY <1>1, <1>6 DEF Range

(* So are their ids.                                                       *)
LEMMA IdsFinite ==
  ASSUME NEW X \in SUBSET Edit, IsFiniteSet(X)
  PROVE  IsFiniteSet({e.id : e \in X}) /\ {e.id : e \in X} \subseteq Nat
<1> DEFINE I == {e.id : e \in X}
           f == [e \in X |-> e.id]
<1>1. f \in [X -> I] OBVIOUS
<1>2. \A i \in I : \E e \in X : f[e] = i OBVIOUS
<1>3. f \in Surjection(X, I) BY <1>1, <1>2 DEF Surjection
<1>4. \A i \in I : i \in Nat BY EditIs
<1> HIDE DEF f, I
<1>5. IsFiniteSet(I) BY <1>3, FS_Surjection
<1>. QED BY <1>4, <1>5 DEF I

(* Finitely many numbers leave one free.                                   *)
LEMMA FreeNumber ==
  ASSUME NEW X \in SUBSET Nat, IsFiniteSet(X)
  PROVE  \E n \in 0 .. Cardinality(X) : n \notin X
<1>1. Cardinality(X) \in Nat BY FS_CardinalityType
<1>2. SUFFICES ASSUME 0 .. Cardinality(X) \in SUBSET X PROVE FALSE OBVIOUS
<1>3. Cardinality(0 .. Cardinality(X)) <= Cardinality(X) BY <1>2, FS_Subset
<1>4. Cardinality(0 .. Cardinality(X)) = Cardinality(X) + 1 BY <1>1, FS_Interval
<1>. QED BY <1>1, <1>3, <1>4

Lists == /\ current \in Seq(Edit) /\ undone \in Seq(Edit)
         /\ room.current \in Seq(Edit) /\ room.undone \in Seq(Edit)
Held == Range(current) \cup Range(undone) \cup Range(room.current) \cup Range(room.undone)

(* A new edit is an edit, and in no list.                                  *)
LEMMA NewEditIs ==
  ASSUME Lists, NEW from \in Layers, NEW to \in Layers
  PROVE  /\ NewEdit(from, to) \in Edit /\ NewEdit(from, to) \notin Held
         /\ NewEdit(from, to).from = from /\ NewEdit(from, to).to = to
<1> DEFINE I == {e.id : e \in Held}
           n == CHOOSE k \in 0 .. Cardinality(I) : k \notin I
<1>1. IsFiniteSet(Held) /\ Held \subseteq Edit
  <2>1. /\ IsFiniteSet(Range(current)) /\ IsFiniteSet(Range(undone))
        /\ IsFiniteSet(Range(room.current)) /\ IsFiniteSet(Range(room.undone))
        /\ Range(current) \subseteq Edit /\ Range(undone) \subseteq Edit
        /\ Range(room.current) \subseteq Edit /\ Range(room.undone) \subseteq Edit
    BY RangeFinite DEF Lists
  <2>2. IsFiniteSet(Range(current) \cup Range(undone)) BY <2>1, FS_Union
  <2>3. IsFiniteSet(Range(current) \cup Range(undone) \cup Range(room.current))
    BY <2>1, <2>2, FS_Union
  <2>4. IsFiniteSet(Held) BY <2>1, <2>3, FS_Union DEF Held
  <2>. QED BY <2>1, <2>4 DEF Held
<1>2. IsFiniteSet(I) /\ I \subseteq Nat BY <1>1, IdsFinite
<1>3. NewEdit(from, to) = [id |-> n, from |-> from, to |-> to] BY DEF NewEdit, Held
<1>4. n \in 0 .. Cardinality(I) /\ n \notin I
  <2> HIDE DEF I
  <2>. QED BY <1>2, FreeNumber
<1>5. Cardinality(I) \in Nat
  <2> HIDE DEF I
  <2>. QED BY <1>2, FS_CardinalityType
<1>6. n \in Nat BY <1>4, <1>5
<1> HIDE DEF n
<1>7. NewEdit(from, to) \in Edit BY <1>3, <1>6 DEF Edit
<1>8. NewEdit(from, to).id = n BY <1>3
<1>9. NewEdit(from, to) \notin Held BY <1>4, <1>8
<1>. QED BY <1>3, <1>7, <1>9

(* A list that loses or gains an edit.                                     *)
LEMMA ListGrows ==
  ASSUME NEW q \in Seq(Edit), NEW e \in Edit
  PROVE  /\ Append(q, e) \in Seq(Edit) /\ Append(q, e) # <<>>
         /\ Range(Append(q, e)) = Range(q) \cup {e}
<1>1. Append(q, e) \in Seq(Edit) /\ Len(Append(q, e)) = Len(q) + 1 /\ Len(q) \in Nat OBVIOUS
<1>2. \A i \in 1 .. Len(q) : Append(q, e)[i] = q[i] OBVIOUS
<1>3. Append(q, e)[Len(q) + 1] = e OBVIOUS
<1>4. DOMAIN Append(q, e) = 1 .. Len(q) + 1 /\ DOMAIN q = 1 .. Len(q) BY <1>1
<1>5. Range(Append(q, e)) = Range(q) \cup {e}
  <2>1. ASSUME NEW x \in Range(Append(q, e)) PROVE x \in Range(q) \cup {e}
    <3>1. PICK i \in 1 .. Len(q) + 1 : Append(q, e)[i] = x BY <1>4 DEF Range
    <3>2. CASE i = Len(q) + 1 BY <1>3, <3>1, <3>2
    <3>3. CASE i \in 1 .. Len(q) BY <1>2, <1>4, <3>1, <3>3 DEF Range
    <3>. QED BY <1>1, <3>2, <3>3
  <2>2. ASSUME NEW x \in Range(q) PROVE x \in Range(Append(q, e))
    <3>1. PICK i \in 1 .. Len(q) : q[i] = x BY <1>4 DEF Range
    <3>2. i \in 1 .. Len(q) + 1 BY <1>1
    <3>. QED BY <1>2, <1>4, <3>1, <3>2 DEF Range
  <2>3. e \in Range(Append(q, e))
    <3>1. Len(q) + 1 \in 1 .. Len(q) + 1 BY <1>1
    <3>. QED BY <1>3, <1>4, <3>1 DEF Range
  <2>. QED BY <2>1, <2>2, <2>3
<1>6. Append(q, e) # <<>> BY <1>1
<1>. QED BY <1>1, <1>5, <1>6

(* The last edit of a list, and the list without it.                       *)
LEMMA LastIs ==
  ASSUME NEW q \in Seq(Edit), q # <<>>
  PROVE  /\ q[Len(q)] \in Edit /\ q[Len(q)] \in Range(q)
         /\ Front(q) \in Seq(Edit) /\ Len(Front(q)) = Len(q) - 1
         /\ \A i \in 1 .. Len(q) - 1 : Front(q)[i] = q[i]
         /\ Range(Front(q)) \subseteq Range(q)
         /\ q = Append(Front(q), q[Len(q)])
<1>1. Len(q) \in Nat /\ Len(q) >= 1 /\ DOMAIN q = 1 .. Len(q) OBVIOUS
<1>2. q[Len(q)] \in Edit /\ q[Len(q)] \in Range(q) BY <1>1 DEF Range
<1>3. /\ Front(q) \in Seq(Edit) /\ Len(Front(q)) = Len(q) - 1
      /\ \A i \in 1 .. Len(q) - 1 : Front(q)[i] = q[i]
  BY <1>1 DEF Front
<1>4. Range(Front(q)) \subseteq Range(q)
  <2>1. DOMAIN Front(q) = 1 .. Len(q) - 1 BY <1>3
  <2>. QED BY <1>1, <1>3, <2>1 DEF Range
<1>5. q = Append(Front(q), q[Len(q)])
  <2> DEFINE f == Front(q)
             r == Append(f, q[Len(q)])
  <2>0. f \in Seq(Edit) /\ Len(f) = Len(q) - 1 /\ \A i \in 1 .. Len(q) - 1 : f[i] = q[i] BY <1>3
  <2> HIDE DEF f
  <2>a. /\ r \in Seq(Edit) /\ Len(r) = Len(f) + 1
        /\ \A i \in 1 .. Len(f) : r[i] = f[i]
        /\ r[Len(f) + 1] = q[Len(q)]
    BY <1>2, <2>0, AppendProperties
  <2>b. Len(f) + 1 = Len(q) BY <1>1, <2>0
  <2> HIDE DEF r
  <2>1. r \in Seq(Edit) /\ Len(r) = Len(q) BY <2>a, <2>b
  <2>2. \A i \in 1 .. Len(q) - 1 : r[i] = q[i] BY <2>a, <2>0
  <2>3. r[Len(q)] = q[Len(q)] BY <2>a, <2>b
  <2>4. \A i \in 1 .. Len(q) : r[i] = q[i] BY <1>1, <2>2, <2>3
  <2>5. q = r BY <2>1, <2>4
  <2>. QED BY <2>5 DEF r, f
<1>. QED BY <1>2, <1>3, <1>4, <1>5

(* One element is taken out.                                               *)
LEMMA RemoveAtIs ==
  ASSUME NEW S, NEW q \in Seq(S), NEW k \in 1 .. Len(q)
  PROVE  /\ RemoveAt(q, k) \in Seq(S) /\ Len(RemoveAt(q, k)) = Len(q) - 1
         /\ \A i \in 1 .. Len(q) - 1 : RemoveAt(q, k)[i] = IF i < k THEN q[i] ELSE q[i + 1]
<1> DEFINE a == SubSeq(q, 1, k - 1)
           b == SubSeq(q, k + 1, Len(q))
<1>1. k \in Nat /\ Len(q) \in Nat /\ k >= 1 /\ k <= Len(q) OBVIOUS
<1>2. a \in Seq(S) /\ Len(a) = k - 1 /\ \A i \in 1 .. k - 1 : a[i] = q[i] BY <1>1
<1>3. b \in Seq(S) /\ Len(b) = Len(q) - k /\ \A i \in 1 .. Len(q) - k : b[i] = q[k + i]
  <2>1. \A i \in 1 .. Len(q) - k : k + 1 + i - 1 = k + i BY <1>1
  <2>2. \A i \in k + 1 .. Len(q) : q[i] \in S BY <1>1
  <2>3. /\ b \in Seq(S) /\ Len(b) = IF k + 1 <= Len(q) THEN Len(q) - (k + 1) + 1 ELSE 0
        /\ \A i \in 1 .. Len(q) - (k + 1) + 1 : b[i] = q[k + 1 + i - 1]
    BY <1>1, <2>2, SubSeqProperties
  <2>4. Len(q) - (k + 1) + 1 = Len(q) - k BY <1>1
  <2> HIDE DEF b
  <2>5. Len(b) = Len(q) - k
    <3>1. CASE k + 1 <= Len(q) BY <2>3, <2>4, <3>1
    <3>2. CASE ~(k + 1 <= Len(q))
      <4>1. Len(b) = 0 BY <2>3, <3>2
      <4>2. Len(q) - k = 0 BY <1>1, <3>2
      <4>. QED BY <4>1, <4>2
    <3>. QED BY <3>1, <3>2
  <2>6. \A i \in 1 .. Len(q) - k : b[i] = q[k + i]
    <3> TAKE i \in 1 .. Len(q) - k
    <3>1. b[i] = q[k + 1 + i - 1] BY <2>3, <2>4
    <3>. QED BY <2>1, <3>1
  <2>. QED BY <2>3, <2>5, <2>6
<1>4. RemoveAt(q, k) = a \o b BY DEF RemoveAt
<1> HIDE DEF a, b
<1>5. /\ a \o b \in Seq(S) /\ Len(a \o b) = Len(a) + Len(b)
      /\ \A i \in 1 .. Len(a) + Len(b) : (a \o b)[i] = IF i <= Len(a) THEN a[i] ELSE b[i - Len(a)]
  BY <1>2, <1>3, ConcatProperties
<1>6. Len(a) + Len(b) = Len(q) - 1 BY <1>1, <1>2, <1>3
<1>7. \A i \in 1 .. Len(q) - 1 : (a \o b)[i] = IF i < k THEN q[i] ELSE q[i + 1]
  <2> TAKE i \in 1 .. Len(q) - 1
  <2>0. (a \o b)[i] = IF i <= Len(a) THEN a[i] ELSE b[i - Len(a)] BY <1>5, <1>6
  <2>1. CASE i < k
    <3>1. i <= Len(a) /\ i \in 1 .. k - 1 BY <1>1, <1>2, <2>1
    <3>. QED BY <1>2, <2>0, <2>1, <3>1
  <2>2. CASE ~(i < k)
    <3>1. ~(i <= Len(a)) BY <1>1, <1>2, <2>2
    <3>2. i - Len(a) \in 1 .. Len(q) - k BY <1>1, <1>2, <2>2
    <3>3. b[i - Len(a)] = q[k + (i - Len(a))] BY <1>3, <3>2
    <3>4. k + (i - Len(a)) = i + 1 BY <1>1, <1>2
    <3>. QED BY <2>0, <2>2, <3>1, <3>3, <3>4
  <2>. QED BY <2>1, <2>2
<1>. QED BY <1>4, <1>5, <1>6, <1>7

(* What is removed from a list adds nothing to it.                         *)
LEMMA RemoveAtRange ==
  ASSUME NEW S, NEW q \in Seq(S), NEW k \in 1 .. Len(q)
  PROVE  Range(RemoveAt(q, k)) \subseteq Range(q)
<1>1. DOMAIN q = 1 .. Len(q) /\ Len(q) \in Nat OBVIOUS
<1>2. DOMAIN RemoveAt(q, k) = 1 .. Len(q) - 1 BY <1>1, RemoveAtIs
<1>3. ASSUME NEW i \in 1 .. Len(q) - 1 PROVE RemoveAt(q, k)[i] \in Range(q)
  <2>1. RemoveAt(q, k)[i] = IF i < k THEN q[i] ELSE q[i + 1] BY RemoveAtIs
  <2>2. i \in 1 .. Len(q) /\ i + 1 \in 1 .. Len(q) BY <1>1
  <2>. QED BY <1>1, <2>1, <2>2 DEF Range
<1>. QED BY <1>2, <1>3 DEF Range

----------------------------------------------------------------------------
(* The last occurrence of an edit.                                         *)

(* The last place of an edit in a list that holds it.                      *)
LEMMA LastOfIs ==
  ASSUME NEW q \in Seq(Edit), NEW e, Has(e, q)
  PROVE  /\ LastOf(e, q) \in 1 .. Len(q) /\ q[LastOf(e, q)] = e
         /\ q[Len(q)] = e => LastOf(e, q) = Len(q)
<1>1. DOMAIN q = 1 .. Len(q) /\ Len(q) \in Nat OBVIOUS
<1> DEFINE B == {k \in 0 .. Len(q) : Len(q) - k \in 1 .. Len(q) /\ q[Len(q) - k] = e}
<1>2. PICK j \in 1 .. Len(q) : q[j] = e BY <1>1 DEF Has, Range
<1>3. Len(q) - j \in B
  <2>1. Len(q) - (Len(q) - j) = j /\ Len(q) - j \in 0 .. Len(q) BY <1>1
  <2>. QED BY <1>2, <2>1
<1>4. PICK m \in B : \A n \in B : m <= n
  <2>1. B \in SUBSET Nat OBVIOUS
  <2> HIDE DEF B
  <2>. QED BY <1>3, <2>1, LeastNumber
<1>5. \A i \in Len(q) - m + 1 .. Len(q) : q[i] # e
  <2> SUFFICES ASSUME NEW i \in Len(q) - m + 1 .. Len(q), q[i] = e PROVE FALSE OBVIOUS
  <2>1. m \in 0 .. Len(q) BY <1>4
  <2>2. i \in 1 .. Len(q) /\ Len(q) - (Len(q) - i) = i /\ Len(q) - i \in 0 .. Len(q) /\ Len(q) - i < m
    BY <1>1, <2>1
  <2>3. Len(q) - i \in B BY <2>2
  <2>4. m <= Len(q) - i BY <1>4, <2>3
  <2>. QED BY <1>1, <2>1, <2>2, <2>4
<1>6. Len(q) - m \in DOMAIN q /\ q[Len(q) - m] = e BY <1>1, <1>4
<1>7. \E i \in DOMAIN q : q[i] = e /\ \A j2 \in i + 1 .. Len(q) : q[j2] # e BY <1>5, <1>6
<1>8. LastOf(e, q) \in DOMAIN q /\ q[LastOf(e, q)] = e /\ \A j2 \in LastOf(e, q) + 1 .. Len(q) : q[j2] # e
  BY <1>7, Zenon DEF LastOf
<1>9. q[Len(q)] = e => LastOf(e, q) = Len(q) BY <1>1, <1>8
<1>. QED BY <1>1, <1>8, <1>9

(* Of two lists, what the room makes of a message.                         *)
Lists2 == [current : Seq(Edit), undone : Seq(Edit)]

(* The room takes an edit.                                                 *)
LEMMA PushIs ==
  ASSUME NEW r \in Lists2, NEW e \in Edit
  PROVE  /\ Push(r, e) \in Lists2
         /\ Push(r, e).current = Append(r.current, e) /\ Push(r, e).undone = r.undone
<1>1. /\ r.current \in Seq(Edit) /\ r.undone \in Seq(Edit)
      /\ r = [current |-> r.current, undone |-> r.undone]
  BY DEF Lists2
<1> DEFINE q == Append(r.current, e)
<1>a. Push(r, e) = [r EXCEPT !.current = q] BY DEF Push
<1> HIDE DEF q
<1>b. Push(r, e) = [current |-> q, undone |-> r.undone] BY <1>1, <1>a
<1>2. Push(r, e) = [current |-> Append(r.current, e), undone |-> r.undone] BY <1>b DEF q
<1>3. Append(r.current, e) \in Seq(Edit) BY <1>1
<1>. QED BY <1>1, <1>2, <1>3 DEF Lists2

(* The room forgets the undone edits.                                      *)
LEMMA EmptyUndoneIs ==
  ASSUME NEW r \in Lists2
  PROVE  /\ EmptyUndone(r) \in Lists2
         /\ EmptyUndone(r).current = r.current /\ EmptyUndone(r).undone = <<>>
<1>1. /\ r.current \in Seq(Edit) /\ r.undone \in Seq(Edit)
      /\ r = [current |-> r.current, undone |-> r.undone]
  BY DEF Lists2
<1>2. EmptyUndone(r) = [current |-> r.current, undone |-> <<>>] BY <1>1 DEF EmptyUndone
<1>3. <<>> \in Seq(Edit) OBVIOUS
<1>. QED BY <1>1, <1>2, <1>3 DEF Lists2

(* A list loses an edit, its last one if it is that.                       *)
LEMMA WithoutIs ==
  ASSUME NEW q \in Seq(Edit), NEW e, Has(e, q)
  PROVE  /\ Without(e, q) \in Seq(Edit) /\ Range(Without(e, q)) \subseteq Range(q)
         /\ q[Len(q)] = e => Without(e, q) = Front(q)
<1>1. LastOf(e, q) \in 1 .. Len(q) BY LastOfIs
<1>2. Without(e, q) \in Seq(Edit) /\ Range(Without(e, q)) \subseteq Range(q)
  BY <1>1, RemoveAtIs, RemoveAtRange DEF Without
<1>3. ASSUME q[Len(q)] = e PROVE Without(e, q) = Front(q)
  <2> DEFINE r == RemoveAt(q, Len(q))
  <2>1. LastOf(e, q) = Len(q) BY <1>3, LastOfIs
  <2>2. Len(q) \in Nat /\ Len(q) \in 1 .. Len(q) /\ q # <<>> BY <1>1
  <2>3. /\ r \in Seq(Edit) /\ Len(r) = Len(q) - 1
        /\ \A i \in 1 .. Len(q) - 1 : r[i] = IF i < Len(q) THEN q[i] ELSE q[i + 1]
    BY <2>2, RemoveAtIs
  <2>4. \A i \in 1 .. Len(q) - 1 : r[i] = q[i] BY <2>2, <2>3
  <2>5. /\ Front(q) \in Seq(Edit) /\ Len(Front(q)) = Len(q) - 1
        /\ \A i \in 1 .. Len(q) - 1 : Front(q)[i] = q[i]
    BY <2>2, LastIs
  <2>6. Without(e, q) = r BY <2>1 DEF Without
  <2> HIDE DEF r
  <2>7. r = Front(q) BY <2>3, <2>4, <2>5
  <2>. QED BY <2>6, <2>7
<1>. QED BY <1>2, <1>3

(* The room undoes or redoes an edit, if it has it.                        *)
LEMMA RoomCommandIs ==
  ASSUME NEW r \in Lists2, NEW e \in Edit
  PROVE  /\ UndoIn(r, e) \in Lists2 /\ RedoIn(r, e) \in Lists2
         /\ Range(UndoIn(r, e).current) \subseteq Range(r.current)
         /\ Range(UndoIn(r, e).undone) \subseteq Range(r.undone) \cup {e}
         /\ Range(RedoIn(r, e).current) \subseteq Range(r.current) \cup {e}
         /\ Range(RedoIn(r, e).undone) \subseteq Range(r.undone)
<1>1. r.current \in Seq(Edit) /\ r.undone \in Seq(Edit) BY DEF Lists2
<1>2. /\ UndoIn(r, e) \in Lists2
      /\ Range(UndoIn(r, e).current) \subseteq Range(r.current)
      /\ Range(UndoIn(r, e).undone) \subseteq Range(r.undone) \cup {e}
  <2>1. CASE Has(e, r.current)
    <3>1. UndoIn(r, e) = [current |-> Without(e, r.current), undone |-> Append(r.undone, e)]
      BY <2>1 DEF UndoIn
    <3>. QED BY <1>1, <2>1, <3>1, WithoutIs, ListGrows DEF Lists2
  <2>2. CASE ~Has(e, r.current) BY <2>2 DEF UndoIn
  <2>. QED BY <2>1, <2>2
<1>3. /\ RedoIn(r, e) \in Lists2
      /\ Range(RedoIn(r, e).current) \subseteq Range(r.current) \cup {e}
      /\ Range(RedoIn(r, e).undone) \subseteq Range(r.undone)
  <2>1. CASE Has(e, r.undone)
    <3>1. RedoIn(r, e) = [current |-> Append(r.current, e), undone |-> Without(e, r.undone)]
      BY <2>1 DEF RedoIn
    <3>. QED BY <1>1, <2>1, <3>1, WithoutIs, ListGrows DEF Lists2
  <2>2. CASE ~Has(e, r.undone) BY <2>2 DEF RedoIn
  <2>. QED BY <2>1, <2>2
<1>. QED BY <1>2, <1>3

----------------------------------------------------------------------------
(* Replaying a list.                                                       *)

Drawing(f, q) ==
  /\ f \in [0 .. Len(q) -> Layers] /\ f[0] = Nothing
  /\ \A i \in 1 .. Len(q) : f[i] = Put(f[i - 1], q[i].from, q[i].to)

(* The layers a replay goes through.                                       *)
LEMMA ReplayStates ==
  ASSUME NEW q \in Seq(Edit)
  PROVE  \E f : Drawing(f, q) /\ f[Len(q)] = Replay(q)
<1>0. Len(q) \in Nat /\ \A i \in 1 .. Len(q) : q[i].from \in Layers /\ q[i].to \in Layers BY EditIs
<1> DEFINE Good(n) == \E f \in [0 .. n -> Layers] :
              f[0] = Nothing /\ \A i \in 1 .. n : f[i] = Put(f[i - 1], q[i].from, q[i].to)
           T == {n \in 0 .. Len(q) : Good(n)}
<1>1. 0 \in T
  <2> DEFINE g == [i \in 0 .. 0 |-> Nothing]
  <2>1. g \in [0 .. 0 -> Layers] /\ g[0] = Nothing BY NothingLayer
  <2> HIDE DEF g
  <2>2. Good(0) BY <2>1
  <2>. QED BY <1>0, <2>2
<1>2. ASSUME NEW n \in 1 .. Len(q), n - 1 \in T PROVE n \in T
  <2>1. PICK f \in [0 .. n - 1 -> Layers] :
          f[0] = Nothing /\ \A i \in 1 .. n - 1 : f[i] = Put(f[i - 1], q[i].from, q[i].to)
    BY <1>2
  <2> DEFINE w == Put(f[n - 1], q[n].from, q[n].to)
             g == [i \in 0 .. n |-> IF i = n THEN w ELSE f[i]]
  <2>2. w \in Layers
    <3>1. f[n - 1] \in Layers BY <1>0
    <3>. QED BY <1>0, <3>1, PutIs
  <2>3. g[n] = w /\ g[n - 1] = f[n - 1] BY <1>0
  <2>4. g[n] = Put(g[n - 1], q[n].from, q[n].to) BY <2>3
  <2> HIDE DEF w
  <2>5. g \in [0 .. n -> Layers] BY <1>0, <2>2
  <2>6. g[0] = Nothing BY <1>0, <2>1
  <2>7. ASSUME NEW i \in 1 .. n - 1 PROVE g[i] = Put(g[i - 1], q[i].from, q[i].to)
    <3>1. g[i] = f[i] /\ g[i - 1] = f[i - 1] BY <1>0
    <3>. QED BY <2>1, <3>1
  <2> HIDE DEF g
  <2>8. \A i \in 1 .. n : g[i] = Put(g[i - 1], q[i].from, q[i].to)
    <3> TAKE i \in 1 .. n
    <3>1. i = n \/ i \in 1 .. n - 1 BY <1>0
    <3>. QED BY <2>4, <2>7, <3>1
  <2>9. Good(n) BY <2>5, <2>6, <2>8
  <2>10. n \in 0 .. Len(q) BY <1>0
  <2> HIDE DEF Good
  <2>. QED BY <2>9, <2>10
<1>3. Len(q) \in T
  <2> HIDE DEF T
  <2>1. \A i \in 0 .. Len(q) : i \in T BY <1>0, <1>1, <1>2, InductionUpTo
  <2>. QED BY <1>0, <2>1
<1>4. PICK h \in [0 .. Len(q) -> Layers] :
        h[0] = Nothing /\ \A i \in 1 .. Len(q) : h[i] = Put(h[i - 1], q[i].from, q[i].to)
  BY <1>3
<1> DEFINE Body(g) == [i \in 0 .. Len(q) |->
              IF i = 0 THEN Nothing ELSE Put(g[i - 1], q[i].from, q[i].to)]
           f == CHOOSE g : g = Body(g)
<1>5. h = Body(h) BY <1>0, <1>4
<1>6. f = Body(f) BY <1>5
<1>7. Replay(q) = f[Len(q)] BY DEF Replay
<1> HIDE DEF f
<1>8. f[0] = Nothing /\ \A i \in 1 .. Len(q) : f[i] = Put(f[i - 1], q[i].from, q[i].to)
  BY <1>0, <1>6
<1>9. \A i \in 0 .. Len(q) : f[i] \in Layers
  <2> DEFINE U == {n \in 0 .. Len(q) : f[n] \in Layers}
  <2>1. 0 \in U BY <1>0, <1>8, NothingLayer
  <2>2. ASSUME NEW i \in 1 .. Len(q), i - 1 \in U PROVE i \in U
    <3>1. f[i - 1] \in Layers BY <2>2
    <3>2. f[i] \in Layers BY <1>0, <1>8, <3>1, PutIs
    <3>. QED BY <3>2
  <2> HIDE DEF U
  <2>3. \A i \in 0 .. Len(q) : i \in U BY <1>0, <2>1, <2>2, InductionUpTo
  <2>. QED BY <2>3 DEF U
<1>10. f \in [0 .. Len(q) -> Layers] BY <1>6, <1>9
<1>. QED BY <1>7, <1>8, <1>10 DEF Drawing

Mentions(e, s) == s \in On(e.from) \cup On(e.to)

(* A replay has shapes that an edit mentions.                              *)
LEMMA ReplayIs ==
  ASSUME NEW q \in Seq(Edit)
  PROVE  /\ Replay(q) \in Layers
         /\ \A s \in On(Replay(q)) : \E e \in Range(q) : Mentions(e, s)
<1>1. PICK f : Drawing(f, q) /\ f[Len(q)] = Replay(q) BY ReplayStates
<1>2. Len(q) \in Nat /\ DOMAIN q = 1 .. Len(q) OBVIOUS
<1> DEFINE U == {n \in 0 .. Len(q) : \A s \in On(f[n]) : \E e \in Range(q) : Mentions(e, s)}
<1>3. 0 \in U BY <1>1, <1>2, NothingLayer DEF Drawing
<1>4. ASSUME NEW i \in 1 .. Len(q), i - 1 \in U PROVE i \in U
  <2>1. f[i - 1] \in Layers /\ q[i] \in Edit /\ q[i] \in Range(q) BY <1>1, <1>2 DEF Drawing, Range
  <2>2. On(f[i]) = (On(f[i - 1]) \ On(q[i].from)) \cup On(q[i].to)
    BY <1>1, <2>1, EditIs, PutIs DEF Drawing
  <2>3. \A s \in On(f[i]) : \E e \in Range(q) : Mentions(e, s) BY <1>4, <2>1, <2>2 DEF Mentions
  <2>. QED BY <2>3
<1>5. Len(q) \in U
  <2> HIDE DEF U
  <2>1. \A i \in 0 .. Len(q) : i \in U BY <1>2, <1>3, <1>4, InductionUpTo
  <2>. QED BY <1>2, <2>1
<1>6. f[Len(q)] \in Layers BY <1>1, <1>2 DEF Drawing
<1>. QED BY <1>1, <1>5, <1>6

----------------------------------------------------------------------------
(* What is selected, what waits in a group, and which shapes no edit knows.*)

Selected ==
  /\ nodes \subseteq On(layer)
  /\ nodes # {} => /\ undone = <<>>
                   /\ selection = Restrict(layer, nodes) \/ (selection = Nothing /\ "late" \in odd)
  /\ nodes = {} /\ "cleared" \notin odd => selection = Nothing
  /\ drawing \notin nodes

Groups ==
  /\ Grouped \subseteq On(layer) /\ drawing \notin Grouped
  /\ InFlight => nodes \subseteq Grouped
  /\ \A i \in DOMAIN jobs : ~jobs[i].group => jobs[i].shapes = {}
  /\ \A i, j \in DOMAIN jobs : i # j => jobs[i].shapes \cap jobs[j].shapes = {}

Named == {s \in Shape : \E e \in Held : Mentions(e, s)}
Unnamed ==
  /\ drawing \notin Named \cup loading \cup On(selection)
  /\ loading \cap (Named \cup On(layer) \cup On(selection)) = {}

Kept == TypeOK /\ Selected /\ Groups /\ Unnamed

(* The type of the state, in parts.                                        *)
LEMMA TypeFacts ==
  ASSUME TypeOK
  PROVE  /\ Lists /\ room \in Lists2
         /\ layer \in Layers /\ selection \in Layers
         /\ nodes \subseteq Shape /\ loading \subseteq Shape /\ drawing \in Shape \cup {None}
BY DEF TypeOK, Lists, Lists2

(* A fresh shape is nowhere.                                               *)
LEMMA FreshIs ==
  ASSUME TypeOK, NEW s \in Fresh
  PROVE  /\ s \in Shape /\ s \notin On(layer) /\ s # drawing /\ s \notin loading
         /\ s \notin On(selection) /\ s \notin Named
<1>1. s \in Shape /\ s \notin On(layer) \cup {drawing} \cup loading \cup On(selection) BY DEF Fresh
<1>2. /\ s \notin Mentioned(current) /\ s \notin Mentioned(undone)
      /\ s \notin Mentioned(room.current) /\ s \notin Mentioned(room.undone)
  BY DEF Fresh
<1>3. s \notin Named BY <1>2 DEF Named, Held, Mentioned, Mentions
<1>. QED BY <1>1, <1>3

(* The room holds what it held, or what it is sent.                        *)
LEMMA SendIs ==
  ASSUME NEW r \in Lists2, room \in Lists2, Send(r)
  PROVE  room' \in Lists2 /\ (room' = r \/ room' = room)
BY DEF Send

(* Shapes that new edits know were known, or are among X.                  *)
LEMMA NamedGrows ==
  ASSUME NEW X, \A e \in Held' : e \in Held \/ \A s \in Shape : Mentions(e, s) => s \in X
  PROVE  Named' \subseteq Named \cup X
BY DEF Named

(* The selection that is emptied.                                          *)
LEMMA DestroyIs ==
  ASSUME TypeOK, Selected, Destroy, odd \ {"cut", "selected", "emptied"} \subseteq odd'
  PROVE  /\ nodes' = {} /\ selection' \in Layers /\ On(selection') \subseteq On(selection)
         /\ "cleared" \notin odd' => selection' = Nothing
<1>1. layer \in Layers /\ selection \in Layers BY TypeFacts
<1>2. nodes = {} /\ "cleared" \notin odd => selection = Nothing BY DEF Selected
<1>. QED BY <1>1, <1>2, NothingLayer DEF Destroy

(* A selection that is empty is what the Transformer shows.                *)
LEMMA NoneSelected ==
  ASSUME nodes' = {}, drawing' \in Shape \cup {None}, "cleared" \notin odd' => selection' = Nothing
  PROVE  Selected'
BY DEF Selected

(* Groups that stay as they are.                                           *)
LEMMA GroupsStay ==
  ASSUME Groups, jobs' = jobs, Grouped \subseteq On(layer'), drawing' \notin Grouped,
         InFlight => nodes' \subseteq Grouped
  PROVE  Groups'
BY DEF Groups, Grouped, InFlight

(* Groups that are gone hold nothing.                                      *)
LEMMA NoGroups ==
  ASSUME Groups, ~InFlight
  PROVE  Found = On(layer) /\ \A i \in DOMAIN jobs : jobs[i].shapes = {}
<1>1. \A i \in DOMAIN jobs : jobs[i].shapes = {} BY DEF Groups, InFlight
<1>2. Grouped = {} BY <1>1 DEF Grouped
<1>. QED BY <1>1, <1>2 DEF Found

(* What can be deleted is what the Transformer shows.                      *)
LEMMA SelectionIs ==
  ASSUME Selected, "cleared" \notin odd, On(selection) # {}
  PROVE  selection = Restrict(layer, nodes) /\ nodes \subseteq On(layer) /\ nodes # {}
BY NothingLayer DEF Selected

(* What an edit does to the canvas, if it throws as well.                  *)
LEMMA ChangeIs ==
  ASSUME TypeOK, Groups, NEW from \in Layers, NEW to \in Layers, Change(from, to)
  PROVE  /\ layer' \in Layers /\ Grouped \subseteq On(layer')
         /\ On(layer') \subseteq On(layer) \cup On(to)
         /\ Throws(from) => \A s \in Grouped : layer'[s] = layer[s]
<1>1. layer \in Layers BY TypeFacts
<1>2. CASE On(from) \subseteq Found
  <2>1. layer' = Put(layer, from, to) BY <1>2 DEF Change
  <2>. QED BY <1>1, <1>2, <2>1, PutIs DEF Found, Groups, Throws
<1>3. CASE ~(On(from) \subseteq Found)
  <2>1. PICK done \in SUBSET (On(from) \cap Found) :
          layer' = Put(layer, Restrict(from, done), Restrict(to, done \cap On(to)))
    BY <1>3 DEF Change
  <2>2. Restrict(from, done) \in Layers /\ On(Restrict(from, done)) = done BY RestrictIs
  <2>3. /\ Restrict(to, done \cap On(to)) \in Layers
        /\ On(Restrict(to, done \cap On(to))) = done \cap On(to)
    BY RestrictIs
  <2> DEFINE f == Restrict(from, done)
             g == Restrict(to, done \cap On(to))
  <2>4. f \in Layers /\ g \in Layers /\ On(f) = done /\ On(g) = done \cap On(to) /\ layer' = Put(layer, f, g)
    BY <2>1, <2>2, <2>3
  <2> HIDE DEF f, g
  <2>5. /\ layer' \in Layers /\ On(layer') = (On(layer) \ On(f)) \cup On(g)
        /\ \A s \in On(layer') : layer'[s] = IF s \in On(g) THEN g[s] ELSE layer[s]
    BY <1>1, <2>4, PutIs
  <2>. QED BY <2>4, <2>5 DEF Found, Groups
<1>. QED BY <1>2, <1>3

----------------------------------------------------------------------------
(* Every action keeps them.                                                *)

(* At first nothing is there.                                              *)
LEMMA InitKept == ASSUME CanvasAssumption, Init PROVE Kept
<1>1. layer = Nothing /\ selection = Nothing /\ nodes = {} /\ jobs = <<>> /\ drawing = None
  BY DEF Init
<1>2. TypeOK
  <2>1. Nothing \in Layers /\ <<>> \in Seq(Edit) BY NothingLayer
  <2>. QED BY <2>1 DEF Init, TypeOK
<1>3. Restrict(Nothing, {}) = Nothing BY NothingLayer, RestrictIs, EmptyLayer
<1>4. Selected BY <1>1, <1>3 DEF Selected
<1>5. Groups BY <1>1 DEF Groups, Grouped
<1>6. Unnamed BY <1>1, NothingLayer DEF Unnamed, Named, Init, CanvasAssumption
<1>. QED BY <1>2, <1>4, <1>5, <1>6 DEF Kept

(* A line is begun: its shape was nowhere before.                          *)
LEMMA MouseDownKept ==
  ASSUME CanvasAssumption, Kept, NEW s \in Shape, MouseDown(s)
  PROVE  Kept'
<1> DEFINE one == [x \in {s} |-> [at |-> 1, on |-> {}]]
<1>0. TypeOK /\ Selected /\ Groups /\ Unnamed BY DEF Kept
<1>1. /\ s \in Fresh /\ undone' = <<>> /\ Destroy /\ layer' = Put(layer, Nothing, one)
      /\ drawing' = s /\ room' \in {room, EmptyUndone(room)}
      /\ odd \subseteq odd' /\ odd' \subseteq Reason
      /\ UNCHANGED <<mode, current, loading, jobs>>
  BY <1>0 DEF MouseDown, Send, Blame, If, TypeOK, Reason
<1>2. one \in Layers /\ On(one) = {s} BY AloneIs
<1> HIDE DEF one
<1>3. layer' \in Layers /\ On(layer') = On(layer) \cup {s}
  BY <1>0, <1>1, <1>2, TypeFacts, NothingLayer, PutIs
<1>4. /\ s \notin On(layer) /\ s # drawing /\ s \notin loading
      /\ s \notin On(selection) /\ s \notin Named
  BY <1>0, <1>1, FreshIs
<1>5. /\ nodes' = {} /\ selection' \in Layers /\ On(selection') \subseteq On(selection)
      /\ "cleared" \notin odd' => selection' = Nothing
  BY <1>0, <1>1, DestroyIs
<1>6. /\ room' \in Lists2 /\ room'.current = room.current
      /\ room'.undone \in {room.undone, <<>>}
  BY <1>0, <1>1, TypeFacts, EmptyUndoneIs DEF Lists2
<1>7. TypeOK' BY <1>0, <1>1, <1>3, <1>5, <1>6 DEF TypeOK, Lists2
<1>8. Selected' BY <1>1, <1>3, <1>5, NoneSelected
<1>9. Groups'
  <2>1. Grouped \subseteq On(layer') /\ drawing' \notin Grouped BY <1>0, <1>1, <1>3, <1>4 DEF Groups
  <2>. QED BY <1>0, <1>1, <1>5, <2>1, GroupsStay
<1>10. Unnamed'
  <2>1. Held' \subseteq Held BY <1>1, <1>6 DEF Held, Range
  <2>2. Named' \subseteq Named BY <2>1 DEF Named
  <2>. QED BY <1>0, <1>1, <1>3, <1>4, <1>5, <2>2 DEF Unnamed
<1>. QED BY <1>7, <1>8, <1>9, <1>10 DEF Kept

(* The eraser passes over a shape.                                         *)
LEMMA MouseMoveKept ==
  ASSUME CanvasAssumption, Kept, NEW t \in Shape, MouseMove(t)
  PROVE  Kept'
<1>0. TypeOK /\ Selected /\ Groups /\ Unnamed BY DEF Kept
<1>1. /\ drawing \in On(layer) /\ t \in On(layer)
      /\ layer' = [layer EXCEPT ![drawing].on = @ \cup {t}]
      /\ odd \subseteq odd' /\ odd' \subseteq Reason
      /\ UNCHANGED <<mode, current, undone, nodes, selection, drawing, loading, jobs, room>>
  BY <1>0 DEF MouseMove, Found, Blame, If, history, TypeOK, Reason
<1>2. layer \in Layers BY <1>0, TypeFacts
<1>3. On(layer') = On(layer) /\ layer' \in Layers
  <2>1. layer[drawing] \in [at : 1..2, on : SUBSET Shape] BY <1>1, <1>2, LayerIs DEF Attrs
  <2>2. [layer[drawing] EXCEPT !.on = @ \cup {t}] \in Attrs BY <2>1 DEF Attrs
  <2>3. On(layer) \in SUBSET Shape /\ layer \in [On(layer) -> Attrs] BY <1>2, LayerIs
  <2>4. layer' \in [On(layer) -> Attrs] BY <1>1, <2>2, <2>3
  <2>. QED BY <2>3, <2>4, MakeLayer
<1>4. Restrict(layer', nodes) = Restrict(layer, nodes)
  <2>1. \A x \in nodes : layer'[x] = layer[x] BY <1>0, <1>1, <1>2, LayerIs DEF Selected, On
  <2>. QED BY <2>1 DEF Restrict
<1>5. TypeOK' BY <1>0, <1>1, <1>3 DEF TypeOK
<1>6. Selected' BY <1>0, <1>1, <1>3, <1>4 DEF Selected
<1>7. Groups' BY <1>0, <1>1, <1>3, GroupsStay DEF Groups
<1>8. Unnamed'
  <2>1. Named' = Named BY <1>1 DEF Named, Held
  <2>. QED BY <1>0, <1>1, <1>3, <2>1 DEF Unnamed
<1>. QED BY <1>5, <1>6, <1>7, <1>8 DEF Kept

(* One more edit, here and in the room.                                    *)
LEMMA AppendIs ==
  ASSUME TypeOK, NEW e \in Edit, current' = Append(current, e), undone' = undone,
         room' \in {room, Push(room, e), Push(EmptyUndone(room), e)}
  PROVE  /\ current' \in Seq(Edit) /\ room' \in Lists2
         /\ Held' \subseteq Held \cup {e} /\ e \in Held'
<1>1. current \in Seq(Edit) /\ room \in Lists2 BY TypeFacts DEF Lists
<1>2. current' \in Seq(Edit) /\ Range(current') = Range(current) \cup {e} BY <1>1, ListGrows
<1>3. /\ room' \in Lists2 /\ room'.current \in {room.current, Append(room.current, e)}
      /\ room'.undone \in {room.undone, <<>>}
  <2> DEFINE r == EmptyUndone(room)
  <2>1. r \in Lists2 /\ r.current = room.current /\ r.undone = <<>> BY <1>1, EmptyUndoneIs
  <2> HIDE DEF r
  <2>2. \A q \in Lists2 : /\ Push(q, e) \in Lists2 /\ Push(q, e).current = Append(q.current, e)
                         /\ Push(q, e).undone = q.undone
    BY PushIs
  <2>3. room' \in {room, Push(room, e), Push(r, e)} BY DEF r
  <2>. QED BY <1>1, <2>1, <2>2, <2>3
<1>4. Range(room'.current) \subseteq Range(room.current) \cup {e}
  BY <1>1, <1>3, ListGrows DEF Lists2
<1>5. Range(room'.undone) \subseteq Range(room.undone) BY <1>3 DEF Range
<1>6. Held' \subseteq Held \cup {e} /\ e \in Held' BY <1>2, <1>4, <1>5 DEF Held
<1>. QED BY <1>2, <1>3, <1>6

(* A line is finished: an edit knows it now.                               *)
LEMMA MouseUpKept ==
  ASSUME CanvasAssumption, Kept, MouseUpLeave
  PROVE  Kept'
<1> DEFINE one == Restrict(layer, {drawing})
           e == NewEdit(Nothing, one)
<1>0. TypeOK /\ Selected /\ Groups /\ Unnamed BY DEF Kept
<1>a. None \notin Shape /\ nodes \subseteq Shape /\ loading \subseteq Shape /\ On(layer) \subseteq Shape
      /\ On(selection) \subseteq Shape
  BY <1>0, TypeFacts, LayerIs DEF CanvasAssumption
<1>b. /\ odd \subseteq odd' /\ odd' \subseteq Reason
      /\ drawing' = None /\ UNCHANGED <<mode, layer, undone, nodes, selection, loading, jobs>>
  BY <1>0 DEF MouseUpLeave, Blame, If, TypeOK, Reason
<1>c. CASE UNCHANGED <<current, room>>
  <2>1. TypeOK' BY <1>0, <1>b, <1>c DEF TypeOK
  <2>2. Selected' BY <1>0, <1>a, <1>b DEF Selected
  <2>3. Groups' BY <1>0, <1>a, <1>b, GroupsStay DEF Groups
  <2>4. Named' = Named /\ Named \subseteq Shape BY <1>b, <1>c DEF Named, Held
  <2>5. Unnamed' BY <1>0, <1>a, <1>b, <2>4 DEF Unnamed
  <2>. QED BY <2>1, <2>2, <2>3, <2>5 DEF Kept
<1> SUFFICES ASSUME ~UNCHANGED <<current, room>> PROVE Kept'
  BY <1>c
<1>1. /\ drawing \in On(layer) /\ drawing' = None
      /\ current' = Append(current, e) /\ room' \in {room, Push(room, e)}
      /\ UNCHANGED <<mode, layer, undone, nodes, selection, loading, jobs, odd>>
  BY DEF MouseUpLeave, Found, Send
<1>2. one \in Layers /\ On(one) = {drawing} BY <1>0, <1>1, TypeFacts, RestrictIs
<1> HIDE DEF one
<1>3. e \in Edit /\ e.from = Nothing /\ e.to = one
  BY <1>0, <1>2, TypeFacts, NothingLayer, NewEditIs
<1> HIDE DEF e
<1>4. current' \in Seq(Edit) /\ room' \in Lists2 /\ Held' \subseteq Held \cup {e}
  BY <1>0, <1>1, <1>3, AppendIs
<1>5. TypeOK' BY <1>0, <1>1, <1>4 DEF TypeOK, Lists2
<1>6. None \notin Shape /\ nodes \subseteq Shape /\ loading \subseteq Shape /\ On(layer) \subseteq Shape
      /\ On(selection) \subseteq Shape
  BY <1>0, TypeFacts, LayerIs DEF CanvasAssumption
<1>7. Selected' BY <1>0, <1>1, <1>6 DEF Selected
<1>8. Groups' BY <1>0, <1>1, <1>6, GroupsStay DEF Groups
<1>9. Unnamed'
  <2>1. \A s \in Shape : Mentions(e, s) => s \in {drawing} BY <1>2, <1>3, NothingLayer DEF Mentions
  <2>2. Named' \subseteq Named \cup {drawing} BY <1>4, <2>1, NamedGrows
  <2>3. Named' \subseteq Shape BY DEF Named
  <2>. QED BY <1>0, <1>1, <1>6, <2>2, <2>3 DEF Unnamed
<1>. QED BY <1>5, <1>7, <1>8, <1>9 DEF Kept

(* A new selection.                                                        *)
LEMMA CreateKept ==
  ASSUME CanvasAssumption, Kept, NEW X \in SUBSET On(layer), drawing \notin X, ~InFlight, Create(X),
         UNCHANGED <<mode, layer, current, drawing, loading, jobs, room>>
  PROVE  Kept'
<1>0. TypeOK /\ Selected /\ Groups /\ Unnamed BY DEF Kept
<1>1. /\ nodes' = X /\ selection' = Restrict(layer, X) /\ undone' = <<>>
      /\ odd \subseteq odd' /\ odd' \subseteq Reason
  BY <1>0 DEF Create, Blame, If, TypeOK, Reason
<1>2. selection' \in Layers /\ On(selection') = X /\ X \subseteq Shape
  BY <1>0, <1>1, TypeFacts, RestrictIs, LayerIs
<1>3. TypeOK' BY <1>0, <1>1, <1>2 DEF TypeOK
<1>4. Selected' BY <1>0, <1>1, <1>2, EmptyLayer DEF Selected
<1>5. Groups' BY <1>0, GroupsStay DEF Groups
<1>6. Unnamed'
  <2>1. Held' \subseteq Held BY <1>1 DEF Held, Range
  <2>2. Named' \subseteq Named BY <2>1 DEF Named
  <2>. QED BY <1>0, <1>2, <2>2 DEF Unnamed
<1>. QED BY <1>3, <1>4, <1>5, <1>6 DEF Kept

(* The selection is emptied.                                               *)
LEMMA DestroyKept ==
  ASSUME CanvasAssumption, Kept, Destroy,
         UNCHANGED <<mode, layer, current, undone, drawing, loading, jobs, room, odd>>
  PROVE  Kept'
<1>0. TypeOK /\ Selected /\ Groups /\ Unnamed BY DEF Kept
<1>1. /\ nodes' = {} /\ selection' \in Layers /\ On(selection') \subseteq On(selection)
      /\ "cleared" \notin odd' => selection' = Nothing
  BY <1>0, DestroyIs
<1>2. TypeOK' BY <1>0, <1>1 DEF TypeOK
<1>3. Selected' BY <1>0, <1>1, NoneSelected, TypeFacts
<1>4. Groups' BY <1>0, <1>1, GroupsStay DEF Groups
<1>5. Named' = Named BY DEF Named, Held
<1>6. Unnamed' BY <1>0, <1>1, <1>5 DEF Unnamed
<1>. QED BY <1>2, <1>3, <1>4, <1>6 DEF Kept

(* Shapes are selected, by a click or with a rectangle.                    *)
LEMMA SelectKept ==
  ASSUME CanvasAssumption, Kept,
         (\E s \in Shape : SelectShape(s)) \/ \E X \in SUBSET On(layer) : SelectBox(X)
  PROVE  Kept'
<1>0. On(layer) \subseteq Shape /\ None \notin Shape
  BY TypeFacts, LayerIs DEF Kept, CanvasAssumption
<1>1. CASE InFlight
  BY <1>1, DestroyKept DEF SelectShape, SelectBox
<1>2. CASE \E s \in Shape : SelectShape(s) /\ ~InFlight
  <2>1. PICK s \in Shape : SelectShape(s) /\ ~InFlight BY <1>2
  <2> DEFINE X == {s} \cup Erasing({s})
  <2>2. X \in SUBSET On(layer) /\ drawing \notin X BY <1>0, <2>1 DEF SelectShape, Erasing, NotPressed
  <2>3. ~InFlight /\ Create(X) /\ UNCHANGED <<mode, layer, current, drawing, loading, jobs, room>>
    BY <2>1 DEF SelectShape
  <2> HIDE DEF X
  <2>. QED BY <2>2, <2>3, CreateKept
<1>3. CASE \E X \in SUBSET On(layer) : SelectBox(X) /\ ~InFlight
  <2>1. PICK X \in SUBSET On(layer) : SelectBox(X) /\ ~InFlight BY <1>3
  <2>2. CASE X = {} BY <2>1, <2>2, DestroyKept DEF SelectBox
  <2>3. CASE X # {}
    <3> DEFINE Y == X \cup Erasing(X)
    <3>1. Y \in SUBSET On(layer) /\ drawing \notin Y BY <1>0, <2>1 DEF SelectBox, Erasing, NotPressed
    <3>2. ~InFlight /\ Create(Y) /\ UNCHANGED <<mode, layer, current, drawing, loading, jobs, room>>
      BY <2>1, <2>3 DEF SelectBox
    <3> HIDE DEF Y
    <3>. QED BY <3>1, <3>2, CreateKept
  <2>. QED BY <2>2, <2>3
<1>. QED BY <1>1, <1>2, <1>3

(* The selected shapes are moved: the store is told of it.                 *)
LEMMA DragKept ==
  ASSUME CanvasAssumption, Kept, Drag
  PROVE  Kept'
<1> DEFINE from == Restrict(layer, nodes)
           e == NewEdit(from, Moved(from))
<1>0. TypeOK /\ Selected /\ Groups /\ Unnamed BY DEF Kept
<1>1. /\ nodes # {} /\ layer' = Put(layer, e.from, e.to) /\ selection' = e.to
      /\ current' = Append(current, e) /\ room' \in {room, Push(EmptyUndone(room), e)}
      /\ UNCHANGED <<mode, undone, nodes, drawing, loading, jobs, odd>>
  BY DEF Drag, Send
<1>2. layer \in Layers /\ nodes \subseteq On(layer) /\ undone = <<>> BY <1>0, <1>1, TypeFacts DEF Selected
<1>3. from \in Layers /\ On(from) = nodes BY <1>2, RestrictIs
<1> HIDE DEF from
<1>4. Moved(from) \in Layers /\ On(Moved(from)) = nodes BY <1>3, MovedIs
<1>5. e \in Edit /\ e.from = from /\ e.to = Moved(from) BY <1>0, <1>3, <1>4, TypeFacts, NewEditIs
<1> HIDE DEF e
<1>6. current' \in Seq(Edit) /\ room' \in Lists2 /\ Held' \subseteq Held \cup {e}
  BY <1>0, <1>1, <1>5, AppendIs
<1>7. /\ layer' \in Layers /\ On(layer') = On(layer)
      /\ \A s \in nodes : layer'[s] = e.to[s]
  <2>1. e.from \in Layers /\ e.to \in Layers /\ On(e.from) = nodes /\ On(e.to) = nodes
    BY <1>3, <1>4, <1>5
  <2>2. /\ layer' \in Layers /\ On(layer') = (On(layer) \ On(e.from)) \cup On(e.to)
        /\ \A s \in On(layer') : layer'[s] = IF s \in On(e.to) THEN e.to[s] ELSE layer[s]
    BY <1>1, <1>2, <2>1, PutIs
  <2>. QED BY <1>2, <2>1, <2>2
<1>8. TypeOK' BY <1>0, <1>1, <1>4, <1>5, <1>6, <1>7 DEF TypeOK, Lists2
<1>9. Selected'
  <2> DEFINE r == Restrict(layer', nodes)
  <2>1. r \in Layers /\ On(r) = nodes /\ \A s \in nodes : r[s] = layer'[s] BY <1>2, <1>7, RestrictIs
  <2> HIDE DEF r
  <2>2. e.to = r BY <1>4, <1>5, <1>7, <2>1, SameLayer
  <2>3. selection' = Restrict(layer', nodes') BY <1>1, <2>2 DEF r
  <2>. QED BY <1>0, <1>1, <1>2, <1>7, <2>3 DEF Selected
<1>10. Groups' BY <1>0, <1>1, <1>7, GroupsStay DEF Groups
<1>11. Unnamed'
  <2>1. \A s \in Shape : Mentions(e, s) => s \in nodes BY <1>3, <1>4, <1>5 DEF Mentions
  <2>2. Named' \subseteq Named \cup nodes BY <1>6, <2>1, NamedGrows
  <2>. QED BY <1>0, <1>1, <1>2, <1>4, <1>5, <1>7, <2>2 DEF Unnamed, Selected
<1>. QED BY <1>8, <1>9, <1>10, <1>11 DEF Kept

(* Undo and redo: what the edit that is taken knows.                       *)
LEMMA CommandKept ==
  ASSUME CanvasAssumption, Kept, Destroy, Blame(Early), NEW e \in Held, NEW from, NEW to,
         {from, to} \subseteq {e.from, e.to}, e \in Edit, Change(from, to),
         current' \in Seq(Edit), undone' \in Seq(Edit), room' \in Lists2, Held' \subseteq Held,
         UNCHANGED <<mode, drawing, loading, jobs>>
  PROVE  Kept'
<1>0. TypeOK /\ Selected /\ Groups /\ Unnamed BY DEF Kept
<1>1. from \in Layers /\ to \in Layers BY EditIs
<1>2. On(to) \subseteq Named
  <2>1. On(to) \subseteq Shape BY <1>1, LayerIs
  <2>2. \A s \in On(to) : Mentions(e, s) BY DEF Mentions
  <2>. QED BY <2>1, <2>2 DEF Named
<1>3. /\ layer' \in Layers /\ Grouped \subseteq On(layer')
      /\ On(layer') \subseteq On(layer) \cup On(to)
  BY <1>0, <1>1, ChangeIs
<1>4. odd \subseteq odd' /\ odd' \subseteq Reason BY <1>0 DEF Blame, Early, If, TypeOK, Reason
<1>5. /\ nodes' = {} /\ selection' \in Layers /\ On(selection') \subseteq On(selection)
      /\ "cleared" \notin odd' => selection' = Nothing
  BY <1>0, <1>4, DestroyIs
<1>6. TypeOK' BY <1>0, <1>3, <1>4, <1>5 DEF TypeOK, Lists2
<1>7. Selected' BY <1>3, <1>5, <1>6, NoneSelected DEF TypeOK
<1>8. Groups' BY <1>0, <1>3, <1>5, GroupsStay DEF Groups
<1>9. Unnamed'
  <2>1. Named' \subseteq Named BY DEF Named
  <2>. QED BY <1>0, <1>2, <1>3, <1>5, <2>1 DEF Unnamed
<1>. QED BY <1>6, <1>7, <1>8, <1>9 DEF Kept

(* The last edit is undone, here and in the room.                          *)
LEMMA UndoKept ==
  ASSUME CanvasAssumption, Kept, Undo
  PROVE  Kept'
<1> DEFINE e == current[Len(current)]
<1>0. TypeOK /\ current \in Seq(Edit) /\ undone \in Seq(Edit) /\ room \in Lists2 /\ current # <<>>
  BY TypeFacts DEF Kept, Lists, Undo
<1>1. e \in Edit /\ e \in Range(current) BY <1>0, LastIs
<1>2. /\ Destroy /\ Blame(Early) /\ Change(e.to, e.from)
      /\ UNCHANGED <<mode, drawing, loading, jobs>>
      /\ \/ UNCHANGED <<current, undone, room>>
         \/ /\ current' = Front(current) /\ undone' = Append(undone, e)
            /\ room' \in {room, UndoIn(room, e)}
  BY DEF Undo, Send, history
<1> HIDE DEF e
<1>3. e \in Held BY <1>1 DEF Held
<1>4. current' \in Seq(Edit) /\ undone' \in Seq(Edit) /\ room' \in Lists2 /\ Held' \subseteq Held
  <2>1. CASE UNCHANGED <<current, undone, room>> BY <1>0, <2>1 DEF Held
  <2>2. CASE /\ current' = Front(current) /\ undone' = Append(undone, e)
             /\ room' \in {room, UndoIn(room, e)}
    <3>1. current' \in Seq(Edit) /\ Range(current') \subseteq Range(current) BY <1>0, <2>2, LastIs
    <3>2. undone' \in Seq(Edit) /\ Range(undone') = Range(undone) \cup {e} BY <1>0, <1>1, <2>2, ListGrows
    <3>3. /\ room' \in Lists2 /\ Range(room'.current) \subseteq Range(room.current)
          /\ Range(room'.undone) \subseteq Range(room.undone) \cup {e}
      <4> DEFINE r == UndoIn(room, e)
      <4>1. /\ r \in Lists2 /\ Range(r.current) \subseteq Range(room.current)
            /\ Range(r.undone) \subseteq Range(room.undone) \cup {e}
        BY <1>0, <1>1, RoomCommandIs
      <4>2. room' = room \/ room' = r BY <2>2
      <4> HIDE DEF r
      <4>. QED BY <1>0, <4>1, <4>2
    <3>. QED BY <1>1, <3>1, <3>2, <3>3 DEF Held
  <2>. QED BY <1>2, <2>1, <2>2
<1>. QED BY <1>1, <1>2, <1>3, <1>4, CommandKept

(* The last undone edit is redone, here and in the room.                   *)
LEMMA RedoKept ==
  ASSUME CanvasAssumption, Kept, Redo
  PROVE  Kept'
<1> DEFINE e == undone[Len(undone)]
<1>0. TypeOK /\ current \in Seq(Edit) /\ undone \in Seq(Edit) /\ room \in Lists2 /\ undone # <<>>
  BY TypeFacts DEF Kept, Lists, Redo
<1>1. e \in Edit /\ e \in Range(undone) BY <1>0, LastIs
<1>2. /\ Destroy /\ Blame(Early) /\ Change(e.from, e.to)
      /\ UNCHANGED <<mode, drawing, loading, jobs>>
      /\ \/ UNCHANGED <<current, undone, room>>
         \/ /\ undone' = Front(undone) /\ current' = Append(current, e)
            /\ room' \in {room, RedoIn(room, e)}
  BY DEF Redo, Send, history
<1> HIDE DEF e
<1>3. e \in Held BY <1>1 DEF Held
<1>4. current' \in Seq(Edit) /\ undone' \in Seq(Edit) /\ room' \in Lists2 /\ Held' \subseteq Held
  <2>1. CASE UNCHANGED <<current, undone, room>> BY <1>0, <2>1 DEF Held
  <2>2. CASE /\ undone' = Front(undone) /\ current' = Append(current, e)
             /\ room' \in {room, RedoIn(room, e)}
    <3>1. undone' \in Seq(Edit) /\ Range(undone') \subseteq Range(undone) BY <1>0, <2>2, LastIs
    <3>2. current' \in Seq(Edit) /\ Range(current') = Range(current) \cup {e} BY <1>0, <1>1, <2>2, ListGrows
    <3>3. /\ room' \in Lists2 /\ Range(room'.current) \subseteq Range(room.current) \cup {e}
          /\ Range(room'.undone) \subseteq Range(room.undone)
      <4> DEFINE r == RedoIn(room, e)
      <4>1. /\ r \in Lists2 /\ Range(r.current) \subseteq Range(room.current) \cup {e}
            /\ Range(r.undone) \subseteq Range(room.undone)
        BY <1>0, <1>1, RoomCommandIs
      <4>2. room' = room \/ room' = r BY <2>2
      <4> HIDE DEF r
      <4>. QED BY <1>0, <4>1, <4>2
    <3>. QED BY <1>1, <3>1, <3>2, <3>3 DEF Held
  <2>. QED BY <1>2, <2>1, <2>2
<1>. QED BY <1>1, <1>2, <1>3, <1>4, CommandKept

(* A deletion that throws leaves what is selected: it waits in a group.    *)
LEMMA DeleteKept ==
  ASSUME CanvasAssumption, Kept, Delete
  PROVE  Kept'
<1> DEFINE e == NewEdit(selection, Nothing)
<1>0. TypeOK /\ Selected /\ Groups /\ Unnamed BY DEF Kept
<1>1. /\ On(selection) # {} /\ Blame(Early) /\ Change(e.from, e.to)
      /\ IF Throws(e.from) THEN UNCHANGED <<current, undone, nodes, selection, room>>
         ELSE /\ current' = Append(current, e) /\ nodes' = {} /\ selection' = Nothing
              /\ room' \in {room, Push(room, e)} /\ undone' = undone
      /\ UNCHANGED <<mode, drawing, loading, jobs>>
  BY DEF Delete, Send, history
<1>2. selection \in Layers BY <1>0, TypeFacts
<1>3. e \in Edit /\ e.from = selection /\ e.to = Nothing
  BY <1>0, <1>2, TypeFacts, NothingLayer, NewEditIs
<1> HIDE DEF e
<1>4. /\ layer' \in Layers /\ Grouped \subseteq On(layer') /\ On(layer') \subseteq On(layer)
      /\ Throws(e.from) => \A s \in Grouped : layer'[s] = layer[s]
  BY <1>0, <1>1, <1>2, <1>3, NothingLayer, ChangeIs
<1>5. odd \subseteq odd' /\ odd' \subseteq Reason BY <1>0, <1>1 DEF Blame, Early, If, TypeOK, Reason
<1>6. CASE Throws(e.from)
  <2>1. UNCHANGED <<current, undone, nodes, selection, room>> BY <1>1, <1>6
  <2>2. nodes \subseteq Grouped
    <3>1. CASE InFlight BY <1>0, <3>1 DEF Groups
    <3>2. CASE ~InFlight /\ nodes # {}
      <4>1. Grouped = {} BY <1>0, <3>2 DEF Grouped, Groups, InFlight
      <4>2. On(selection) \subseteq On(layer)
        BY <1>0, <1>1, <3>2, TypeFacts, RestrictIs, NothingLayer DEF Selected
      <4>. QED BY <1>3, <1>6, <4>1, <4>2 DEF Throws, Found
    <3>. QED BY <3>1, <3>2
  <2>3. Restrict(layer', nodes) = Restrict(layer, nodes) BY <1>4, <1>6, <2>2 DEF Restrict
  <2>4. TypeOK' BY <1>0, <1>1, <1>4, <1>5, <2>1 DEF TypeOK
  <2>5. Selected' BY <1>0, <1>1, <1>4, <1>5, <2>1, <2>2, <2>3 DEF Selected
  <2>6. Groups' BY <1>0, <1>1, <1>4, <2>1, GroupsStay DEF Groups
  <2>7. Named' = Named BY <2>1 DEF Named, Held
  <2>8. Unnamed' BY <1>0, <1>1, <1>4, <2>1, <2>7 DEF Unnamed
  <2>. QED BY <2>4, <2>5, <2>6, <2>8 DEF Kept
<1>7. CASE ~Throws(e.from)
  <2>1. /\ current' = Append(current, e) /\ nodes' = {} /\ selection' = Nothing
        /\ room' \in {room, Push(room, e)} /\ undone' = undone
    BY <1>1, <1>7
  <2>2. current' \in Seq(Edit) /\ room' \in Lists2 /\ Held' \subseteq Held \cup {e}
    BY <1>0, <1>3, <2>1, AppendIs
  <2>3. TypeOK' BY <1>0, <1>1, <1>4, <1>5, <2>1, <2>2, NothingLayer DEF TypeOK, Lists2
  <2>4. Selected' BY <2>1, <2>3, NoneSelected DEF TypeOK
  <2>5. Groups' BY <1>0, <1>1, <1>4, <2>1, GroupsStay DEF Groups
  <2>6. \A s \in Shape : Mentions(e, s) => s \in On(selection) BY <1>3, NothingLayer DEF Mentions
  <2>7. Named' \subseteq Named \cup On(selection) BY <2>2, <2>6, NamedGrows
  <2>8. Unnamed' BY <1>0, <1>1, <1>4, <2>1, <2>7, NothingLayer DEF Unnamed
  <2>. QED BY <2>3, <2>4, <2>5, <2>8 DEF Kept
<1>. QED BY <1>6, <1>7

(* The jobs, when shapes leave their groups.                               *)
Job == [cut : BOOLEAN, group : BOOLEAN, shapes : SUBSET Shape]

(* Groups that lose the shapes X.                                          *)
LEMMA RegroupIs ==
  ASSUME NEW q \in Seq(Job), NEW X
  PROVE  LET r == [i \in DOMAIN q |-> [q[i] EXCEPT !.shapes = @ \ X]]
         IN r \in Seq(Job) /\ Len(r) = Len(q) /\ \A i \in 1 .. Len(q) : r[i].shapes = q[i].shapes \ X
<1> DEFINE r == [i \in DOMAIN q |-> [q[i] EXCEPT !.shapes = @ \ X]]
<1>1. Len(q) \in Nat /\ DOMAIN q = 1 .. Len(q) /\ \A i \in 1 .. Len(q) : q[i] \in Job OBVIOUS
<1>2. \A j \in Job : /\ [j EXCEPT !.shapes = @ \ X] \in Job
                     /\ [j EXCEPT !.shapes = @ \ X].shapes = j.shapes \ X
  BY DEF Job
<1>3. \A i \in 1 .. Len(q) : r[i] \in Job /\ r[i].shapes = q[i].shapes \ X BY <1>1, <1>2
<1>4. r = [i \in 1 .. Len(q) |-> r[i]] BY <1>1
<1> HIDE DEF r
<1>5. r \in Seq(Job) /\ Len(r) = Len(q) BY <1>1, <1>3, <1>4
<1>. QED BY <1>3, <1>5 DEF r

(* Groups that lose all their shapes.                                      *)
LEMMA UngroupIs ==
  ASSUME NEW q \in Seq(Job)
  PROVE  LET r == [i \in DOMAIN q |-> [q[i] EXCEPT !.group = FALSE, !.shapes = {}]]
         IN /\ r \in Seq(Job) /\ Len(r) = Len(q)
            /\ \A i \in 1 .. Len(q) : r[i].shapes = {} /\ ~r[i].group
<1> DEFINE r == [i \in DOMAIN q |-> [q[i] EXCEPT !.group = FALSE, !.shapes = {}]]
<1>1. Len(q) \in Nat /\ DOMAIN q = 1 .. Len(q) /\ \A i \in 1 .. Len(q) : q[i] \in Job OBVIOUS
<1>2. \A j \in Job : /\ [j EXCEPT !.group = FALSE, !.shapes = {}] \in Job
                     /\ [j EXCEPT !.group = FALSE, !.shapes = {}].shapes = {}
                     /\ ~[j EXCEPT !.group = FALSE, !.shapes = {}].group
  BY DEF Job
<1>3. \A i \in 1 .. Len(q) : r[i] \in Job /\ r[i].shapes = {} /\ ~r[i].group BY <1>1, <1>2
<1>4. r = [i \in 1 .. Len(q) |-> r[i]] BY <1>1
<1> HIDE DEF r
<1>5. r \in Seq(Job) /\ Len(r) = Len(q) BY <1>1, <1>3, <1>4
<1>. QED BY <1>3, <1>5 DEF r

(* The selected shapes move into a group of their own.                     *)
LEMMA CopyKept ==
  ASSUME CanvasAssumption, Kept, NEW cut \in BOOLEAN, Copy(cut)
  PROVE  Kept'
<1> DEFINE rest == [i \in DOMAIN jobs |-> [jobs[i] EXCEPT !.shapes = @ \ nodes]]
           job == [cut |-> cut, group |-> TRUE, shapes |-> nodes]
<1>0. TypeOK /\ Selected /\ Groups /\ Unnamed BY DEF Kept
<1>1. /\ nodes # {} /\ jobs' = Append(rest, job)
      /\ UNCHANGED <<mode, layer, current, undone, nodes, selection, drawing, loading, room>>
  BY DEF Copy, history
<1>2. odd \subseteq odd' /\ odd' \subseteq Reason BY <1>0 DEF Copy, Blame, Early, If, TypeOK, Reason
<1>3. jobs \in Seq(Job) /\ nodes \subseteq Shape /\ nodes \subseteq On(layer) /\ undone = <<>>
  BY <1>0, <1>1 DEF TypeOK, Job, Selected
<1>4. /\ rest \in Seq(Job) /\ Len(rest) = Len(jobs)
      /\ \A i \in 1 .. Len(jobs) : rest[i].shapes = jobs[i].shapes \ nodes /\ rest[i].group = jobs[i].group
  <2>1. /\ rest \in Seq(Job) /\ Len(rest) = Len(jobs)
        /\ \A i \in 1 .. Len(jobs) : rest[i].shapes = jobs[i].shapes \ nodes
    BY <1>3, RegroupIs
  <2>2. DOMAIN jobs = 1 .. Len(jobs) /\ \A i \in 1 .. Len(jobs) : jobs[i] \in Job BY <1>3
  <2>3. \A j \in Job : [j EXCEPT !.shapes = @ \ nodes].group = j.group BY DEF Job
  <2>4. \A i \in 1 .. Len(jobs) : rest[i].group = jobs[i].group BY <2>2, <2>3
  <2> HIDE DEF rest
  <2>. QED BY <2>1, <2>4
<1> HIDE DEF rest
<1>5. job \in Job /\ job.shapes = nodes /\ job.group BY <1>3 DEF Job
<1> HIDE DEF job
<1>6. Len(jobs) \in Nat /\ DOMAIN jobs = 1 .. Len(jobs) BY <1>3
<1>7. /\ jobs' \in Seq(Job) /\ DOMAIN jobs' = 1 .. Len(jobs) + 1
      /\ \A i \in 1 .. Len(jobs) : jobs'[i] = rest[i]
      /\ jobs'[Len(jobs) + 1] = job
  BY <1>1, <1>4, <1>5, AppendProperties
<1>8. /\ \A i \in 1 .. Len(jobs) : jobs'[i].shapes = jobs[i].shapes \ nodes /\ jobs'[i].group = jobs[i].group
      /\ jobs'[Len(jobs) + 1].shapes = nodes /\ jobs'[Len(jobs) + 1].group
  BY <1>4, <1>5, <1>7
<1>9. TypeOK' BY <1>0, <1>1, <1>2, <1>7 DEF TypeOK, Job
<1>10. Selected' BY <1>0, <1>1, <1>2 DEF Selected
<1>11. Groups'
  <2>1. \A i \in DOMAIN jobs' : jobs'[i].shapes \subseteq Grouped \cup nodes
    <3> TAKE i \in DOMAIN jobs'
    <3>1. i \in 1 .. Len(jobs) \/ i = Len(jobs) + 1 BY <1>6, <1>7
    <3>. QED BY <1>6, <1>8, <3>1 DEF Grouped
  <2>2. Len(jobs) + 1 \in DOMAIN jobs' BY <1>6, <1>7
  <2>3. nodes \subseteq Grouped' BY <1>8, <2>2 DEF Grouped
  <2>4. Grouped' \subseteq Grouped \cup nodes BY <2>1 DEF Grouped
  <2>5. Grouped' \subseteq On(layer') /\ drawing' \notin Grouped'
    BY <1>0, <1>1, <1>3, <2>4 DEF Groups, Selected
  <2>6. ASSUME NEW i \in DOMAIN jobs', NEW j \in DOMAIN jobs', i # j
        PROVE  jobs'[i].shapes \cap jobs'[j].shapes = {}
    <3>1. i \in 1 .. Len(jobs) \/ i = Len(jobs) + 1 BY <1>6, <1>7
    <3>2. j \in 1 .. Len(jobs) \/ j = Len(jobs) + 1 BY <1>6, <1>7
    <3>3. CASE i \in 1 .. Len(jobs) /\ j \in 1 .. Len(jobs)
      <4>1. jobs[i].shapes \cap jobs[j].shapes = {} BY <1>0, <1>6, <2>6, <3>3 DEF Groups
      <4>. QED BY <1>8, <3>3, <4>1
    <3>. QED BY <1>8, <2>6, <3>1, <3>2, <3>3
  <2>7. nodes' \subseteq Grouped' BY <1>1, <2>3
  <2>8. \A i, j \in DOMAIN jobs' : i # j => jobs'[i].shapes \cap jobs'[j].shapes = {} BY <2>6
  <2>9. ASSUME NEW i \in DOMAIN jobs', ~jobs'[i].group PROVE jobs'[i].shapes = {}
    <3>1. i \in 1 .. Len(jobs) \/ i = Len(jobs) + 1 BY <1>6, <1>7
    <3>. QED BY <1>0, <1>6, <1>8, <2>9, <3>1 DEF Groups
  <2>. QED BY <2>5, <2>7, <2>8, <2>9 DEF Groups
<1>12. Unnamed'
  <2>1. Named' = Named BY <1>1 DEF Named, Held
  <2>. QED BY <1>0, <1>1, <2>1 DEF Unnamed
<1>. QED BY <1>9, <1>10, <1>11, <1>12 DEF Kept

(* A group is destroyed; what was cut is known to an edit.                 *)
LEMMA CopiedKept ==
  ASSUME CanvasAssumption, Kept, NEW i \in DOMAIN jobs, Copied(i)
  PROVE  Kept'
<1> DEFINE X == jobs[i].shapes
           from == Restrict(layer, X)
           e == NewEdit(from, Nothing)
<1>0. TypeOK /\ Selected /\ Groups /\ Unnamed BY DEF Kept
<1>1. /\ jobs' = RemoveAt(jobs, i) /\ selection' = Nothing
      /\ nodes' = IF jobs[i].group THEN {} ELSE nodes
      /\ nodes' # {} => "late" \in odd'
      /\ \/ layer' = Put(layer, e.from, e.to) /\ current' = Append(current, e)
         \/ layer' = layer /\ current' = current
      /\ UNCHANGED <<mode, undone, drawing, loading, room>>
  BY DEF Copied, Blame, If
<1>a. ~jobs[i].group => X = {} BY <1>0 DEF Groups
<1>2. odd \subseteq odd' /\ odd' \subseteq Reason BY <1>0 DEF Copied, Blame, If, TypeOK, Reason
<1>3. layer \in Layers /\ jobs \in Seq(Job) BY <1>0, TypeFacts DEF TypeOK, Job
<1>4. DOMAIN jobs = 1 .. Len(jobs) /\ Len(jobs) \in Nat /\ i \in 1 .. Len(jobs) BY <1>3
<1>5. X \subseteq Grouped /\ X \subseteq On(layer) BY <1>0 DEF Groups, Grouped
<1>6. from \in Layers /\ On(from) = X BY <1>3, <1>5, RestrictIs
<1> HIDE DEF X, from
<1>7. e \in Edit /\ e.from = from /\ e.to = Nothing BY <1>0, <1>6, TypeFacts, NothingLayer, NewEditIs
<1> HIDE DEF e
<1>8. layer' \in Layers /\ On(layer) \ X \subseteq On(layer') /\ On(layer') \subseteq On(layer)
  BY <1>1, <1>3, <1>6, <1>7, NothingLayer, PutIs
<1>9. current' \in Seq(Edit) /\ Held' \subseteq Held \cup {e}
  <2>1. CASE current' = Append(current, e) BY <1>0, <1>1, <1>7, <2>1, AppendIs
  <2>2. CASE current' = current BY <1>0, <1>1, <2>2 DEF TypeOK, Held
  <2>. QED BY <1>1, <2>1, <2>2
<1>10. /\ jobs' \in Seq(Job) /\ DOMAIN jobs' = 1 .. Len(jobs) - 1
       /\ \A k \in 1 .. Len(jobs) - 1 : jobs'[k] = IF k < i THEN jobs[k] ELSE jobs[k + 1]
  BY <1>1, <1>3, <1>4, RemoveAtIs
<1>11. TypeOK' BY <1>0, <1>1, <1>2, <1>8, <1>9, <1>10, NothingLayer DEF TypeOK, Job
<1>12. Selected' BY <1>0, <1>1, <1>8, <1>a DEF Selected
<1>13. Groups'
  <2> DEFINE g(k) == IF k < i THEN k ELSE k + 1
  <2>1. \A k \in DOMAIN jobs' : g(k) \in DOMAIN jobs /\ g(k) # i /\ jobs'[k] = jobs[g(k)]
    BY <1>4, <1>10
  <2>2. \A k, j \in DOMAIN jobs' : k # j => g(k) # g(j) BY <1>4, <1>10
  <2> HIDE DEF g
  <2>3. \A k, j \in DOMAIN jobs : k # j => jobs[k].shapes \cap jobs[j].shapes = {} BY <1>0 DEF Groups
  <2>4. ASSUME NEW k \in DOMAIN jobs' PROVE jobs'[k].shapes \subseteq Grouped \ X
    <3>1. jobs'[k].shapes = jobs[g(k)].shapes BY <2>1
    <3>2. jobs[g(k)].shapes \cap jobs[i].shapes = {} BY <2>1, <2>3
    <3>. QED BY <2>1, <3>1, <3>2 DEF Grouped, X
  <2>5. Grouped' \subseteq Grouped \ X BY <2>4 DEF Grouped
  <2>6. Grouped' \subseteq On(layer') /\ drawing' \notin Grouped' BY <1>0, <1>1, <1>8, <2>5 DEF Groups
  <2>7. \A k, j \in DOMAIN jobs' : k # j => jobs'[k].shapes \cap jobs'[j].shapes = {}
    BY <2>1, <2>2, <2>3
  <2>8. \A k \in DOMAIN jobs' : ~jobs'[k].group => jobs'[k].shapes = {} BY <1>0, <2>1 DEF Groups
  <2>9. ASSUME InFlight' PROVE nodes' \subseteq Grouped'
    <3>1. CASE jobs[i].group BY <1>1, <3>1
    <3>2. CASE ~jobs[i].group
      <4>1. InFlight BY <2>1, <2>9 DEF InFlight
      <4>2. ASSUME NEW s \in nodes PROVE s \in Grouped'
        <5>1. PICK j \in DOMAIN jobs : s \in jobs[j].shapes BY <1>0, <4>1, <4>2 DEF Groups, Grouped
        <5>2. j # i BY <1>a, <3>2, <5>1 DEF X
        <5>3. PICK k \in DOMAIN jobs' : jobs'[k] = jobs[j]
          <6>1. CASE j < i BY <1>4, <1>10, <6>1
          <6>2. CASE j > i
            <7>1. j - 1 \in DOMAIN jobs' /\ ~(j - 1 < i) /\ j - 1 + 1 = j BY <1>4, <1>10, <6>2
            <7>. QED BY <1>10, <7>1
          <6>. QED BY <1>4, <5>2, <6>1, <6>2
        <5>. QED BY <5>1, <5>3 DEF Grouped
      <4>. QED BY <1>1, <3>2, <4>2
    <3>. QED BY <3>1, <3>2
  <2>. QED BY <2>6, <2>7, <2>8, <2>9 DEF Groups
<1>14. Unnamed'
  <2>1. \A s \in Shape : Mentions(e, s) => s \in X BY <1>6, <1>7, NothingLayer DEF Mentions
  <2>2. Named' \subseteq Named \cup X BY <1>9, <2>1, NamedGrows
  <2>3. drawing \notin X BY <1>0, <1>5 DEF Groups
  <2>. QED BY <1>0, <1>1, <1>5, <1>8, <2>2, <2>3, NothingLayer DEF Unnamed
<1>. QED BY <1>11, <1>12, <1>13, <1>14 DEF Kept

(* An image is on its way: its shape is new.                               *)
LEMMA PasteKept ==
  ASSUME CanvasAssumption, Kept, NEW s \in Shape, Paste(s)
  PROVE  Kept'
<1>0. TypeOK /\ Selected /\ Groups /\ Unnamed BY DEF Kept
<1>1. /\ s \in Fresh /\ loading' = loading \cup {s}
      /\ UNCHANGED <<mode, layer, current, undone, nodes, selection, drawing, jobs, room, odd>>
  BY DEF Paste, history
<1>2. /\ s \in Shape /\ s \notin On(layer) /\ s # drawing /\ s \notin loading
      /\ s \notin On(selection) /\ s \notin Named
  BY <1>0, <1>1, FreshIs
<1>3. TypeOK' BY <1>0, <1>1 DEF TypeOK
<1>4. Selected' BY <1>0, <1>1 DEF Selected
<1>5. Groups' BY <1>0, <1>1 DEF Groups, Grouped, InFlight
<1>6. Unnamed'
  <2>1. Named' = Named BY <1>1 DEF Named, Held
  <2>. QED BY <1>0, <1>1, <1>2, <2>1 DEF Unnamed
<1>. QED BY <1>3, <1>4, <1>5, <1>6 DEF Kept

(* An image is there.                                                      *)
LEMMA InsertImageKept ==
  ASSUME CanvasAssumption, Kept, NEW s \in loading, InsertImage(s)
  PROVE  Kept'
<1> DEFINE one == [x \in {s} |-> [at |-> 1, on |-> {}]]
           e == NewEdit(Nothing, one)
<1>0. TypeOK /\ Selected /\ Groups /\ Unnamed BY DEF Kept
<1>1. /\ loading' = loading \ {s} /\ layer' = Put(layer, e.from, e.to)
      /\ current' = Append(current, e) /\ room' \in {room, Push(room, e)}
      /\ UNCHANGED <<mode, undone, nodes, selection, drawing, jobs, odd>>
  BY DEF InsertImage, Send
<1>2. s \in Shape /\ one \in Layers /\ On(one) = {s} BY <1>0, AloneIs DEF TypeOK
<1> HIDE DEF one
<1>3. e \in Edit /\ e.from = Nothing /\ e.to = one BY <1>0, <1>2, TypeFacts, NothingLayer, NewEditIs
<1> HIDE DEF e
<1>4. current' \in Seq(Edit) /\ room' \in Lists2 /\ Held' \subseteq Held \cup {e}
  BY <1>0, <1>1, <1>3, AppendIs
<1>5. /\ layer' \in Layers /\ On(layer') = On(layer) \cup {s}
      /\ \A t \in On(layer) : t # s => layer'[t] = layer[t]
  <2>1. layer \in Layers /\ e.from \in Layers /\ e.to \in Layers /\ On(e.from) = {} /\ On(e.to) = {s}
    BY <1>0, <1>2, <1>3, TypeFacts, NothingLayer
  <2>2. /\ layer' \in Layers /\ On(layer') = (On(layer) \ On(e.from)) \cup On(e.to)
        /\ \A t \in On(layer') : layer'[t] = IF t \in On(e.to) THEN e.to[t] ELSE layer[t]
    BY <1>1, <2>1, PutIs
  <2>. QED BY <2>1, <2>2
<1>6. s \notin On(layer) /\ s # drawing BY <1>0 DEF Unnamed
<1>7. TypeOK' BY <1>0, <1>1, <1>4, <1>5 DEF TypeOK, Lists2
<1>8. Selected'
  <2>1. Restrict(layer', nodes) = Restrict(layer, nodes) BY <1>0, <1>5, <1>6 DEF Restrict, Selected
  <2>. QED BY <1>0, <1>1, <1>5, <2>1 DEF Selected
<1>9. Groups' BY <1>0, <1>1, <1>5, GroupsStay DEF Groups
<1>10. Unnamed'
  <2>1. \A t \in Shape : Mentions(e, t) => t \in {s} BY <1>2, <1>3, NothingLayer DEF Mentions
  <2>2. Named' \subseteq Named \cup {s} BY <1>4, <2>1, NamedGrows
  <2>. QED BY <1>0, <1>1, <1>5, <1>6, <2>2 DEF Unnamed
<1>. QED BY <1>7, <1>8, <1>9, <1>10 DEF Kept

(* Groups that are destroyed hold nothing.                                 *)
LEMMA ClearedIs ==
  ASSUME TypeOK, Cleared
  PROVE  /\ jobs' \in Seq(Job) /\ ~InFlight'
         /\ \A i \in DOMAIN jobs' : jobs'[i].shapes = {}
<1> DEFINE r == [i \in DOMAIN jobs |-> [jobs[i] EXCEPT !.group = FALSE, !.shapes = {}]]
<1>1. jobs \in Seq(Job) BY DEF TypeOK, Job
<1>2. r \in Seq(Job) /\ Len(r) = Len(jobs) /\ \A i \in 1 .. Len(jobs) : r[i].shapes = {} /\ ~r[i].group
  BY <1>1, UngroupIs
<1>3. jobs' = r BY DEF Cleared
<1> HIDE DEF r
<1>4. DOMAIN r = 1 .. Len(jobs) BY <1>1, <1>2
<1>. QED BY <1>2, <1>3, <1>4 DEF InFlight

(* A cleared canvas: a new file, or the board as the room holds it.        *)
LEMMA ClearedKept ==
  ASSUME CanvasAssumption, Kept, Cleared,
         current' \in Seq(Edit), undone' \in Seq(Edit), layer' \in Layers,
         Held' \subseteq Held, On(layer') \subseteq Named,
         odd' \subseteq Reason, "cleared" \notin odd' => On(selection) = {},
         UNCHANGED <<mode, drawing, loading, room>>
  PROVE  Kept'
<1>0. TypeOK /\ Selected /\ Groups /\ Unnamed BY DEF Kept
<1>1. nodes' = {} /\ selection' = selection
  BY DEF Cleared
<1>2. selection \in Layers /\ jobs \in Seq(Job) BY <1>0, TypeFacts DEF TypeOK, Job
<1>3. jobs' \in Seq(Job) /\ ~InFlight' /\ \A i \in DOMAIN jobs' : jobs'[i].shapes = {} BY <1>0, ClearedIs
<1>4. TypeOK' BY <1>0, <1>1, <1>3 DEF TypeOK, Job
<1>5. Selected' BY <1>1, <1>2, <1>4, EmptyLayer, NoneSelected DEF TypeOK
<1>6. Groups' BY <1>1, <1>3 DEF Groups, Grouped
<1>7. Unnamed'
  <2>1. Named' \subseteq Named BY DEF Named
  <2>. QED BY <1>0, <1>1, <2>1 DEF Unnamed
<1>. QED BY <1>4, <1>5, <1>6, <1>7 DEF Kept

(* A new file.                                                             *)
LEMMA NewFileKept ==
  ASSUME CanvasAssumption, Kept, NewFile
  PROVE  Kept'
<1>1. /\ current' = <<>> /\ undone' = <<>> /\ layer' = Nothing /\ Cleared
      /\ UNCHANGED <<mode, drawing, loading, room>>
  BY DEF NewFile
<1>2. odd' \subseteq Reason /\ ("cleared" \notin odd' => On(selection) = {})
  BY DEF NewFile, Blame, If, Kept, TypeOK, Reason
<1>3. Held' \subseteq Held BY <1>1 DEF Held, Range
<1>. QED BY <1>1, <1>2, <1>3, NothingLayer, ClearedKept

(* The board is as the room holds it.                                      *)
LEMMA ReopenKept ==
  ASSUME CanvasAssumption, Kept, Reopen
  PROVE  Kept'
<1>1. /\ current' = room.current /\ undone' = room.undone /\ layer' = Replay(room.current)
      /\ Cleared /\ UNCHANGED <<mode, drawing, loading, room>>
  BY DEF Reopen
<1>2. odd' \subseteq Reason /\ ("cleared" \notin odd' => On(selection) = {})
  BY DEF Reopen, If, Kept, TypeOK, Reason
<1>3. Held' \subseteq Held BY <1>1 DEF Held
<1>4. room.current \in Seq(Edit) /\ room.undone \in Seq(Edit) BY TypeFacts DEF Kept, Lists
<1>5. layer' \in Layers /\ On(layer') \subseteq Named
  <2>1. On(layer') \subseteq Shape BY <1>1, <1>4, ReplayIs, LayerIs
  <2>. QED BY <1>1, <1>4, <2>1, ReplayIs DEF Named, Held
<1>. QED BY <1>1, <1>2, <1>3, <1>4, <1>5, ClearedKept

(* So every step keeps them.                                               *)
LEMMA NextKept ==
  ASSUME CanvasAssumption, Kept, [Next]_vars
  PROVE  Kept'
<1>1. CASE UNCHANGED vars
  <2>1. UNCHANGED <<mode, layer, current, undone, nodes, selection, drawing, loading, jobs, room, odd>>
    BY <1>1 DEF vars, history
  <2>2. TypeOK' BY <2>1 DEF Kept, TypeOK
  <2>3. Selected' BY <2>1 DEF Kept, Selected
  <2>4. Groups' BY <2>1 DEF Kept, Groups, Grouped, InFlight
  <2>5. Unnamed' BY <2>1 DEF Kept, Unnamed, Named, Held
  <2>. QED BY <2>2, <2>3, <2>4, <2>5 DEF Kept
<1>2. CASE Next
  <2>1. CASE \E s \in Shape : MouseDown(s) BY <2>1, MouseDownKept
  <2>2. CASE \E s \in Shape : MouseMove(s) BY <2>2, MouseMoveKept
  <2>3. CASE MouseUpLeave BY <2>3, MouseUpKept
  <2>4. CASE \E s \in Shape : SelectShape(s) BY <2>4, SelectKept
  <2>5. CASE \E X \in SUBSET On(layer) : SelectBox(X) BY <2>5, SelectKept
  <2>6. CASE Drag BY <2>6, DragKept
  <2>7. CASE Undo BY <2>7, UndoKept
  <2>8. CASE Redo BY <2>8, RedoKept
  <2>9. CASE Delete BY <2>9, DeleteKept
  <2>10. CASE \E cut \in BOOLEAN : Copy(cut) BY <2>10, CopyKept
  <2>11. CASE \E i \in DOMAIN jobs : Copied(i) BY <2>11, CopiedKept
  <2>12. CASE \E s \in Shape \ Eraser : Paste(s) BY <2>12, PasteKept
  <2>13. CASE \E s \in loading : InsertImage(s) BY <2>13, InsertImageKept
  <2>14. CASE NewFile BY <2>14, NewFileKept
  <2>15. CASE Reopen BY <2>15, ReopenKept
  <2>. QED BY <1>2, <2>1, <2>2, <2>3, <2>4, <2>5, <2>6, <2>7, <2>8, <2>9, <2>10, <2>11, <2>12, <2>13,
              <2>14, <2>15 DEF Next
<1>. QED BY <1>1, <1>2

(* They hold of every state.                                               *)
LEMMA AlwaysKept == Spec => []Kept
<1>1. Init => Kept BY InitKept, CanvasAssumption
<1>2. Kept /\ [Next]_vars => Kept' BY NextKept, CanvasAssumption
<1>. QED BY <1>1, <1>2, PTL DEF Spec

(* Every state is of the types stated.                                     *)
THEOREM TypeCorrect == Spec => []TypeOK
<1>1. Kept => TypeOK BY DEF Kept
<1>. QED BY <1>1, AlwaysKept, PTL

(* What the store holds as selected is what the Transformer shows.         *)
THEOREM SelectionHolds == Spec => []SelectionShown
<1>1. Kept => SelectionShown
  <2>1. Restrict(layer, {}) = Nothing BY RestrictNone
  <2>. QED BY <2>1 DEF Kept, Selected, SelectionShown
<1>. QED BY <1>1, AlwaysKept, PTL

----------------------------------------------------------------------------
(* The room of a single author: it holds the lists of the page without the *)
(* edits the page has cut, C, and may have more undone edits below those   *)
(* of the page.                                                            *)

(* r is q without the edits in C; of q[1 .. j] it holds n[j].              *)
OmitsBy(n, r, q, C) ==
  /\ n \in [0 .. Len(q) -> Nat] /\ n[0] = 0 /\ n[Len(q)] = Len(r)
  /\ \A i, j \in 0 .. Len(q) : i <= j => n[i] <= n[j]
  /\ \A j \in 1 .. Len(q) :
       IF q[j] \in C THEN n[j] = n[j - 1] ELSE n[j] = n[j - 1] + 1 /\ r[n[j]] = q[j]
Omits(r, q, C) == \E n : OmitsBy(n, r, q, C)

Ends(r, q) == \E k \in 0 .. Len(q) : Len(r) = Len(q) - k /\ \A i \in 1 .. Len(r) : r[i] = q[i + k]

(* Where nothing is left out, the lists are the same.                      *)
LEMMA OmitsNone ==
  ASSUME NEW q \in Seq(Edit)
  PROVE  Omits(q, q, {}) /\ \A r \in Seq(Edit) : Omits(r, q, {}) => r = q
<1>0. Len(q) \in Nat OBVIOUS
<1>1. Omits(q, q, {})
  <2> DEFINE n == [j \in 0 .. Len(q) |-> j]
  <2>1. n \in [0 .. Len(q) -> Nat] /\ n[0] = 0 /\ n[Len(q)] = Len(q) BY <1>0
  <2>2. \A i, j \in 0 .. Len(q) : i <= j => n[i] <= n[j] OBVIOUS
  <2>3. \A j \in 1 .. Len(q) : n[j] = n[j - 1] + 1 /\ q[n[j]] = q[j] BY <1>0
  <2> HIDE DEF n
  <2>4. OmitsBy(n, q, q, {}) BY <2>1, <2>2, <2>3 DEF OmitsBy
  <2>. QED BY <2>4 DEF Omits
<1>2. ASSUME NEW r \in Seq(Edit), Omits(r, q, {}) PROVE r = q
  <2>1. PICK n : OmitsBy(n, r, q, {}) BY <1>2 DEF Omits
  <2>2. /\ n[0] = 0 /\ n[Len(q)] = Len(r)
        /\ \A j \in 1 .. Len(q) : n[j] = n[j - 1] + 1 /\ r[n[j]] = q[j]
    BY <2>1 DEF OmitsBy
  <2> DEFINE U == {j \in 0 .. Len(q) : n[j] = j}
  <2>3. 0 \in U BY <1>0, <2>2
  <2>4. ASSUME NEW j \in 1 .. Len(q), j - 1 \in U PROVE j \in U BY <1>0, <2>2, <2>4
  <2>5. \A j \in 0 .. Len(q) : n[j] = j
    <3> HIDE DEF U
    <3>1. \A j \in 0 .. Len(q) : j \in U BY <1>0, <2>3, <2>4, InductionUpTo
    <3>. QED BY <3>1 DEF U
  <2>6. Len(r) = Len(q) BY <1>0, <2>2, <2>5
  <2>7. \A j \in 1 .. Len(q) : r[j] = q[j] BY <1>0, <2>2, <2>5
  <2>. QED BY <2>6, <2>7
<1>. QED BY <1>1, <1>2

(* Only the edits of q matter.                                             *)
LEMMA OmitsSame ==
  ASSUME NEW r, NEW q \in Seq(Edit), NEW C, NEW D, Omits(r, q, C), \A e \in Range(q) : e \in C <=> e \in D
  PROVE  Omits(r, q, D)
<1>1. PICK n : OmitsBy(n, r, q, C) BY DEF Omits
<1>2. \A j \in 1 .. Len(q) : q[j] \in C <=> q[j] \in D BY DEF Range
<1>3. OmitsBy(n, r, q, D) BY <1>1, <1>2 DEF OmitsBy
<1>. QED BY <1>3 DEF Omits

(* An edit more, held by both or left out.                                 *)
LEMMA OmitsAppend ==
  ASSUME NEW r \in Seq(Edit), NEW q \in Seq(Edit), NEW C, Omits(r, q, C), NEW e \in Edit
  PROVE  /\ e \notin C => Omits(Append(r, e), Append(q, e), C)
         /\ e \in C => Omits(r, Append(q, e), C)
<1>1. PICK n : OmitsBy(n, r, q, C) BY DEF Omits
<1>2. /\ n \in [0 .. Len(q) -> Nat] /\ n[0] = 0 /\ n[Len(q)] = Len(r)
      /\ \A i, j \in 0 .. Len(q) : i <= j => n[i] <= n[j]
      /\ \A j \in 1 .. Len(q) :
           IF q[j] \in C THEN n[j] = n[j - 1] ELSE n[j] = n[j - 1] + 1 /\ r[n[j]] = q[j]
  BY <1>1 DEF OmitsBy
<1> DEFINE p == Append(q, e)
           t == Append(r, e)
<1>3. /\ Len(q) \in Nat /\ Len(r) \in Nat /\ Len(p) = Len(q) + 1 /\ Len(t) = Len(r) + 1
      /\ \A j \in 1 .. Len(q) : p[j] = q[j]
      /\ \A j \in 1 .. Len(r) : t[j] = r[j]
      /\ p[Len(q) + 1] = e /\ t[Len(r) + 1] = e
  OBVIOUS
<1> HIDE DEF p, t
<1>4. ASSUME NEW m \in Nat, m >= Len(r)
      PROVE  LET k == [j \in 0 .. Len(p) |-> IF j = Len(p) THEN m ELSE n[j]]
             IN /\ k \in [0 .. Len(p) -> Nat] /\ k[0] = 0 /\ k[Len(p)] = m /\ k[Len(p) - 1] = Len(r)
                /\ \A i, j \in 0 .. Len(p) : i <= j => k[i] <= k[j]
                /\ \A j \in 1 .. Len(q) : k[j] = n[j] /\ k[j - 1] = n[j - 1]
  <2> DEFINE k == [j \in 0 .. Len(p) |-> IF j = Len(p) THEN m ELSE n[j]]
  <2>1. k \in [0 .. Len(p) -> Nat] BY <1>2, <1>3, <1>4
  <2>2. k[0] = 0 /\ k[Len(p)] = m /\ k[Len(p) - 1] = Len(r) BY <1>2, <1>3
  <2>3. \A j \in 0 .. Len(q) : k[j] = n[j] /\ n[j] <= Len(r) BY <1>2, <1>3
  <2> HIDE DEF k
  <2>4. ASSUME NEW i \in 0 .. Len(p), NEW j \in 0 .. Len(p), i <= j PROVE k[i] <= k[j]
    <3>1. CASE j \in 0 .. Len(q)
      <4>1. i \in 0 .. Len(q) BY <1>3, <2>4, <3>1
      <4>. QED BY <1>2, <2>3, <2>4, <3>1, <4>1
    <3>2. CASE j = Len(p)
      <4>1. CASE i \in 0 .. Len(q)
        <5>1. n[i] \in Nat /\ n[i] <= Len(r) BY <1>2, <2>3, <4>1
        <5>. QED BY <1>3, <1>4, <2>2, <2>3, <3>2, <4>1, <5>1
      <4>2. CASE i = Len(p) BY <1>4, <2>2, <3>2, <4>2
      <4>. QED BY <1>3, <4>1, <4>2
    <3>. QED BY <1>3, <3>1, <3>2
  <2>5. \A j \in 1 .. Len(q) : k[j] = n[j] /\ k[j - 1] = n[j - 1] BY <1>3, <2>3
  <2>. QED BY <2>1, <2>2, <2>4, <2>5 DEF k
<1>5. ASSUME e \notin C PROVE Omits(t, p, C)
  <2> DEFINE m == Len(r) + 1
             k == [j \in 0 .. Len(p) |-> IF j = Len(p) THEN m ELSE n[j]]
  <2>1. /\ k \in [0 .. Len(p) -> Nat] /\ k[0] = 0 /\ k[Len(p)] = m /\ k[Len(p) - 1] = Len(r)
        /\ \A i, j \in 0 .. Len(p) : i <= j => k[i] <= k[j]
        /\ \A j \in 1 .. Len(q) : k[j] = n[j] /\ k[j - 1] = n[j - 1]
    BY <1>3, <1>4
  <2> HIDE DEF k
  <2>2. ASSUME NEW j \in 1 .. Len(p)
        PROVE  IF p[j] \in C THEN k[j] = k[j - 1] ELSE k[j] = k[j - 1] + 1 /\ t[k[j]] = p[j]
    <3>1. CASE j = Len(p) BY <1>3, <1>5, <2>1, <3>1
    <3>2. CASE j \in 1 .. Len(q)
      <4>1. CASE q[j] \in C BY <1>2, <1>3, <2>1, <3>2, <4>1
      <4>2. CASE q[j] \notin C
        <5>1. n[j] = n[j - 1] + 1 /\ r[n[j]] = q[j] BY <1>2, <3>2, <4>2
        <5>2. n[j] \in 1 .. Len(r) BY <1>2, <1>3, <3>2, <5>1
        <5>. QED BY <1>3, <2>1, <3>2, <4>2, <5>1, <5>2
      <4>. QED BY <4>1, <4>2
    <3>. QED BY <1>3, <3>1, <3>2
  <2>3. OmitsBy(k, t, p, C) BY <1>3, <2>1, <2>2 DEF OmitsBy
  <2>. QED BY <2>3 DEF Omits
<1>6. ASSUME e \in C PROVE Omits(r, p, C)
  <2> DEFINE k == [j \in 0 .. Len(p) |-> IF j = Len(p) THEN Len(r) ELSE n[j]]
  <2>0. Len(r) \in Nat /\ Len(r) >= Len(r) BY <1>3
  <2>1. /\ k \in [0 .. Len(p) -> Nat] /\ k[0] = 0 /\ k[Len(p)] = Len(r) /\ k[Len(p) - 1] = Len(r)
        /\ \A i, j \in 0 .. Len(p) : i <= j => k[i] <= k[j]
        /\ \A j \in 1 .. Len(q) : k[j] = n[j] /\ k[j - 1] = n[j - 1]
    BY <2>0, <1>4
  <2> HIDE DEF k
  <2>2. ASSUME NEW j \in 1 .. Len(p)
        PROVE  IF p[j] \in C THEN k[j] = k[j - 1] ELSE k[j] = k[j - 1] + 1 /\ r[k[j]] = p[j]
    <3>1. CASE j = Len(p) BY <1>3, <1>6, <2>1, <3>1
    <3>2. CASE j \in 1 .. Len(q) BY <1>2, <1>3, <2>1, <3>2
    <3>. QED BY <1>3, <3>1, <3>2
  <2>3. OmitsBy(k, r, p, C) BY <1>3, <2>1, <2>2 DEF OmitsBy
  <2>. QED BY <2>3 DEF Omits
<1>. QED BY <1>5, <1>6 DEF p, t

(* An edit less.                                                           *)
LEMMA OmitsFront ==
  ASSUME NEW r \in Seq(Edit), NEW q \in Seq(Edit), NEW C, Omits(r, q, C), q # <<>>
  PROVE  IF q[Len(q)] \in C THEN Omits(r, Front(q), C)
         ELSE r # <<>> /\ r[Len(r)] = q[Len(q)] /\ Omits(Front(r), Front(q), C)
<1>1. PICK n : OmitsBy(n, r, q, C) BY DEF Omits
<1>2. /\ n \in [0 .. Len(q) -> Nat] /\ n[0] = 0 /\ n[Len(q)] = Len(r)
      /\ \A i, j \in 0 .. Len(q) : i <= j => n[i] <= n[j]
      /\ \A j \in 1 .. Len(q) :
           IF q[j] \in C THEN n[j] = n[j - 1] ELSE n[j] = n[j - 1] + 1 /\ r[n[j]] = q[j]
  BY <1>1 DEF OmitsBy
<1> DEFINE p == Front(q)
           k == [j \in 0 .. Len(p) |-> n[j]]
<1>3. /\ Len(q) \in Nat \ {0} /\ Len(r) \in Nat /\ p \in Seq(Edit) /\ Len(p) = Len(q) - 1
      /\ \A j \in 1 .. Len(p) : p[j] = q[j]
  BY LastIs
<1> HIDE DEF p
<1>4. /\ k \in [0 .. Len(p) -> Nat] /\ k[0] = 0 /\ k[Len(p)] = n[Len(q) - 1]
      /\ \A i, j \in 0 .. Len(p) : i <= j => k[i] <= k[j]
      /\ \A j \in 1 .. Len(p) : k[j] = n[j] /\ k[j - 1] = n[j - 1]
  <2>1. 0 .. Len(p) \subseteq 0 .. Len(q) /\ 0 \in 0 .. Len(p) /\ Len(p) \in 0 .. Len(p) BY <1>3
  <2>2. \A j \in 1 .. Len(p) : j \in 0 .. Len(p) /\ j - 1 \in 0 .. Len(p) BY <1>3
  <2>. QED BY <1>2, <1>3, <2>1, <2>2
<1> HIDE DEF k
<1>5. CASE q[Len(q)] \in C
  <2>1. n[Len(q) - 1] = Len(r) BY <1>2, <1>3, <1>5
  <2>2. ASSUME NEW j \in 1 .. Len(p)
        PROVE  IF p[j] \in C THEN k[j] = k[j - 1] ELSE k[j] = k[j - 1] + 1 /\ r[k[j]] = p[j]
    <3>1. j \in 1 .. Len(q) BY <1>3
    <3>. QED BY <1>2, <1>3, <1>4, <3>1
  <2>3. OmitsBy(k, r, p, C) BY <1>4, <2>1, <2>2 DEF OmitsBy
  <2>4. Omits(r, p, C) BY <2>3 DEF Omits
  <2>. QED BY <1>5, <2>4 DEF p
<1>6. CASE q[Len(q)] \notin C
  <2>1. Len(r) = n[Len(q) - 1] + 1 /\ r[Len(r)] = q[Len(q)] BY <1>2, <1>3, <1>6
  <2>2. n[Len(q) - 1] \in Nat /\ n[Len(q) - 1] = Len(r) - 1 BY <1>2, <1>3, <2>1
  <2>3. r # <<>> BY <2>1, <2>2
  <2> DEFINE t == Front(r)
  <2>4. t \in Seq(Edit) /\ Len(t) = Len(r) - 1 /\ \A j \in 1 .. Len(r) - 1 : t[j] = r[j]
    BY <2>3, LastIs
  <2> HIDE DEF t
  <2>5. ASSUME NEW j \in 1 .. Len(p)
        PROVE  IF p[j] \in C THEN k[j] = k[j - 1] ELSE k[j] = k[j - 1] + 1 /\ t[k[j]] = p[j]
    <3>1. j \in 1 .. Len(q) /\ j - 1 \in 0 .. Len(q) /\ j \in 0 .. Len(q) /\ j <= Len(q) - 1
          /\ Len(q) - 1 \in 0 .. Len(q)
      BY <1>3
    <3>2. CASE q[j] \in C BY <1>2, <1>3, <1>4, <3>1, <3>2
    <3>3. CASE q[j] \notin C
      <4>1. n[j] = n[j - 1] + 1 /\ r[n[j]] = q[j] BY <1>2, <3>1, <3>3
      <4>2. n[j] <= n[Len(q) - 1] BY <1>2, <3>1
      <4>3. n[j] \in 1 .. Len(r) - 1
        <5>1. n[j] \in Nat /\ n[j - 1] \in Nat BY <1>2, <3>1
        <5>. QED BY <1>3, <2>2, <4>1, <4>2, <5>1
      <4>4. t[n[j]] = r[n[j]] BY <2>4, <4>3
      <4>5. p[j] = q[j] /\ k[j] = n[j] /\ k[j - 1] = n[j - 1] BY <1>3, <1>4
      <4>. QED BY <3>3, <4>1, <4>4, <4>5
    <3>. QED BY <3>2, <3>3
  <2>6. OmitsBy(k, t, p, C) BY <1>4, <2>2, <2>4, <2>5 DEF OmitsBy
  <2>7. Omits(t, p, C) BY <2>6 DEF Omits
  <2>. QED BY <1>6, <2>1, <2>3, <2>7 DEF t, p
<1>. QED BY <1>5, <1>6

(* Nothing of nothing is left out.                                         *)
LEMMA OmitsEmpty ==
  ASSUME NEW C
  PROVE  Omits(<<>>, <<>>, C) /\ \A r \in Seq(Edit) : Omits(r, <<>>, C) => r = <<>>
<1>1. Omits(<<>>, <<>>, C)
  <2> DEFINE n == [j \in 0 .. 0 |-> 0]
  <2>1. n \in [0 .. 0 -> Nat] /\ n[0] = 0 /\ \A i, j \in 0 .. 0 : n[i] <= n[j] OBVIOUS
  <2> HIDE DEF n
  <2>2. OmitsBy(n, <<>>, <<>>, C) BY <2>1 DEF OmitsBy
  <2>. QED BY <2>2 DEF Omits
<1>2. ASSUME NEW r \in Seq(Edit), Omits(r, <<>>, C) PROVE r = <<>>
  <2>1. PICK n : OmitsBy(n, r, <<>>, C) BY <1>2 DEF Omits
  <2>2. Len(r) = 0 BY <2>1 DEF OmitsBy
  <2>. QED BY <2>2
<1>. QED BY <1>1, <1>2

(* Two lists with the same end get the same edit.                          *)
LEMMA EndsAppend ==
  ASSUME NEW r \in Seq(Edit), NEW q \in Seq(Edit), Ends(r, q), NEW e \in Edit
  PROVE  Ends(Append(r, e), Append(q, e))
<1>1. PICK k \in 0 .. Len(q) : Len(r) = Len(q) - k /\ \A i \in 1 .. Len(r) : r[i] = q[i + k] BY DEF Ends
<1> DEFINE p == Append(q, e)
           t == Append(r, e)
<1>3. /\ Len(q) \in Nat /\ Len(r) \in Nat /\ Len(p) = Len(q) + 1 /\ Len(t) = Len(r) + 1
      /\ \A j \in 1 .. Len(q) : p[j] = q[j]
      /\ \A j \in 1 .. Len(r) : t[j] = r[j]
      /\ p[Len(q) + 1] = e /\ t[Len(r) + 1] = e
  OBVIOUS
<1> HIDE DEF p, t
<1>4. ASSUME NEW i \in 1 .. Len(t) PROVE t[i] = p[i + k]
  <2>1. CASE i = Len(t) BY <1>1, <1>3, <2>1
  <2>2. CASE i \in 1 .. Len(r) BY <1>1, <1>3, <2>2
  <2>. QED BY <1>3, <2>1, <2>2
<1>5. k \in 0 .. Len(p) /\ Len(t) = Len(p) - k BY <1>1, <1>3
<1>6. Ends(t, p) BY <1>4, <1>5 DEF Ends
<1>. QED BY <1>6 DEF p, t

(* Two lists with the same end lose their last edit.                       *)
LEMMA EndsFront ==
  ASSUME NEW r \in Seq(Edit), NEW q \in Seq(Edit), Ends(r, q), r # <<>>
  PROVE  q # <<>> /\ q[Len(q)] = r[Len(r)] /\ Ends(Front(r), Front(q))
<1>1. PICK k \in 0 .. Len(q) : Len(r) = Len(q) - k /\ \A i \in 1 .. Len(r) : r[i] = q[i + k] BY DEF Ends
<1>2. Len(r) \in Nat \ {0} /\ Len(q) \in Nat OBVIOUS
<1>3. q # <<>> /\ q[Len(q)] = r[Len(r)] BY <1>1, <1>2
<1> DEFINE p == Front(q)
           t == Front(r)
<1>4. /\ Len(p) = Len(q) - 1 /\ \A j \in 1 .. Len(q) - 1 : p[j] = q[j]
      /\ Len(t) = Len(r) - 1 /\ \A j \in 1 .. Len(r) - 1 : t[j] = r[j]
  BY <1>3, LastIs
<1> HIDE DEF p, t
<1>5. Len(t) = Len(p) - k /\ k \in 0 .. Len(p) BY <1>1, <1>2, <1>4
<1>6. \A i \in 1 .. Len(t) : t[i] = p[i + k] BY <1>1, <1>2, <1>4
<1>7. Ends(t, p) BY <1>5, <1>6 DEF Ends
<1>. QED BY <1>3, <1>7 DEF p, t

RoomKept(C, r) ==
  /\ C \subseteq Range(current) \cup Range(undone)
  /\ C \cap (Range(room.current) \cup Range(room.undone)) = {}
  /\ \A e \in C : e.to = Nothing
  /\ "cut" \notin odd => C = {}
  /\ r \in Seq(Edit) /\ Omits(r, undone, C) /\ Ends(r, room.undone)
  /\ "selected" \notin odd => r = room.undone
  /\ Omits(room.current, current, C)
RoomKnows == mode = "author" /\ "emptied" \notin odd => \E C, r : RoomKept(C, r)

(* The lists stay as they are.                                             *)
LEMMA RoomStays ==
  ASSUME RoomKnows, UNCHANGED <<mode, current, undone, room>>, odd \subseteq odd'
  PROVE  RoomKnows'
<1> SUFFICES ASSUME mode = "author", "emptied" \notin odd' PROVE \E C, r : RoomKept(C, r)'
  BY DEF RoomKnows
<1>1. PICK C, r : RoomKept(C, r) BY DEF RoomKnows
<1>2. RoomKept(C, r)' BY <1>1 DEF RoomKept
<1>. QED BY <1>2

(* The undone edits are dropped here, and perhaps in the room.             *)
LEMMA RoomEmptied ==
  ASSUME TypeOK, RoomKnows, UNCHANGED <<mode, current>>, undone' = <<>>, odd \subseteq odd',
         mode = "author" => /\ room'.current = room.current
                            /\ \/ room'.undone = <<>>
                               \/ room'.undone = room.undone /\ "selected" \in odd'
  PROVE  RoomKnows'
<1> SUFFICES ASSUME mode = "author", "emptied" \notin odd' PROVE \E C, r : RoomKept(C, r)'
  BY DEF RoomKnows
<1>1. PICK C, r : RoomKept(C, r) BY DEF RoomKnows
<1>0. PICK D : D = C \cap Range(current) OBVIOUS
<1>2. /\ current \in Seq(Edit) /\ room.undone \in Seq(Edit) BY TypeFacts DEF Lists
<1>3. Omits(room.current, current, D)
  <2>1. \A e \in Range(current) : e \in C <=> e \in D BY <1>0
  <2>2. Omits(room.current, current, C) BY <1>1 DEF RoomKept
  <2>. QED BY <1>2, <2>1, <2>2, OmitsSame
<1>4. Omits(<<>>, <<>>, D) /\ <<>> \in Seq(Edit) BY OmitsEmpty
<1>5. Ends(<<>>, room'.undone)
  <2>1. CASE room'.undone = <<>> BY <2>1 DEF Ends
  <2>2. CASE room'.undone = room.undone
    <3>1. Len(room.undone) \in Nat BY <1>2
    <3>2. Len(room.undone) \in 0 .. Len(room.undone) /\ Len(<<>>) = Len(room.undone) - Len(room.undone)
      BY <3>1
    <3>. QED BY <2>2, <3>2 DEF Ends
  <2>. QED BY <2>1, <2>2
<1>6. /\ D \subseteq Range(current') \cup Range(undone')
      /\ D \cap (Range(room'.current) \cup Range(room'.undone)) = {}
      /\ \A e \in D : e.to = Nothing
      /\ "cut" \notin odd' => D = {}
  <2>1. Range(<<>>) = {} BY DEF Range
  <2>. QED BY <1>0, <1>1, <2>1 DEF RoomKept
<1> DEFINE t == <<>>
<1>7. /\ t \in Seq(Edit) /\ Omits(t, undone', D) /\ Ends(t, room'.undone)
      /\ "selected" \notin odd' => t = room'.undone
      /\ Omits(room'.current, current', D)
  BY <1>3, <1>4, <1>5
<1> HIDE DEF t
<1>8. RoomKept(D, t)' BY <1>6, <1>7 DEF RoomKept
<1>. QED BY <1>8

(* A new edit is sent to the room.                                         *)
LEMMA RoomPushed ==
  ASSUME TypeOK, RoomKnows, NEW e \in Edit, e \notin Held, current' = Append(current, e),
         UNCHANGED <<mode, undone>>, odd \subseteq odd',
         mode = "author" => /\ room'.current = Append(room.current, e)
                            /\ \/ room'.undone = room.undone
                               \/ undone = <<>> /\ room'.undone = <<>>
  PROVE  RoomKnows'
<1> SUFFICES ASSUME mode = "author", "emptied" \notin odd' PROVE \E C, r : RoomKept(C, r)'
  BY DEF RoomKnows
<1>1. PICK C, r : RoomKept(C, r) BY DEF RoomKnows
<1>2. /\ current \in Seq(Edit) /\ room.undone \in Seq(Edit) /\ room.current \in Seq(Edit)
      /\ undone \in Seq(Edit)
  BY TypeFacts DEF Lists
<1>3. e \notin C BY <1>1 DEF RoomKept, Held
<1>4. Omits(room'.current, current', C) BY <1>1, <1>2, <1>3, OmitsAppend DEF RoomKept
<1>5. /\ Range(current') = Range(current) \cup {e}
      /\ Range(room'.current) = Range(room.current) \cup {e}
  BY <1>2, ListGrows
<1>6. /\ C \subseteq Range(current') \cup Range(undone')
      /\ C \cap Range(room'.current) = {}
      /\ \A x \in C : x.to = Nothing
      /\ "cut" \notin odd' => C = {}
      /\ r \in Seq(Edit) /\ Omits(r, undone', C)
  BY <1>1, <1>3, <1>5 DEF RoomKept
<1>7. CASE room'.undone = room.undone
  <2>1. RoomKept(C, r)' BY <1>1, <1>4, <1>6, <1>7 DEF RoomKept
  <2>. QED BY <2>1
<1>8. CASE undone = <<>> /\ room'.undone = <<>>
  <2>1. r = <<>> BY <1>1, <1>8, OmitsEmpty DEF RoomKept
  <2>2. Ends(<<>>, <<>>) /\ Range(<<>>) = {} BY DEF Ends, Range
  <2>3. RoomKept(C, r)' BY <1>1, <1>4, <1>6, <1>8, <2>1, <2>2 DEF RoomKept
  <2>. QED BY <2>3
<1>. QED BY <1>7, <1>8

(* A cut is not.                                                           *)
LEMMA RoomCut ==
  ASSUME TypeOK, RoomKnows, NEW e \in Edit, e \notin Held, e.to = Nothing, current' = Append(current, e),
         UNCHANGED <<mode, undone, room>>, odd \subseteq odd', mode = "author" => "cut" \in odd'
  PROVE  RoomKnows'
<1> SUFFICES ASSUME mode = "author", "emptied" \notin odd' PROVE \E C, r : RoomKept(C, r)'
  BY DEF RoomKnows
<1>1. PICK C, r : RoomKept(C, r) BY DEF RoomKnows
<1>0. PICK D : D = C \cup {e} OBVIOUS
<1>2. /\ current \in Seq(Edit) /\ room.undone \in Seq(Edit) /\ room.current \in Seq(Edit)
      /\ undone \in Seq(Edit)
  BY TypeFacts DEF Lists
<1>3. \A x \in Range(current) \cup Range(undone) : x \in C <=> x \in D BY <1>0 DEF Held
<1>4. /\ e \in D /\ D \cap (Range(room.current) \cup Range(room.undone)) = {}
      /\ D \subseteq Range(current) \cup Range(undone) \cup {e}
      /\ \A x \in D : x.to = Nothing
  BY <1>0, <1>1 DEF RoomKept, Held
<1>5. Omits(room.current, current, D) /\ Omits(r, undone, D)
  BY <1>1, <1>2, <1>3, OmitsSame DEF RoomKept
<1>6. Omits(room.current, current', D) BY <1>2, <1>4, <1>5, OmitsAppend
<1>7. Range(current') = Range(current) \cup {e} BY <1>2, ListGrows
<1>8. RoomKept(D, r)' BY <1>1, <1>4, <1>5, <1>6, <1>7 DEF RoomKept
<1>. QED BY <1>8

(* Undo: the room undoes the same edit, or has never heard of it.          *)
LEMMA RoomUndo ==
  ASSUME TypeOK, RoomKnows, current # <<>>, current' = Front(current),
         undone' = Append(undone, current[Len(current)]),
         Send(UndoIn(room, current[Len(current)])), UNCHANGED mode, odd \subseteq odd'
  PROVE  RoomKnows'
<1> SUFFICES ASSUME mode = "author", "emptied" \notin odd' PROVE \E C, r : RoomKept(C, r)'
  BY DEF RoomKnows
<1>1. PICK C, r : RoomKept(C, r) BY DEF RoomKnows
<1> DEFINE e == current[Len(current)]
<1>2. /\ current \in Seq(Edit) /\ room.undone \in Seq(Edit) /\ room.current \in Seq(Edit)
      /\ undone \in Seq(Edit) /\ r \in Seq(Edit)
  BY <1>1, TypeFacts DEF Lists, RoomKept
<1>3. /\ e \in Edit /\ current = Append(Front(current), e) /\ Front(current) \in Seq(Edit)
  BY <1>2, LastIs
<1>4. /\ undone' = Append(undone, e) /\ room' = UndoIn(room, e) BY DEF Send
<1>5. IF e \in C THEN Omits(room.current, current', C)
      ELSE /\ room.current # <<>> /\ room.current[Len(room.current)] = e
           /\ Omits(Front(room.current), current', C)
  BY <1>1, <1>2, OmitsFront DEF RoomKept
<1> HIDE DEF e
<1>6. /\ Range(current) = Range(current') \cup {e} /\ Range(undone') = Range(undone) \cup {e}
  <2>1. current = Append(current', e) BY <1>3
  <2>2. current' \in Seq(Edit) BY <1>3
  <2>. QED BY <1>2, <1>3, <1>4, <2>1, <2>2, ListGrows
<1>7. /\ C \subseteq Range(current') \cup Range(undone')
      /\ \A x \in C : x.to = Nothing
      /\ "cut" \notin odd' => C = {}
  BY <1>1, <1>6 DEF RoomKept
<1>8. CASE e \in C
  <2>1. room' = room BY <1>1, <1>4, <1>8 DEF RoomKept, UndoIn, Has
  <2>2. Omits(r, undone', C) BY <1>1, <1>2, <1>3, <1>4, <1>8, OmitsAppend DEF RoomKept
  <2>3. RoomKept(C, r)' BY <1>1, <1>5, <1>7, <1>8, <2>1, <2>2 DEF RoomKept
  <2>. QED BY <2>3
<1>9. CASE e \notin C
  <2>1. Has(e, room.current) BY <1>2, <1>5, <1>9, LastIs DEF Has
  <2>2. /\ room'.current = Without(e, room.current) /\ room'.undone = Append(room.undone, e)
    BY <1>4, <2>1 DEF UndoIn
  <2>3. room'.current = Front(room.current) BY <1>2, <1>5, <1>9, <2>1, <2>2, WithoutIs
  <2>4. Omits(Append(r, e), undone', C) BY <1>1, <1>2, <1>3, <1>4, <1>9, OmitsAppend DEF RoomKept
  <2>5. Ends(Append(r, e), room'.undone) BY <1>1, <1>2, <1>3, <2>2, EndsAppend DEF RoomKept
  <2>6. Append(r, e) \in Seq(Edit) /\ (r = room.undone => Append(r, e) = room'.undone)
    BY <1>2, <1>3, <2>2
  <2>7. Range(room'.current) \subseteq Range(room.current) /\ Range(room'.undone) = Range(room.undone) \cup {e}
    <3>1. Range(room'.current) \subseteq Range(room.current) BY <1>2, <1>5, <1>9, <2>3, LastIs
    <3>2. Range(room'.undone) = Range(room.undone) \cup {e} BY <1>2, <1>3, <2>2, ListGrows
    <3>. QED BY <3>1, <3>2
  <2>t. PICK t : t = Append(r, e) OBVIOUS
  <2>8. t \in Seq(Edit) /\ Omits(t, undone', C) /\ Ends(t, room'.undone) /\ (r = room.undone => t = room'.undone)
    BY <2>4, <2>5, <2>6, <2>t
  <2>9. C \cap (Range(room'.current) \cup Range(room'.undone)) = {} BY <1>1, <1>9, <2>7 DEF RoomKept
  <2>10. "selected" \notin odd' => t = room'.undone BY <1>1, <2>8 DEF RoomKept
  <2>11. Omits(room'.current, current', C) BY <1>5, <1>9, <2>3
  <2>12. RoomKept(C, t)' BY <1>7, <2>8, <2>9, <2>10, <2>11 DEF RoomKept
  <2>. QED BY <2>12
<1>. QED BY <1>8, <1>9

(* The last undone edit is redone; the room knows it, or it was cut.       *)
LEMMA RoomRedo ==
  ASSUME TypeOK, RoomKnows, undone # <<>>, undone' = Front(undone),
         current' = Append(current, undone[Len(undone)]),
         Send(RedoIn(room, undone[Len(undone)])), UNCHANGED mode, odd \subseteq odd'
  PROVE  RoomKnows'
<1> SUFFICES ASSUME mode = "author", "emptied" \notin odd' PROVE \E C, r : RoomKept(C, r)'
  BY DEF RoomKnows
<1>1. PICK C, r : RoomKept(C, r) BY DEF RoomKnows
<1> DEFINE e == undone[Len(undone)]
<1>2. /\ current \in Seq(Edit) /\ room.undone \in Seq(Edit) /\ room.current \in Seq(Edit)
      /\ undone \in Seq(Edit) /\ r \in Seq(Edit)
  BY <1>1, TypeFacts DEF Lists, RoomKept
<1>3. /\ e \in Edit /\ undone = Append(Front(undone), e) /\ Front(undone) \in Seq(Edit)
  BY <1>2, LastIs
<1>4. /\ current' = Append(current, e) /\ room' = RedoIn(room, e) BY DEF Send
<1>5. IF e \in C THEN Omits(r, undone', C)
      ELSE r # <<>> /\ r[Len(r)] = e /\ Omits(Front(r), undone', C)
  BY <1>1, <1>2, OmitsFront DEF RoomKept
<1> HIDE DEF e
<1>6. /\ Range(undone) = Range(undone') \cup {e} /\ Range(current') = Range(current) \cup {e}
  <2>1. undone = Append(undone', e) BY <1>3
  <2>2. undone' \in Seq(Edit) BY <1>3
  <2>. QED BY <1>2, <1>3, <1>4, <2>1, <2>2, ListGrows
<1>7. /\ C \subseteq Range(current') \cup Range(undone')
      /\ \A x \in C : x.to = Nothing
      /\ "cut" \notin odd' => C = {}
  BY <1>1, <1>6 DEF RoomKept
<1>8. CASE e \in C
  <2>1. room' = room BY <1>1, <1>4, <1>8 DEF RoomKept, RedoIn, Has
  <2>2. Omits(room.current, current', C) BY <1>1, <1>2, <1>3, <1>4, <1>8, OmitsAppend DEF RoomKept
  <2>3. RoomKept(C, r)' BY <1>1, <1>5, <1>7, <1>8, <2>1, <2>2 DEF RoomKept
  <2>. QED BY <2>3
<1>9. CASE e \notin C
  <2>0. /\ room.undone # <<>> /\ room.undone[Len(room.undone)] = e /\ Ends(Front(r), Front(room.undone))
    BY <1>1, <1>2, <1>5, <1>9, EndsFront DEF RoomKept
  <2>1. Has(e, room.undone) BY <1>2, <2>0, LastIs DEF Has
  <2>2. /\ room'.undone = Without(e, room.undone) /\ room'.current = Append(room.current, e)
    BY <1>4, <2>1 DEF RedoIn
  <2>3. room'.undone = Front(room.undone) BY <1>2, <2>0, <2>1, <2>2, WithoutIs
  <2>4. Omits(room'.current, current', C) BY <1>1, <1>2, <1>3, <1>4, <1>9, <2>2, OmitsAppend DEF RoomKept
  <2>5. Front(r) \in Seq(Edit) /\ (r = room.undone => Front(r) = room'.undone)
    BY <1>2, <1>5, <1>9, <2>3, LastIs
  <2>7. Range(room'.undone) \subseteq Range(room.undone) /\ Range(room'.current) = Range(room.current) \cup {e}
    <3>1. Range(room'.undone) \subseteq Range(room.undone) BY <1>2, <2>0, <2>3, LastIs
    <3>2. Range(room'.current) = Range(room.current) \cup {e} BY <1>2, <1>3, <2>2, ListGrows
    <3>. QED BY <3>1, <3>2
  <2> DEFINE t == Front(r)
  <2>8. t \in Seq(Edit) /\ Omits(t, undone', C) /\ Ends(t, room'.undone) /\ (r = room.undone => t = room'.undone)
    BY <1>5, <1>9, <2>0, <2>3, <2>5
  <2> HIDE DEF t
  <2>9. RoomKept(C, t)' BY <1>1, <1>7, <1>9, <2>4, <2>7, <2>8 DEF RoomKept
  <2>. QED BY <2>9
<1>. QED BY <1>8, <1>9

(* The page has read what the room holds.                                  *)
LEMMA RoomRead ==
  ASSUME TypeOK, current' = room.current, undone' = room.undone, UNCHANGED <<mode, room>>
  PROVE  RoomKnows'
<1>1. room.current \in Seq(Edit) /\ room.undone \in Seq(Edit) BY TypeFacts DEF Lists
<1>2. Omits(room.current, room.current, {}) /\ Omits(room.undone, room.undone, {}) BY <1>1, OmitsNone
<1>3. Ends(room.undone, room.undone)
  <2>1. Len(room.undone) \in Nat BY <1>1
  <2>2. 0 \in 0 .. Len(room.undone) /\ Len(room.undone) = Len(room.undone) - 0 BY <2>1
  <2>3. \A i \in 1 .. Len(room.undone) : room.undone[i] = room.undone[i + 0] OBVIOUS
  <2>. QED BY <2>2, <2>3 DEF Ends
<1>4. RoomKept({}, room.undone)' BY <1>1, <1>2, <1>3 DEF RoomKept
<1>. QED BY <1>4 DEF RoomKnows

(* So every step keeps the lists of room and page in step.                 *)
LEMMA NextRoom ==
  ASSUME CanvasAssumption, Kept, RoomKnows, [Next]_vars
  PROVE  RoomKnows'
<1>0. TypeOK /\ Selected BY DEF Kept
<1>n. Nothing \in Layers BY NothingLayer
<1>1. CASE UNCHANGED vars BY <1>1, RoomStays DEF vars, history
<1>2. CASE Next
  <2>1. CASE \E s \in Shape : MouseDown(s)
    <3>1. CASE undone = <<>> BY <2>1, <3>1, RoomStays DEF MouseDown, Blame
    <3>2. CASE undone # <<>>
      <4>1. PICK s \in Shape : MouseDown(s) BY <2>1
      <4>2. /\ UNCHANGED <<mode, current>> /\ undone' = <<>> /\ odd \subseteq odd'
            /\ mode = "author" => room' = EmptyUndone(room)
        BY <3>2, <4>1 DEF MouseDown, Send, Blame
      <4> DEFINE q == EmptyUndone(room)
      <4>3. q.current = room.current /\ q.undone = <<>> BY <1>0, TypeFacts, EmptyUndoneIs
      <4>4. mode = "author" => room' = q BY <4>2
      <4> HIDE DEF q
      <4>. QED BY <1>0, <4>2, <4>3, <4>4, RoomEmptied
    <3>. QED BY <3>1, <3>2
  <2>2. CASE \E s \in Shape : MouseMove(s) BY <2>2, RoomStays DEF MouseMove, history, Blame
  <2>3. CASE MouseUpLeave
    <3> DEFINE one == Restrict(layer, {drawing})
               e == NewEdit(Nothing, one)
    <3>0. CASE UNCHANGED <<current, room>> BY <2>3, <3>0, RoomStays DEF MouseUpLeave, Blame
    <3> SUFFICES ASSUME ~UNCHANGED <<current, room>> PROVE RoomKnows' BY <3>0
    <3>1. one \in Layers BY <1>0, <2>3, TypeFacts, RestrictIs DEF MouseUpLeave, Found
    <3>2. e \in Edit /\ e \notin Held
      <4> HIDE DEF one
      <4>. QED BY <1>0, <1>n, <3>1, TypeFacts, NewEditIs
    <3>3. /\ current' = Append(current, e) /\ UNCHANGED <<mode, undone, odd>>
          /\ mode = "author" => room' = Push(room, e)
      BY <2>3 DEF MouseUpLeave, Send
    <3> HIDE DEF e
    <3>4. mode = "author" => room'.current = Append(room.current, e) /\ room'.undone = room.undone
      BY <1>0, <3>2, <3>3, TypeFacts, PushIs
    <3>. QED BY <1>0, <3>2, <3>3, <3>4, RoomPushed
  <2>4. CASE (\E s \in Shape : SelectShape(s)) \/ \E X \in SUBSET On(layer) : SelectBox(X)
    <3>1. \/ UNCHANGED <<mode, current, undone, room, odd>>
          \/ /\ UNCHANGED <<mode, current, room>> /\ undone' = <<>>
             /\ odd' = odd \cup If("selected", mode = "author" /\ undone # <<>>)
      BY <2>4 DEF SelectShape, SelectBox, Create, Blame
    <3>2. CASE UNCHANGED <<mode, current, undone, room, odd>> BY <3>2, RoomStays
    <3>3. CASE /\ UNCHANGED <<mode, current, room>> /\ undone' = <<>>
               /\ odd' = odd \cup If("selected", mode = "author" /\ undone # <<>>)
      <4>1. CASE undone = <<>> BY <3>3, <4>1, RoomStays DEF If
      <4>2. CASE undone # <<>>
        <5>1. mode = "author" => "selected" \in odd' BY <3>3, <4>2 DEF If
        <5>. QED BY <1>0, <3>3, <5>1, RoomEmptied
      <4>. QED BY <4>1, <4>2
    <3>. QED BY <3>1, <3>2, <3>3
  <2>6. CASE Drag
    <3> DEFINE from == Restrict(layer, nodes)
               e == NewEdit(from, Moved(from))
    <3>1. from \in Layers /\ undone = <<>> BY <1>0, <2>6, TypeFacts, RestrictIs DEF Drag, Selected
    <3>2. e \in Edit /\ e \notin Held
      <4> HIDE DEF from
      <4>1. Moved(from) \in Layers BY <3>1, MovedIs
      <4>. QED BY <1>0, <3>1, <4>1, TypeFacts, NewEditIs
    <3>3. /\ current' = Append(current, e) /\ UNCHANGED <<mode, undone, odd>>
          /\ mode = "author" => room' = Push(EmptyUndone(room), e)
      BY <2>6 DEF Drag, Send
    <3> HIDE DEF e
    <3>4. mode = "author" => room'.current = Append(room.current, e) /\ room'.undone = <<>>
      <4> DEFINE q == EmptyUndone(room)
      <4>1. q \in Lists2 /\ q.current = room.current /\ q.undone = <<>> BY <1>0, TypeFacts, EmptyUndoneIs
      <4>2. mode = "author" => room' = Push(q, e) BY <3>3
      <4> HIDE DEF q
      <4>. QED BY <3>2, <4>1, <4>2, PushIs
    <3>. QED BY <1>0, <3>1, <3>2, <3>3, <3>4, RoomPushed
  <2>7. CASE Undo
    <3>1. odd \subseteq odd' /\ mode' = mode BY <2>7 DEF Undo, Blame
    <3>2. CASE UNCHANGED <<current, undone, room>> BY <3>1, <3>2, RoomStays
    <3>3. CASE ~UNCHANGED <<current, undone, room>>
      <4>1. /\ current # <<>> /\ current' = Front(current)
            /\ undone' = Append(undone, current[Len(current)])
            /\ Send(UndoIn(room, current[Len(current)]))
        BY <2>7, <3>3 DEF Undo, history
      <4>. QED BY <1>0, <3>1, <4>1, RoomUndo
    <3>. QED BY <3>2, <3>3
  <2>8. CASE Redo
    <3>1. odd \subseteq odd' /\ mode' = mode BY <2>8 DEF Redo, Blame
    <3>2. CASE UNCHANGED <<current, undone, room>> BY <3>1, <3>2, RoomStays
    <3>3. CASE ~UNCHANGED <<current, undone, room>>
      <4>1. /\ undone # <<>> /\ undone' = Front(undone)
            /\ current' = Append(current, undone[Len(undone)])
            /\ Send(RedoIn(room, undone[Len(undone)]))
        BY <2>8, <3>3 DEF Redo, history
      <4>. QED BY <1>0, <3>1, <4>1, RoomRedo
    <3>. QED BY <3>2, <3>3
  <2>9. CASE Delete
    <3> DEFINE e == NewEdit(selection, Nothing)
    <3>1. e \in Edit /\ e \notin Held BY <1>0, <1>n, TypeFacts, NewEditIs
    <3>2. odd \subseteq odd' /\ mode' = mode /\ undone' = undone BY <2>9 DEF Delete, Blame, history
    <3>3. CASE UNCHANGED <<current, room>> BY <3>2, <3>3, RoomStays
    <3>4. CASE ~UNCHANGED <<current, room>>
      <4>1. /\ current' = Append(current, e)
            /\ mode = "author" => room' = Push(room, e)
        BY <2>9, <3>4 DEF Delete, Send, history
      <4> HIDE DEF e
      <4>2. mode = "author" => room'.current = Append(room.current, e) /\ room'.undone = room.undone
        BY <1>0, <3>1, <4>1, TypeFacts, PushIs
      <4>. QED BY <1>0, <3>1, <3>2, <4>1, <4>2, RoomPushed
    <3>. QED BY <3>3, <3>4
  <2>10. CASE \E cut \in BOOLEAN : Copy(cut) BY <2>10, RoomStays DEF Copy, history, Blame
  <2>11. CASE \E i \in DOMAIN jobs : Copied(i)
    <3>1. PICK i \in DOMAIN jobs : Copied(i) BY <2>11
    <3>2. CASE ~jobs[i].cut BY <3>1, <3>2, RoomStays DEF Copied, Blame
    <3>3. CASE jobs[i].cut
      <4> DEFINE from == Restrict(layer, jobs[i].shapes)
                 e == NewEdit(from, Nothing)
      <4>1. jobs[i].shapes \subseteq On(layer) BY DEF Kept, Groups, Grouped
      <4>2. from \in Layers BY <1>0, <4>1, TypeFacts, RestrictIs
      <4>3. e \in Edit /\ e \notin Held /\ e.to = Nothing
        <5> HIDE DEF from
        <5>. QED BY <1>0, <1>n, <4>2, TypeFacts, NewEditIs
      <4>4. /\ current' = Append(current, e) /\ UNCHANGED <<mode, undone, room>>
            /\ odd \subseteq odd' /\ (mode = "author" => "cut" \in odd')
        BY <3>1, <3>3 DEF Copied, Blame, If
      <4> HIDE DEF e
      <4>. QED BY <1>0, <4>3, <4>4, RoomCut
    <3>. QED BY <3>2, <3>3
  <2>12. CASE \E s \in Shape \ Eraser : Paste(s) BY <2>12, RoomStays DEF Paste, history
  <2>13. CASE \E s \in loading : InsertImage(s)
    <3>1. PICK s \in loading : InsertImage(s) BY <2>13
    <3> DEFINE one == [x \in {s} |-> [at |-> 1, on |-> {}]]
               e == NewEdit(Nothing, one)
    <3>2. one \in Layers BY <1>0, TypeFacts, AloneIs
    <3>3. e \in Edit /\ e \notin Held
      <4> HIDE DEF one
      <4>. QED BY <1>0, <1>n, <3>2, TypeFacts, NewEditIs
    <3>4. /\ current' = Append(current, e) /\ UNCHANGED <<mode, undone, odd>>
          /\ mode = "author" => room' = Push(room, e)
      BY <3>1 DEF InsertImage, Send
    <3> HIDE DEF e
    <3>5. mode = "author" => room'.current = Append(room.current, e) /\ room'.undone = room.undone
      BY <1>0, <3>3, <3>4, TypeFacts, PushIs
    <3>. QED BY <1>0, <3>3, <3>4, <3>5, RoomPushed
  <2>14. CASE NewFile
    <3>1. /\ current' = <<>> /\ undone' = <<>> /\ UNCHANGED <<mode, room>> /\ odd \subseteq odd'
          /\ mode = "author" => (current = <<>> /\ undone = <<>>) \/ "emptied" \in odd'
      BY <2>14 DEF NewFile, Blame, If, history
    <3>2. CASE current = <<>> /\ undone = <<>> BY <3>1, <3>2, RoomStays
    <3>3. CASE mode # "author" \/ "emptied" \in odd' BY <3>1, <3>3 DEF RoomKnows
    <3>. QED BY <3>1, <3>2, <3>3
  <2>15. CASE Reopen BY <1>0, <2>15, RoomRead DEF Reopen
  <2>. QED BY <1>2, <2>1, <2>2, <2>3, <2>4, <2>6, <2>7, <2>8, <2>9, <2>10, <2>11, <2>12, <2>13,
              <2>14, <2>15 DEF Next
<1>. QED BY <1>1, <1>2

(* At first both are empty.                                                *)
LEMMA RoomAtFirst == ASSUME Init PROVE RoomKnows
<1>1. current = <<>> /\ undone = <<>> /\ room.current = <<>> /\ room.undone = <<>> BY DEF Init
<1>2. Omits(<<>>, <<>>, {}) BY OmitsEmpty
<1>3. Ends(<<>>, <<>>) BY DEF Ends
<1>4. RoomKept({}, <<>>) BY <1>1, <1>2, <1>3 DEF RoomKept
<1>. QED BY <1>4 DEF RoomKnows

(* The room of a single author holds what the author's page holds, unless  *)
(* something was cut, or selected while edits were undone, or the page was *)
(* emptied for a new file.                                                 *)
THEOREM RoomHolds == Spec => []RoomFollows
<1>1. Init => Kept /\ RoomKnows BY InitKept, RoomAtFirst, CanvasAssumption
<1>2. Kept /\ RoomKnows /\ [Next]_vars => Kept' /\ RoomKnows' BY NextKept, NextRoom, CanvasAssumption
<1>3. Kept /\ RoomKnows => RoomFollows
  <2> SUFFICES ASSUME Kept, RoomKnows, mode = "author", "cut" \notin odd, "emptied" \notin odd
               PROVE  room.current = current /\ (room.undone = undone \/ "selected" \in odd)
    BY DEF RoomFollows
  <2>1. PICK C, r : RoomKept(C, r) BY DEF RoomKnows
  <2>2. /\ Omits(room.current, current, {}) /\ Omits(r, undone, {}) /\ r \in Seq(Edit)
        /\ "selected" \notin odd => r = room.undone
    BY <2>1 DEF RoomKept
  <2>3. current \in Seq(Edit) /\ undone \in Seq(Edit) /\ room.current \in Seq(Edit)
    BY TypeFacts DEF Kept, Lists
  <2>. QED BY <2>2, <2>3, OmitsNone
<1>. QED BY <1>1, <1>2, <1>3, PTL DEF Spec

----------------------------------------------------------------------------
(* The story of a history: the edits in the order in which they were made, *)
(* the undone ones after the current ones, and what each shape was before  *)
(* and after each of them.                                                 *)

Gone == [at |-> 0, on |-> {}]
At(l, s) == IF s \in On(l) THEN l[s] ELSE Gone

Timeline(c, u) == [i \in 1 .. Len(c) + Len(u) |-> IF i <= Len(c) THEN c[i] ELSE u[Len(c) + Len(u) + 1 - i]]

(* V[s][i] is what shape s is after i edits of the timeline T.  An edit    *)
(* takes the shapes it mentions from what they are; a shape that was       *)
(* mentioned before is there.                                              *)
StepOf(e, V, i) ==
  \A s \in Shape : IF Mentions(e, s) THEN V[s][i - 1] = At(e.from, s) /\ V[s][i] = At(e.to, s)
                   ELSE V[s][i] = V[s][i - 1]
Story(V, T) ==
  /\ \A s \in Shape : V[s][0] = Gone
  /\ \A i \in 1 .. Len(T) : StepOf(T[i], V, i)
  /\ \A i, j \in 1 .. Len(T) : i < j =>
       \A s \in Shape : Mentions(T[i], s) /\ Mentions(T[j], s) => s \in On(T[j].from)

(* A shape is on a layer unless it is gone.                                *)
LEMMA AtIs ==
  ASSUME NEW l \in Layers, NEW s \in Shape
  PROVE  At(l, s) # Gone <=> s \in On(l)
<1>1. \A a \in Attrs : a # Gone
  <2>1. \A a \in Attrs : a.at \in 1 .. 2 BY DEF Attrs
  <2>2. Gone.at = 0 BY DEF Gone
  <2>. QED BY <2>1, <2>2
<1>. QED BY <1>1, LayerIs DEF At

(* Layers on which every shape is the same are the same.                   *)
LEMMA SameAt ==
  ASSUME NEW l \in Layers, NEW m \in Layers, \A s \in Shape : At(l, s) = At(m, s)
  PROVE  l = m
<1>1. On(l) \subseteq Shape /\ On(m) \subseteq Shape BY LayerIs
<1>2. On(l) = On(m) BY <1>1, AtIs
<1>3. \A s \in On(l) : l[s] = m[s] BY <1>1, <1>2 DEF At
<1>. QED BY <1>2, <1>3, SameLayer

(* What an edit makes of one shape.                                        *)
LEMMA PutAt ==
  ASSUME NEW l \in Layers, NEW from \in Layers, NEW to \in Layers, NEW s
  PROVE  At(Put(l, from, to), s) = IF s \in On(from) \cup On(to) THEN At(to, s) ELSE At(l, s)
BY PutIs DEF At

(* The edits of a timeline are those of the two lists.                     *)
LEMMA TimelineIs ==
  ASSUME NEW c \in Seq(Edit), NEW u \in Seq(Edit)
  PROVE  /\ Timeline(c, u) \in Seq(Edit) /\ Len(Timeline(c, u)) = Len(c) + Len(u)
         /\ \A i \in 1 .. Len(c) : Timeline(c, u)[i] = c[i]
         /\ \A i \in 1 .. Len(u) : Timeline(c, u)[Len(c) + Len(u) + 1 - i] = u[i]
         /\ \A i \in 1 .. Len(c) + Len(u) : Timeline(c, u)[i] \in Range(c) \cup Range(u)
<1> DEFINE T == Timeline(c, u)
           N == Len(c) + Len(u)
<1>1. Len(c) \in Nat /\ Len(u) \in Nat OBVIOUS
<1>2. T = [i \in 1 .. N |-> IF i <= Len(c) THEN c[i] ELSE u[N + 1 - i]] BY DEF Timeline
<1>3. \A i \in 1 .. N : i > Len(c) => N + 1 - i \in 1 .. Len(u) BY <1>1
<1>4. \A i \in 1 .. N : T[i] \in Edit /\ T[i] \in Range(c) \cup Range(u)
  <2> TAKE i \in 1 .. N
  <2>1. CASE i <= Len(c)
    <3>1. i \in 1 .. Len(c) /\ T[i] = c[i] BY <1>1, <1>2, <2>1
    <3>. QED BY <3>1 DEF Range
  <2>2. CASE i > Len(c)
    <3>1. N + 1 - i \in 1 .. Len(u) /\ T[i] = u[N + 1 - i] BY <1>1, <1>2, <1>3, <2>2
    <3>. QED BY <3>1 DEF Range
  <2>. QED BY <1>1, <2>1, <2>2
<1>5. N \in Nat BY <1>1
<1>6. T \in [1 .. N -> Edit] BY <1>2, <1>4
<1>7. T \in Seq(Edit) /\ Len(T) = N
  <2> HIDE DEF T, N
  <2>. QED BY <1>5, <1>6
<1>8. \A i \in 1 .. Len(c) : T[i] = c[i] BY <1>1, <1>2
<1>9. \A i \in 1 .. Len(u) : T[N + 1 - i] = u[i]
  <2> TAKE i \in 1 .. Len(u)
  <2>1. N + 1 - i \in 1 .. N /\ ~(N + 1 - i <= Len(c)) /\ N + 1 - (N + 1 - i) = i BY <1>1
  <2> HIDE DEF N
  <2>. QED BY <1>2, <2>1
<1>. QED BY <1>4, <1>7, <1>8, <1>9

(* Undo and redo leave the timeline as it is.                              *)
LEMMA TimelineStays ==
  ASSUME NEW c \in Seq(Edit), NEW u \in Seq(Edit), NEW e \in Edit
  PROVE  Timeline(Append(c, e), u) = Timeline(c, Append(u, e))
<1> DEFINE d == Append(c, e)
           v == Append(u, e)
<1>1. /\ Len(c) \in Nat /\ Len(u) \in Nat /\ Len(d) = Len(c) + 1 /\ Len(v) = Len(u) + 1
      /\ \A i \in 1 .. Len(c) : d[i] = c[i]
      /\ \A i \in 1 .. Len(u) : v[i] = u[i]
      /\ d[Len(c) + 1] = e /\ v[Len(u) + 1] = e
  OBVIOUS
<1> HIDE DEF d, v
<1> DEFINE N == Len(c) + Len(u) + 1
<1>2. Len(d) + Len(u) = N /\ Len(c) + Len(v) = N /\ N \in Nat BY <1>1
<1>3. ASSUME NEW i \in 1 .. N
      PROVE  (IF i <= Len(d) THEN d[i] ELSE u[N + 1 - i]) = (IF i <= Len(c) THEN c[i] ELSE v[N + 1 - i])
  <2>1. CASE i <= Len(c) BY <1>1, <2>1
  <2>2. CASE i = Len(c) + 1
    <3>1. N + 1 - i = Len(u) + 1 BY <1>1, <2>2
    <3>. QED BY <1>1, <2>2, <3>1
  <2>3. CASE i > Len(c) + 1
    <3>1. N + 1 - i \in 1 .. Len(u) BY <1>1, <2>3
    <3>. QED BY <1>1, <2>3, <3>1
  <2>. QED BY <1>1, <2>1, <2>2, <2>3
<1> HIDE DEF N
<1>4. Timeline(d, u) = [i \in 1 .. N |-> IF i <= Len(d) THEN d[i] ELSE u[N + 1 - i]] BY <1>2 DEF Timeline
<1>5. Timeline(c, v) = [i \in 1 .. N |-> IF i <= Len(c) THEN c[i] ELSE v[N + 1 - i]] BY <1>2 DEF Timeline
<1>6. Timeline(d, u) = Timeline(c, v) BY <1>3, <1>4, <1>5
<1>. QED BY <1>6 DEF d, v

(* T2 is T with e after the first k edits.                                 *)
Inserted(T2, T, k, e) ==
  /\ Len(T2) = Len(T) + 1 /\ T2[k + 1] = e
  /\ \A i \in 1 .. k : T2[i] = T[i]
  /\ \A i \in k + 1 .. Len(T) : T2[i + 1] = T[i]

(* A new edit comes after the current ones.                                *)
LEMMA TimelineGrows ==
  ASSUME NEW c \in Seq(Edit), NEW u \in Seq(Edit), NEW e \in Edit
  PROVE  Inserted(Timeline(Append(c, e), u), Timeline(c, u), Len(c), e)
<1> DEFINE d == Append(c, e)
           T == Timeline(c, u)
           T2 == Timeline(d, u)
<1>1. /\ Len(c) \in Nat /\ Len(u) \in Nat /\ Len(d) = Len(c) + 1 /\ d \in Seq(Edit)
      /\ \A i \in 1 .. Len(c) : d[i] = c[i]
      /\ d[Len(c) + 1] = e
  OBVIOUS
<1> HIDE DEF d
<1>2. Len(T) = Len(c) + Len(u) /\ \A i \in 1 .. Len(c) : T[i] = c[i] BY TimelineIs
<1>3. /\ Len(T2) = Len(d) + Len(u) /\ \A i \in 1 .. Len(d) : T2[i] = d[i] BY <1>1, TimelineIs
<1>4. \A i \in Len(c) + 1 .. Len(T) : T2[i + 1] = T[i]
  <2> TAKE i \in Len(c) + 1 .. Len(T)
  <2>1. T[i] = u[Len(c) + Len(u) + 1 - i] BY <1>1, <1>2 DEF Timeline
  <2>2. T2[i + 1] = u[Len(d) + Len(u) + 1 - (i + 1)] BY <1>1, <1>2 DEF Timeline
  <2>3. Len(d) + Len(u) + 1 - (i + 1) = Len(c) + Len(u) + 1 - i BY <1>1, <1>2
  <2>. QED BY <2>1, <2>2, <2>3
<1>5. \A i \in 1 .. Len(c) : T2[i] = T[i] BY <1>1, <1>2, <1>3
<1>6. T2[Len(c) + 1] = e /\ Len(T2) = Len(T) + 1 BY <1>1, <1>2, <1>3
<1> HIDE DEF T, T2
<1>7. Inserted(T2, T, Len(c), e) BY <1>4, <1>5, <1>6 DEF Inserted
<1>. QED BY <1>7 DEF T, T2, d

(* Without undone edits the timeline is the list of the current ones.      *)
LEMMA TimelineAlone ==
  ASSUME NEW c \in Seq(Edit)
  PROVE  Timeline(c, <<>>) = c
<1> DEFINE T == Timeline(c, <<>>)
<1>1. Len(c) \in Nat /\ <<>> \in Seq(Edit) /\ Len(<<>>) = 0 OBVIOUS
<1>2. T \in Seq(Edit) /\ Len(T) = Len(c) + 0 /\ \A i \in 1 .. Len(c) : T[i] = c[i]
  BY <1>1, TimelineIs
<1> HIDE DEF T
<1>3. T = c BY <1>1, <1>2
<1>. QED BY <1>3 DEF T

----------------------------------------------------------------------------
(* What a story tells.                                                     *)

(* A shape that no edit has mentioned is gone.                             *)
LEMMA StoryKnows ==
  ASSUME NEW T \in Seq(Edit), NEW V, Story(V, T), NEW s \in Shape
  PROVE  \A i \in 0 .. Len(T) : V[s][i] # Gone => \E j \in 1 .. i : Mentions(T[j], s)
<1>0. Len(T) \in Nat OBVIOUS
<1> DEFINE U == {i \in 0 .. Len(T) : V[s][i] # Gone => \E j \in 1 .. i : Mentions(T[j], s)}
<1>1. 0 \in U BY <1>0 DEF Story
<1>2. ASSUME NEW i \in 1 .. Len(T), i - 1 \in U PROVE i \in U
  <2>1. i \in 1 .. i /\ \A j \in 1 .. i - 1 : j \in 1 .. i BY <1>0
  <2>2. CASE Mentions(T[i], s) BY <2>1, <2>2
  <2>3. CASE ~Mentions(T[i], s)
    <3>1. V[s][i] = V[s][i - 1] BY <2>3 DEF Story, StepOf
    <3>. QED BY <1>2, <2>1, <3>1
  <2>. QED BY <2>2, <2>3
<1> HIDE DEF U
<1>3. \A i \in 0 .. Len(T) : i \in U BY <1>0, <1>1, <1>2, InductionUpTo
<1>. QED BY <1>3 DEF U

(* The start of a story is a story.                                        *)
LEMMA StoryTrims ==
  ASSUME NEW T \in Seq(Edit), NEW V, Story(V, T), NEW c \in Seq(Edit), Len(c) <= Len(T),
         \A i \in 1 .. Len(c) : c[i] = T[i]
  PROVE  Story(V, c)
<1>1. Len(c) \in Nat /\ Len(T) \in Nat OBVIOUS
<1>2. \A i \in 1 .. Len(c) : i \in 1 .. Len(T) BY <1>1
<1>. QED BY <1>2 DEF Story

(* The replay of its start ends as it tells.                               *)
LEMMA StoryShows ==
  ASSUME NEW T \in Seq(Edit), NEW V, Story(V, T), NEW q \in Seq(Edit), Len(q) <= Len(T),
         \A i \in 1 .. Len(q) : q[i] = T[i]
  PROVE  \A s \in Shape : At(Replay(q), s) = V[s][Len(q)]
<1>0. Len(q) \in Nat /\ Len(T) \in Nat OBVIOUS
<1>1. PICK f : Drawing(f, q) /\ f[Len(q)] = Replay(q) BY ReplayStates
<1> DEFINE U == {i \in 0 .. Len(q) : \A s \in Shape : At(f[i], s) = V[s][i]}
<1>2. 0 \in U
  <2>1. \A s \in Shape : At(f[0], s) = Gone BY <1>1, NothingLayer DEF Drawing, At
  <2>. QED BY <1>0, <2>1 DEF Story
<1>3. ASSUME NEW i \in 1 .. Len(q), i - 1 \in U PROVE i \in U
  <2>1. q[i] \in Edit /\ i \in 1 .. Len(T) /\ f[i - 1] \in Layers
    <3>1. i - 1 \in 0 .. Len(q) /\ i \in 1 .. Len(T) BY <1>0
    <3>. QED BY <1>1, <3>1 DEF Drawing
  <2>2. f[i] = Put(f[i - 1], q[i].from, q[i].to) BY <1>1 DEF Drawing
  <2>3. StepOf(q[i], V, i) BY <2>1 DEF Story
  <2>4. ASSUME NEW s \in Shape PROVE At(f[i], s) = V[s][i]
    <3>1. At(f[i], s) = IF Mentions(q[i], s) THEN At(q[i].to, s) ELSE At(f[i - 1], s)
      BY <2>1, <2>2, EditIs, PutAt DEF Mentions
    <3>. QED BY <1>3, <2>3, <3>1 DEF StepOf
  <2>. QED BY <2>4
<1>4. Len(q) \in U
  <2> HIDE DEF U
  <2>1. \A i \in 0 .. Len(q) : i \in U BY <1>0, <1>2, <1>3, InductionUpTo
  <2>. QED BY <1>0, <2>1
<1>. QED BY <1>1, <1>4

(* An edit that fits after k edits: it takes its shapes as they are then,  *)
(* and the edits that follow do not mention them.                          *)
Fits(V, T, k, e) ==
  \A s \in Shape : Mentions(e, s) =>
    /\ V[s][k] = At(e.from, s)
    /\ \A i \in k + 1 .. Len(T) : ~Mentions(T[i], s)
    /\ s \in On(e.from) \/ \A i \in 1 .. Len(T) : ~Mentions(T[i], s)
Continues(V2, V, T, k, e) ==
  \A s \in Shape :
    /\ \A i \in 0 .. k : V2[s][i] = V[s][i]
    /\ \A i \in k + 1 .. Len(T) + 1 : V2[s][i] = IF Mentions(e, s) THEN At(e.to, s) ELSE V[s][i - 1]

(* An edit that fits continues the story.                                  *)
LEMMA StoryGrows ==
  ASSUME NEW T \in Seq(Edit), NEW V, Story(V, T), NEW k \in 0 .. Len(T), NEW e \in Edit,
         NEW T2 \in Seq(Edit), Inserted(T2, T, k, e), Fits(V, T, k, e)
  PROVE  \E V2 : Story(V2, T2) /\ Continues(V2, V, T, k, e)
<1>0. Len(T) \in Nat /\ k \in Nat /\ k <= Len(T) OBVIOUS
<1> DEFINE V2 == [s \in Shape |-> [i \in 0 .. Len(T) + 1 |->
                    IF i <= k THEN V[s][i] ELSE IF Mentions(e, s) THEN At(e.to, s) ELSE V[s][i - 1]]]
<1>1. Continues(V2, V, T, k, e) BY <1>0 DEF Continues
<1> HIDE DEF V2
<1>2. /\ Len(T2) = Len(T) + 1 /\ T2[k + 1] = e
      /\ \A i \in 1 .. k : T2[i] = T[i]
      /\ \A i \in k + 1 .. Len(T) : T2[i + 1] = T[i]
  BY DEF Inserted
<1>3. \A s \in Shape : V2[s][0] = Gone BY <1>0, <1>1 DEF Continues, Story
<1>4. ASSUME NEW i \in 1 .. Len(T2) PROVE StepOf(T2[i], V2, i)
  <2>1. CASE i <= k
    <3>0. i \in 1 .. k BY <1>0, <1>2, <2>1
    <3>1. T2[i] = T[i] /\ i \in 1 .. Len(T) /\ i \in 0 .. k /\ i - 1 \in 0 .. k BY <1>0, <1>2, <3>0
    <3>2. StepOf(T[i], V, i) BY <3>1 DEF Story
    <3>. QED BY <1>1, <3>1, <3>2 DEF StepOf, Continues
  <2>2. CASE i = k + 1
    <3>1. T2[i] = e /\ i - 1 = k /\ k \in 0 .. k /\ i \in k + 1 .. Len(T) + 1 BY <1>0, <1>2, <2>2
    <3>2. \A s \in Shape : V2[s][i - 1] = V[s][k] /\ V2[s][i] = IF Mentions(e, s) THEN At(e.to, s) ELSE V[s][k]
      BY <1>1, <3>1 DEF Continues
    <3>. QED BY <3>1, <3>2 DEF StepOf, Fits
  <2>3. CASE i > k + 1
    <3>0. i - 1 \in k + 1 .. Len(T) /\ i - 1 + 1 = i BY <1>0, <1>2, <2>3
    <3>1. i - 1 \in k + 1 .. Len(T) /\ T2[i - 1 + 1] = T[i - 1] /\ i - 1 + 1 = i BY <1>2, <3>0
    <3>2. i \in k + 1 .. Len(T) + 1 /\ i - 1 \in k + 1 .. Len(T) + 1 /\ i - 1 \in 1 .. Len(T)
      BY <1>0, <3>1
    <3>3. StepOf(T[i - 1], V, i - 1) BY <3>2 DEF Story
    <3>4. ASSUME NEW s \in Shape
          PROVE  IF Mentions(T[i - 1], s)
                 THEN V2[s][i - 1] = At(T[i - 1].from, s) /\ V2[s][i] = At(T[i - 1].to, s)
                 ELSE V2[s][i] = V2[s][i - 1]
      <4>1. /\ V2[s][i] = IF Mentions(e, s) THEN At(e.to, s) ELSE V[s][i - 1]
            /\ V2[s][i - 1] = IF Mentions(e, s) THEN At(e.to, s) ELSE V[s][i - 1 - 1]
        BY <1>1, <3>2 DEF Continues
      <4>2. CASE Mentions(e, s)
        <5>1. ~Mentions(T[i - 1], s) BY <3>1, <4>2 DEF Fits
        <5>. QED BY <4>1, <4>2, <5>1
      <4>3. CASE ~Mentions(e, s) BY <3>3, <4>1, <4>3 DEF StepOf
      <4>. QED BY <4>2, <4>3
    <3>. QED BY <3>1, <3>4 DEF StepOf
  <2>. QED BY <1>0, <1>2, <2>1, <2>2, <2>3
<1>5. ASSUME NEW i \in 1 .. Len(T2), NEW j \in 1 .. Len(T2), i < j, NEW s \in Shape,
             Mentions(T2[i], s), Mentions(T2[j], s)
      PROVE  s \in On(T2[j].from)
  <2>1. CASE j = k + 1
    <3>1. T2[j] = e /\ T2[i] = T[i] /\ i \in 1 .. Len(T) BY <1>0, <1>2, <1>5, <2>1
    <3>. QED BY <1>5, <3>1 DEF Fits
  <2>2. CASE i = k + 1
    <3>1. T2[i] = e /\ j - 1 \in k + 1 .. Len(T) /\ T2[j - 1 + 1] = T[j - 1] /\ j - 1 + 1 = j
      BY <1>0, <1>2, <1>5, <2>2
    <3>. QED BY <1>5, <3>1 DEF Fits
  <2>3. CASE i # k + 1 /\ j # k + 1
    <3> DEFINE m(x) == IF x <= k THEN x ELSE x - 1
    <3>1. ASSUME NEW x \in 1 .. Len(T2), x # k + 1 PROVE m(x) \in 1 .. Len(T) /\ T2[x] = T[m(x)]
      <4>1. CASE x <= k BY <1>0, <1>2, <4>1
      <4>2. CASE x > k + 1
        <5>1. x - 1 \in k + 1 .. Len(T) /\ x - 1 + 1 = x BY <1>0, <1>2, <4>2
        <5>2. T2[x - 1 + 1] = T[x - 1] BY <1>2, <5>1
        <5>. QED BY <1>0, <4>2, <5>1, <5>2
      <4>. QED BY <1>0, <3>1, <4>1, <4>2
    <3>2. m(i) < m(j) BY <1>0, <1>2, <1>5, <2>3
    <3> HIDE DEF m
    <3>. QED BY <1>5, <2>3, <3>1, <3>2 DEF Story
  <2>. QED BY <2>1, <2>2, <2>3
<1>6. Story(V2, T2) BY <1>3, <1>4, <1>5 DEF Story
<1>. QED BY <1>1, <1>6

----------------------------------------------------------------------------
(* The story of the room, where what was cut has never happened.           *)

(* Edits that are left out of the current ones are left out of the         *)
(* timeline.                                                               *)
LEMMA OmitsTimeline ==
  ASSUME NEW r \in Seq(Edit), NEW c \in Seq(Edit), NEW u \in Seq(Edit), NEW C,
         Omits(r, c, C), C \cap Range(u) = {}
  PROVE  Omits(Timeline(r, u), Timeline(c, u), C)
<1>1. PICK n : OmitsBy(n, r, c, C) BY DEF Omits
<1>2. /\ n \in [0 .. Len(c) -> Nat] /\ n[0] = 0 /\ n[Len(c)] = Len(r)
      /\ \A i, j \in 0 .. Len(c) : i <= j => n[i] <= n[j]
      /\ \A j \in 1 .. Len(c) :
           IF c[j] \in C THEN n[j] = n[j - 1] ELSE n[j] = n[j - 1] + 1 /\ r[n[j]] = c[j]
  BY <1>1 DEF OmitsBy
<1> DEFINE T == Timeline(c, u)
           T2 == Timeline(r, u)
<1>3. /\ Len(c) \in Nat /\ Len(r) \in Nat /\ Len(u) \in Nat
      /\ Len(T) = Len(c) + Len(u) /\ Len(T2) = Len(r) + Len(u)
      /\ \A i \in 1 .. Len(c) : T[i] = c[i]
      /\ \A i \in 1 .. Len(r) : T2[i] = r[i]
  <2>1. Len(c) \in Nat /\ Len(r) \in Nat /\ Len(u) \in Nat OBVIOUS
  <2>2. Len(T) = Len(c) + Len(u) /\ \A i \in 1 .. Len(c) : T[i] = c[i] BY TimelineIs
  <2>3. Len(T2) = Len(r) + Len(u) /\ \A i \in 1 .. Len(r) : T2[i] = r[i] BY TimelineIs
  <2> HIDE DEF T, T2
  <2>. QED BY <2>1, <2>2, <2>3
<1>4. \A i \in 1 .. Len(u) : T[Len(c) + i] = T2[Len(r) + i] /\ T[Len(c) + i] \in Range(u)
  <2> TAKE i \in 1 .. Len(u)
  <2> DEFINE k == Len(u) + 1 - i
  <2>1. /\ k \in 1 .. Len(u)
        /\ Len(c) + Len(u) + 1 - k = Len(c) + i /\ Len(r) + Len(u) + 1 - k = Len(r) + i
    BY <1>3
  <2> HIDE DEF k
  <2>2. T[Len(c) + Len(u) + 1 - k] = u[k] /\ T2[Len(r) + Len(u) + 1 - k] = u[k] BY <2>1, TimelineIs
  <2>3. u[k] \in Range(u) BY <2>1 DEF Range
  <2>. QED BY <2>1, <2>2, <2>3
<1> HIDE DEF T, T2
<1> DEFINE m == [j \in 0 .. Len(T) |-> IF j <= Len(c) THEN n[j] ELSE Len(r) + (j - Len(c))]
<1>5. /\ \A j \in 0 .. Len(c) : m[j] = n[j]
      /\ \A j \in 0 .. Len(u) : m[Len(c) + j] = Len(r) + j
      /\ m \in [0 .. Len(T) -> Nat]
  <2>1. \A j \in 0 .. Len(c) : m[j] = n[j] BY <1>3
  <2>2. ASSUME NEW j \in 0 .. Len(u) PROVE m[Len(c) + j] = Len(r) + j
    <3>1. CASE j = 0 BY <1>2, <1>3, <2>1, <3>1
    <3>2. CASE j > 0
      <4>1. Len(c) + j \in 0 .. Len(T) /\ ~(Len(c) + j <= Len(c)) /\ Len(c) + j - Len(c) = j BY <1>3, <3>2
      <4>. QED BY <4>1
    <3>. QED BY <3>1, <3>2
  <2>3. ASSUME NEW j \in 0 .. Len(T) PROVE m[j] \in Nat
    <3>1. CASE j <= Len(c)
      <4>1. j \in 0 .. Len(c) BY <1>3, <3>1
      <4>2. n[j] \in Nat BY <1>2, <4>1
      <4>. QED BY <2>1, <4>1, <4>2
    <3>2. CASE ~(j <= Len(c))
      <4>1. Len(r) + (j - Len(c)) \in Nat BY <1>3, <3>2
      <4>. QED BY <3>2, <4>1
    <3>. QED BY <3>1, <3>2
  <2>. QED BY <2>1, <2>2, <2>3
<1> HIDE DEF m
<1>6. \A j \in 0 .. Len(T) : j \in 0 .. Len(c) \/ \E i \in 1 .. Len(u) : j = Len(c) + i
  <2> TAKE j \in 0 .. Len(T)
  <2>1. CASE ~(j <= Len(c))
    <3>1. j - Len(c) \in 1 .. Len(u) /\ j = Len(c) + (j - Len(c)) BY <1>3, <2>1
    <3>. QED BY <3>1
  <2>. QED BY <1>3, <2>1
<1>7. ASSUME NEW i \in 0 .. Len(T), NEW j \in 0 .. Len(T), i <= j PROVE m[i] <= m[j]
  <2>1. \A a \in 0 .. Len(c) : m[a] \in Nat /\ m[a] <= Len(r)
    <3>1. Len(c) \in 0 .. Len(c) BY <1>3
    <3>2. \A a \in 0 .. Len(c) : n[a] \in Nat /\ n[a] <= n[Len(c)] BY <1>2, <3>1
    <3>. QED BY <1>2, <1>5, <3>2
  <2>2. CASE i \in 0 .. Len(c) /\ j \in 0 .. Len(c) BY <1>2, <1>5, <1>7, <2>2
  <2>3. CASE j \notin 0 .. Len(c)
    <3>1. PICK b \in 1 .. Len(u) : j = Len(c) + b BY <1>6, <2>3
    <3>2. m[j] = Len(r) + b BY <1>5, <3>1
    <3>3. CASE i \in 0 .. Len(c) BY <1>3, <2>1, <3>2, <3>3
    <3>4. CASE i \notin 0 .. Len(c)
      <4>1. PICK a \in 1 .. Len(u) : i = Len(c) + a BY <1>6, <3>4
      <4>2. m[i] = Len(r) + a BY <1>5, <4>1
      <4>. QED BY <1>3, <1>7, <3>1, <3>2, <4>1, <4>2
    <3>. QED BY <3>3, <3>4
  <2>4. CASE i \notin 0 .. Len(c) /\ j \in 0 .. Len(c) BY <1>3, <1>7, <2>4
  <2>. QED BY <2>2, <2>3, <2>4
<1>8. ASSUME NEW j \in 1 .. Len(T)
      PROVE  IF T[j] \in C THEN m[j] = m[j - 1] ELSE m[j] = m[j - 1] + 1 /\ T2[m[j]] = T[j]
  <2>1. CASE j \in 0 .. Len(c)
    <3>1. j \in 1 .. Len(c) /\ j - 1 \in 0 .. Len(c) BY <1>3, <2>1
    <3>2. m[j] = n[j] /\ m[j - 1] = n[j - 1] /\ T[j] = c[j]
      <4>1. j \in 0 .. Len(c) BY <3>1
      <4>. QED BY <1>3, <1>5, <3>1, <4>1
    <3>3. CASE c[j] \in C BY <1>2, <3>1, <3>2, <3>3
    <3>4. CASE c[j] \notin C
      <4>0. Len(c) \in 0 .. Len(c) /\ j \in 0 .. Len(c) /\ j <= Len(c) BY <1>3, <3>1
      <4>1. n[j] = n[j - 1] + 1 /\ r[n[j]] = c[j] /\ n[j] <= n[Len(c)] /\ n[j - 1] \in Nat
        BY <1>2, <3>1, <3>4, <4>0
      <4>2. n[j] \in 1 .. Len(r) BY <1>2, <1>3, <4>1
      <4>. QED BY <1>3, <3>2, <3>4, <4>1, <4>2
    <3>. QED BY <3>3, <3>4
  <2>2. CASE j \notin 0 .. Len(c)
    <3>1. PICK i \in 1 .. Len(u) : j = Len(c) + i BY <1>6, <2>2
    <3>2. j - 1 = Len(c) + (i - 1) /\ i - 1 \in 0 .. Len(u) /\ i \in 0 .. Len(u) BY <1>3, <3>1
    <3>3. m[j] = Len(r) + i /\ m[j - 1] = Len(r) + (i - 1) BY <1>5, <3>1, <3>2
    <3>4. T[j] \notin C /\ T2[m[j]] = T[j] BY <1>4, <3>1, <3>3
    <3>5. m[j] = m[j - 1] + 1 BY <1>3, <3>1, <3>3
    <3>. QED BY <3>4, <3>5
  <2>. QED BY <2>1, <2>2
<1>9. m[0] = 0 /\ m[Len(T)] = Len(T2)
  <2>1. 0 \in 0 .. Len(c) /\ Len(u) \in 0 .. Len(u) BY <1>3
  <2>. QED BY <1>2, <1>3, <1>5, <2>1
<1>10. OmitsBy(m, T2, T, C) BY <1>5, <1>7, <1>8, <1>9 DEF OmitsBy
<1>11. Omits(T2, T, C) BY <1>10 DEF Omits
<1>. QED BY <1>11 DEF T, T2

(* Without some of the removals there is a story as well: a shape that was *)
(* removed is not mentioned again.                                         *)
LEMMA StoryOfRest ==
  ASSUME NEW T \in Seq(Edit), NEW V, Story(V, T), NEW T2 \in Seq(Edit), NEW C, Omits(T2, T, C),
         \A e \in C : e.to = Nothing
  PROVE  \E V2 : Story(V2, T2)
<1>0. Len(T) \in Nat /\ Len(T2) \in Nat OBVIOUS
<1>1. PICK n : OmitsBy(n, T2, T, C) BY DEF Omits
<1>2. /\ n \in [0 .. Len(T) -> Nat] /\ n[0] = 0 /\ n[Len(T)] = Len(T2)
      /\ \A i, j \in 0 .. Len(T) : i <= j => n[i] <= n[j]
      /\ \A j \in 1 .. Len(T) :
           IF T[j] \in C THEN n[j] = n[j - 1] ELSE n[j] = n[j - 1] + 1 /\ T2[n[j]] = T[j]
  BY <1>1 DEF OmitsBy
<1>3. PICK f : Drawing(f, T2) BY ReplayStates
<1> DEFINE V2 == [s \in Shape |-> [i \in 0 .. Len(T2) |-> At(f[i], s)]]
<1>4. \A s \in Shape : V2[s][0] = Gone BY <1>0, <1>3, NothingLayer DEF Drawing, At
<1>5. ASSUME NEW k \in 1 .. Len(T2), NEW s \in Shape
      PROVE  V2[s][k] = IF Mentions(T2[k], s) THEN At(T2[k].to, s) ELSE V2[s][k - 1]
  <2>1. k - 1 \in 0 .. Len(T2) /\ k \in 0 .. Len(T2) /\ T2[k] \in Edit BY <1>0
  <2>2. f[k - 1] \in Layers /\ f[k] = Put(f[k - 1], T2[k].from, T2[k].to) BY <1>3, <2>1 DEF Drawing
  <2>3. At(f[k], s) = IF Mentions(T2[k], s) THEN At(T2[k].to, s) ELSE At(f[k - 1], s)
    BY <2>1, <2>2, EditIs, PutAt DEF Mentions
  <2>. QED BY <2>1, <2>3
<1> HIDE DEF V2
<1>6. ASSUME NEW s \in Shape
      PROVE  \A k \in 0 .. Len(T2) : V2[s][k] # Gone => \E i \in 1 .. k : Mentions(T2[i], s)
  <2> DEFINE U == {k \in 0 .. Len(T2) : V2[s][k] # Gone => \E i \in 1 .. k : Mentions(T2[i], s)}
  <2>1. 0 \in U BY <1>0, <1>4
  <2>2. ASSUME NEW k \in 1 .. Len(T2), k - 1 \in U PROVE k \in U
    <3>1. k \in 1 .. k /\ \A i \in 1 .. k - 1 : i \in 1 .. k BY <1>0
    <3>2. CASE Mentions(T2[k], s) BY <3>1, <3>2
    <3>3. CASE ~Mentions(T2[k], s)
      <4>1. V2[s][k] = V2[s][k - 1] BY <1>5, <3>3
      <4>. QED BY <2>2, <3>1, <4>1
    <3>. QED BY <3>2, <3>3
  <2> HIDE DEF U
  <2>3. \A k \in 0 .. Len(T2) : k \in U BY <1>0, <2>1, <2>2, InductionUpTo
  <2>. QED BY <2>3 DEF U
<1> DEFINE Same(j) == \A s \in Shape : V[s][j] # Gone => V2[s][n[j]] = V[s][j]
           Heard(j) == \A k \in 1 .. n[j] : \A s \in Shape :
                         Mentions(T2[k], s) => \E i \in 1 .. j : Mentions(T[i], s)
           Taken(j) == \A k \in 1 .. n[j] : \A s \in Shape :
                         Mentions(T2[k], s) => V2[s][k - 1] = At(T2[k].from, s)
           Once(j) == \A i, k \in 1 .. n[j] : i < k =>
                        \A s \in Shape : Mentions(T2[i], s) /\ Mentions(T2[k], s) => s \in On(T2[k].from)
           U == {j \in 0 .. Len(T) : Same(j) /\ Heard(j) /\ Taken(j) /\ Once(j)}
<1>7. 0 \in U
  <2>1. Same(0) BY DEF Story
  <2>2. Heard(0) /\ Taken(0) /\ Once(0) BY <1>2
  <2>. QED BY <1>0, <2>1, <2>2
<1>8. ASSUME NEW j \in 1 .. Len(T), j - 1 \in U PROVE j \in U
  <2>1. Same(j - 1) /\ Heard(j - 1) /\ Taken(j - 1) /\ Once(j - 1) BY <1>8
  <2>2. /\ j \in 0 .. Len(T) /\ j - 1 \in 0 .. Len(T) /\ T[j] \in Edit /\ j \in 1 .. j
        /\ \A i \in 1 .. j - 1 : i \in 1 .. j /\ i \in 1 .. Len(T) /\ i < j
    BY <1>0
  <2>3. StepOf(T[j], V, j) BY DEF Story
  <2>4. \A i \in 1 .. j - 1 : \A s \in Shape :
           Mentions(T[i], s) /\ Mentions(T[j], s) => s \in On(T[j].from)
    BY <2>2 DEF Story
  <2>5. CASE T[j] \in C
    <3>1. n[j] = n[j - 1] /\ T[j].to = Nothing BY <1>2, <2>5
    <3>2. Same(j)
      <4> SUFFICES ASSUME NEW s \in Shape, V[s][j] # Gone PROVE V2[s][n[j]] = V[s][j] OBVIOUS
      <4>1. ~Mentions(T[j], s)
        <5>1. At(T[j].to, s) = Gone BY <3>1, NothingLayer DEF At
        <5>. QED BY <2>3, <5>1 DEF StepOf
      <4>2. V[s][j] = V[s][j - 1] BY <2>3, <4>1 DEF StepOf
      <4>. QED BY <2>1, <3>1, <4>2
    <3>3. Heard(j) BY <2>1, <2>2, <3>1
    <3>4. Taken(j) /\ Once(j) BY <2>1, <3>1
    <3> HIDE DEF Same, Heard, Taken, Once
    <3>. QED BY <2>2, <3>2, <3>3, <3>4
  <2>6. CASE T[j] \notin C
    <3> DEFINE m == n[j - 1]
    <3>1. n[j] = m + 1 /\ T2[m + 1] = T[j] BY <1>2, <2>6
    <3>2. m \in Nat /\ m + 1 \in 1 .. Len(T2) /\ m \in 0 .. Len(T2) /\ m + 1 - 1 = m
      <4>1. n[j] <= n[Len(T)] /\ m \in Nat BY <1>0, <1>2, <2>2
      <4>. QED BY <1>0, <1>2, <3>1, <4>1
    <3>3. \A s \in Shape : V2[s][m + 1] = IF Mentions(T[j], s) THEN At(T[j].to, s) ELSE V2[s][m]
      BY <1>5, <3>1, <3>2
    <3>4. \A k \in 1 .. n[j] : k \in 1 .. m \/ k = m + 1 BY <3>1, <3>2
    <3>5. Same(j)
      <4> SUFFICES ASSUME NEW s \in Shape, V[s][j] # Gone PROVE V2[s][n[j]] = V[s][j] OBVIOUS
      <4>1. CASE Mentions(T[j], s) BY <2>3, <3>1, <3>3, <4>1 DEF StepOf
      <4>2. CASE ~Mentions(T[j], s)
        <5>1. V[s][j] = V[s][j - 1] BY <2>3, <4>2 DEF StepOf
        <5>2. V2[s][m] = V[s][j - 1] BY <2>1, <5>1
        <5>. QED BY <3>1, <3>3, <4>2, <5>1, <5>2
      <4>. QED BY <4>1, <4>2
    <3>6. Heard(j) BY <2>1, <2>2, <3>1, <3>4
    <3>7. \A s \in Shape : Mentions(T[j], s) => V2[s][m] = At(T[j].from, s)
      <4> SUFFICES ASSUME NEW s \in Shape, Mentions(T[j], s) PROVE V2[s][m] = At(T[j].from, s) OBVIOUS
      <4>1. V[s][j - 1] = At(T[j].from, s) BY <2>3 DEF StepOf
      <4>2. CASE s \in On(T[j].from)
        <5>1. V[s][j - 1] # Gone BY <2>2, <4>1, <4>2, EditIs, AtIs
        <5>. QED BY <2>1, <4>1, <5>1
      <4>3. CASE s \notin On(T[j].from)
        <5>1. At(T[j].from, s) = Gone BY <4>3 DEF At
        <5>2. ASSUME V2[s][m] # Gone PROVE FALSE
          <6>1. PICK i \in 1 .. m : Mentions(T2[i], s) BY <1>6, <3>2, <5>2
          <6>2. \E x \in 1 .. j - 1 : Mentions(T[x], s) BY <2>1, <6>1
          <6>. QED BY <2>4, <4>3, <6>2
        <5>. QED BY <5>1, <5>2
      <4>. QED BY <4>2, <4>3
    <3>8. Taken(j)
      <4> SUFFICES ASSUME NEW k \in 1 .. n[j], NEW s \in Shape, Mentions(T2[k], s)
                   PROVE  V2[s][k - 1] = At(T2[k].from, s)
        OBVIOUS
      <4>1. CASE k \in 1 .. m BY <2>1, <4>1
      <4>2. CASE k = m + 1
        <5>1. k - 1 = m /\ T2[k] = T[j] BY <3>1, <3>2, <4>2
        <5>. QED BY <3>7, <5>1
      <4>. QED BY <3>4, <4>1, <4>2
    <3>9. Once(j)
      <4> SUFFICES ASSUME NEW i \in 1 .. n[j], NEW k \in 1 .. n[j], i < k, NEW s \in Shape,
                          Mentions(T2[i], s), Mentions(T2[k], s)
                   PROVE  s \in On(T2[k].from)
        OBVIOUS
      <4>1. CASE k \in 1 .. m
        <5>1. i \in 1 .. m BY <3>2, <4>1
        <5>. QED BY <2>1, <4>1, <5>1
      <4>2. CASE k = m + 1
        <5>1. i \in 1 .. m BY <3>2, <4>2
        <5>2. \E x \in 1 .. j - 1 : Mentions(T[x], s) BY <2>1, <5>1
        <5>. QED BY <2>4, <3>1, <4>2, <5>2
      <4>. QED BY <3>4, <4>1, <4>2
    <3> HIDE DEF Same, Heard, Taken, Once
    <3>. QED BY <2>2, <3>5, <3>6, <3>8, <3>9
  <2>. QED BY <2>5, <2>6
<1>9. Taken(Len(T)) /\ Once(Len(T))
  <2> HIDE DEF Same, Heard, Taken, Once
  <2>1. Len(T) \in U
    <3> HIDE DEF U
    <3>1. \A j \in 0 .. Len(T) : j \in U BY <1>0, <1>7, <1>8, InductionUpTo
    <3>. QED BY <1>0, <3>1
  <2>. QED BY <2>1
<1>10. \A k \in 1 .. Len(T2) : StepOf(T2[k], V2, k) BY <1>2, <1>5, <1>9 DEF StepOf
<1>11. Story(V2, T2) BY <1>2, <1>4, <1>9, <1>10 DEF Story
<1>. QED BY <1>11

----------------------------------------------------------------------------
(* The canvas is where the story is; the lines of the eraser are there     *)
(* with what they were drawn over.                                         *)

Clean == odd \cap {"clipboard", "cleared", "revived", "abandoned"} = {}
Neat == odd \cap {"clipboard", "keys", "cleared", "revived", "uncut", "abandoned"} = {}

AsDrawn(V) == \A s \in Shape \ {drawing} : At(layer, s) = V[s][Len(current)]
TidyAt(V, i) ==
  \A x \in Shape : /\ \A t \in V[x][i].on : t \in Shape \ Eraser /\ V[t][i] # Gone
                   /\ V[x][i].on # {} => x \in Eraser
Tells(V) ==
  /\ Story(V, Timeline(current, undone))
  /\ AsDrawn(V)
  /\ Neat => \A i \in 0 .. Len(Timeline(current, undone)) : TidyAt(V, i)
Recorded == Clean => (\E V : Tells(V)) /\ (InFlight => undone = <<>>)

Closed(X) == \A x \in On(layer) : layer[x].on \cap X # {} => x \in X
TidyLine(l, x) == /\ l[x].on \subseteq On(l) \ Eraser
                  /\ l[x].on # {} => x \in Eraser
Orderly ==
  Neat => /\ Closed(nodes)
          /\ \A i \in DOMAIN jobs : Closed(jobs[i].shapes)
          /\ drawing \in On(layer) => undone = <<>> /\ TidyLine(layer, drawing)

(* Nothing is selected while something is drawn.                           *)
Idle == drawing \in On(layer) => nodes = {}

OddStays == (Clean' => Clean) /\ (Neat' => Neat)

(* What is blamed stays blamed.                                            *)
LEMMA OddOnly ==
  ASSUME odd \ {"cut", "selected", "emptied"} \subseteq odd'
  PROVE  OddStays
BY DEF OddStays, Clean, Neat

(* What leaves the lines in order leaves the history in order.             *)
LEMMA NeatIsClean == Neat => Clean
BY DEF Neat, Clean

(* A shape that no edit knows is gone in every story.                      *)
LEMMA UnnamedGone ==
  ASSUME TypeOK, NEW V, Story(V, Timeline(current, undone)), NEW s \in Shape, s \notin Named
  PROVE  /\ \A i \in 0 .. Len(Timeline(current, undone)) : V[s][i] = Gone
         /\ \A i \in 1 .. Len(Timeline(current, undone)) : ~Mentions(Timeline(current, undone)[i], s)
<1> DEFINE T == Timeline(current, undone)
<1>1. current \in Seq(Edit) /\ undone \in Seq(Edit) BY TypeFacts DEF Lists
<1>2. /\ T \in Seq(Edit) /\ Len(T) = Len(current) + Len(undone)
      /\ \A i \in 1 .. Len(current) + Len(undone) : T[i] \in Range(current) \cup Range(undone)
  BY <1>1, TimelineIs
<1> HIDE DEF T
<1>3. \A i \in 1 .. Len(T) : ~Mentions(T[i], s) BY <1>2 DEF Named, Held
<1>4. Story(V, T) BY DEF T
<1>5. \A i \in 0 .. Len(T) : V[s][i] = Gone
  <2> SUFFICES ASSUME NEW i \in 0 .. Len(T), V[s][i] # Gone PROVE FALSE OBVIOUS
  <2>1. \E j \in 1 .. i : Mentions(T[j], s) BY <1>2, <1>4, StoryKnows
  <2>2. Len(T) \in Nat BY <1>2
  <2>. QED BY <1>3, <2>1, <2>2
<1>. QED BY <1>3, <1>5 DEF T

(* The lists have not changed, or the undone edits were dropped.           *)
LEMMA RecordedStays ==
  ASSUME Kept, Recorded, OddStays, current' = current, undone' = undone \/ undone' = <<>>,
         \A s \in Shape \ {drawing'} : At(layer', s) = IF s = drawing THEN Gone ELSE At(layer, s),
         Clean' /\ InFlight' => undone' = <<>>
  PROVE  Recorded'
<1> SUFFICES ASSUME Clean' PROVE \E V : Tells(V)'
  BY DEF Recorded
<1>0. TypeOK /\ Unnamed /\ Clean BY DEF Kept, OddStays
<1>1. PICK V : Tells(V) BY <1>0 DEF Recorded
<1>2. current \in Seq(Edit) /\ undone \in Seq(Edit) BY <1>0, TypeFacts DEF Lists
<1> DEFINE T == Timeline(current, undone)
           T2 == Timeline(current', undone')
<1>3. /\ T \in Seq(Edit) /\ Len(T) = Len(current) + Len(undone)
      /\ \A i \in 1 .. Len(current) : T[i] = current[i]
  BY <1>2, TimelineIs
<1>4. Len(current) \in Nat /\ Len(undone) \in Nat BY <1>2
<1>5. Story(V, T2) /\ Len(T2) <= Len(T) /\ Len(T2) \in Nat
  <2>1. CASE undone' = undone
    <3>1. T2 = T BY <2>1
    <3>2. Story(V, T) BY <1>1 DEF Tells
    <3> HIDE DEF T, T2
    <3>. QED BY <1>3, <1>4, <3>1, <3>2
  <2>2. CASE undone' = <<>>
    <3>1. T2 = current BY <1>2, <2>2, TimelineAlone
    <3>2. Story(V, T) BY <1>1 DEF Tells
    <3> HIDE DEF T, T2
    <3>3. Len(current) <= Len(T) BY <1>3, <1>4
    <3>4. Story(V, current) BY <1>2, <1>3, <3>2, <3>3, StoryTrims
    <3>. QED BY <1>4, <3>1, <3>3, <3>4
  <2>. QED BY <2>1, <2>2
<1>6. AsDrawn(V)'
  <2> SUFFICES ASSUME NEW s \in Shape \ {drawing'} PROVE At(layer', s) = V[s][Len(current')]
    BY DEF AsDrawn
  <2>1. CASE s = drawing
    <3>1. s \notin Named BY <1>0, <2>1 DEF Unnamed
    <3>2. Story(V, T) BY <1>1 DEF Tells
    <3>3. \A i \in 0 .. Len(T) : V[s][i] = Gone BY <1>0, <3>1, <3>2, UnnamedGone
    <3> HIDE DEF T, T2
    <3>4. Len(current) \in 0 .. Len(T) BY <1>3, <1>4
    <3>. QED BY <2>1, <3>3, <3>4
  <2>2. CASE s # drawing BY <1>1, <2>2 DEF Tells, AsDrawn
  <2>. QED BY <2>1, <2>2
<1>7. ASSUME Neat' PROVE \A i \in 0 .. Len(T2) : TidyAt(V, i)
  <2>1. \A i \in 0 .. Len(T) : TidyAt(V, i) BY <1>1, <1>7 DEF Tells, OddStays
  <2> HIDE DEF T, T2
  <2>2. 0 .. Len(T2) \subseteq 0 .. Len(T) BY <1>3, <1>4, <1>5
  <2>. QED BY <2>1, <2>2
<1>8. Tells(V)' BY <1>5, <1>6, <1>7 DEF Tells, TidyAt
<1>. QED BY <1>8

(* One shape more, that no edit knew.                                      *)
LEMMA RecordedAdds ==
  ASSUME Kept, Recorded, OddStays, NEW d \in Shape, d \notin Named, NEW e \in Edit,
         e.from = Nothing, On(e.to) = {d}, current' = Append(current, e), UNCHANGED <<undone, jobs>>,
         drawing = d \/ drawing = drawing',
         \A s \in Shape : At(layer', s) = IF s = d THEN At(e.to, d) ELSE At(layer, s),
         Neat' => \/ At(e.to, d).on = {}
                  \/ /\ undone = <<>> /\ d \in Eraser
                     /\ At(e.to, d).on \subseteq {t \in Shape \ Eraser : t # drawing' /\ At(layer', t) # Gone}
  PROVE  Recorded'
<1> SUFFICES ASSUME Clean' PROVE (\E V : Tells(V)') /\ (InFlight' => undone = <<>>)
  BY DEF Recorded
<1>0. TypeOK /\ Unnamed /\ Clean BY DEF Kept, OddStays
<1>1. PICK V : Tells(V) BY <1>0 DEF Recorded
<1>2. current \in Seq(Edit) /\ undone \in Seq(Edit) /\ Len(current) \in Nat /\ Len(undone) \in Nat
  BY <1>0, TypeFacts DEF Lists
<1>a. PICK k : k = Len(current) OBVIOUS
<1>b. PICK T : T = Timeline(current, undone) OBVIOUS
<1>c. PICK T2 : T2 = Timeline(current', undone') OBVIOUS
<1>3. T \in Seq(Edit) /\ Len(T) = k + Len(undone) /\ k \in 0 .. Len(T)
  <2>1. T \in Seq(Edit) /\ Len(T) = k + Len(undone) BY <1>2, <1>a, <1>b, TimelineIs
  <2>. QED BY <1>2, <1>a, <2>1
<1>4. T2 \in Seq(Edit) /\ Inserted(T2, T, k, e) /\ Len(T2) = Len(T) + 1 /\ Len(current') = k + 1
  <2>1. current' \in Seq(Edit) /\ Len(current') = k + 1 BY <1>2, <1>a
  <2>2. T2 \in Seq(Edit) BY <1>2, <1>c, <2>1, TimelineIs
  <2>3. Inserted(T2, T, k, e) BY <1>2, <1>a, <1>b, <1>c, TimelineGrows
  <2>. QED BY <2>1, <2>2, <2>3 DEF Inserted
<1>5. Story(V, T) BY <1>1, <1>b DEF Tells
<1>6. (\A i \in 0 .. Len(T) : V[d][i] = Gone) /\ \A i \in 1 .. Len(T) : ~Mentions(T[i], d)
  BY <1>0, <1>5, <1>b, UnnamedGone
<1>7. \A s \in Shape : Mentions(e, s) <=> s = d BY NothingLayer DEF Mentions
<1>8. Fits(V, T, k, e)
  <2>1. At(e.from, d) = Gone BY NothingLayer DEF At
  <2>2. \A i \in k + 1 .. Len(T) : i \in 1 .. Len(T) BY <1>3
  <2>. QED BY <1>3, <1>6, <1>7, <2>1, <2>2 DEF Fits
<1>9. PICK V2 : Story(V2, T2) /\ Continues(V2, V, T, k, e) BY <1>3, <1>4, <1>5, <1>8, StoryGrows
<1>10. /\ \A s \in Shape : \A i \in 0 .. k : V2[s][i] = V[s][i]
       /\ \A s \in Shape : \A i \in k + 1 .. Len(T) + 1 :
            V2[s][i] = IF s = d THEN At(e.to, d) ELSE V[s][i - 1]
  BY <1>7, <1>9 DEF Continues
<1>11. AsDrawn(V2)'
  <2> SUFFICES ASSUME NEW s \in Shape \ {drawing'} PROVE At(layer', s) = V2[s][k + 1]
    BY <1>4 DEF AsDrawn
  <2>1. k + 1 \in k + 1 .. Len(T) + 1 /\ k + 1 - 1 = k BY <1>3
  <2>2. CASE s = d BY <1>10, <2>1, <2>2
  <2>3. CASE s # d
    <3>1. At(layer, s) = V[s][k] BY <1>1, <1>a, <2>3 DEF Tells, AsDrawn
    <3>2. \A i \in k + 1 .. Len(T) + 1 : V2[s][i] = V[s][i - 1] BY <1>10, <2>3
    <3>3. PICK m \in k + 1 .. Len(T) + 1 : m = k + 1 /\ m - 1 = k BY <1>3, <2>1
    <3>4. V2[s][m] = V[s][m - 1] BY <3>2
    <3>. QED BY <2>3, <3>1, <3>3, <3>4
  <2>. QED BY <2>2, <2>3
<1>12. At(e.to, d) # Gone BY EditIs, AtIs
<1>13. ASSUME Neat', NEW i \in 0 .. Len(T2) PROVE TidyAt(V2, i)
  <2>1. \A j \in 0 .. Len(T) : TidyAt(V, j) BY <1>1, <1>13, <1>b DEF Tells, OddStays
  <2>2. CASE i \in 0 .. k
    <3>1. TidyAt(V, i) BY <1>3, <2>1, <2>2
    <3>2. \A x \in Shape : V2[x][i] = V[x][i] BY <1>10, <2>2
    <3>. QED BY <3>1, <3>2 DEF TidyAt
  <2>3. CASE i \notin 0 .. k
    <3>1. i \in k + 1 .. Len(T) + 1 /\ i - 1 \in 0 .. Len(T) BY <1>3, <1>4, <2>3
    <3>2. TidyAt(V, i - 1) BY <2>1, <3>1
    <3>3. \A x \in Shape : V2[x][i] = IF x = d THEN At(e.to, d) ELSE V[x][i - 1] BY <1>10, <3>1
    <3>4. ASSUME NEW x \in Shape, x # d
          PROVE  /\ \A t \in V2[x][i].on : t \in Shape \ Eraser /\ V2[t][i] # Gone
                 /\ V2[x][i].on # {} => x \in Eraser
      <4>1. V2[x][i] = V[x][i - 1] BY <3>3, <3>4
      <4>2. ASSUME NEW t \in V[x][i - 1].on PROVE t \in Shape \ Eraser /\ V2[t][i] # Gone
        <5>1. t \in Shape \ Eraser /\ V[t][i - 1] # Gone BY <3>2 DEF TidyAt
        <5>. QED BY <1>12, <3>3, <5>1
      <4>. QED BY <3>2, <4>1, <4>2 DEF TidyAt
    <3>5. /\ \A t \in V2[d][i].on : t \in Shape \ Eraser /\ V2[t][i] # Gone
          /\ V2[d][i].on # {} => d \in Eraser
      <4>1. V2[d][i] = At(e.to, d) BY <3>3
      <4>2. CASE At(e.to, d).on = {} BY <4>1, <4>2
      <4>3. CASE /\ undone = <<>> /\ d \in Eraser
                 /\ At(e.to, d).on \subseteq {t \in Shape \ Eraser : t # drawing' /\ At(layer', t) # Gone}
        <5>1. i = k + 1 BY <1>2, <1>3, <3>1, <4>3
        <5>2. \A t \in Shape \ {drawing'} : At(layer', t) = V2[t][i] BY <1>4, <1>11, <5>1 DEF AsDrawn
        <5>. QED BY <4>1, <4>3, <5>2
      <4>. QED BY <1>13, <4>2, <4>3
    <3>. QED BY <3>4, <3>5 DEF TidyAt
  <2>. QED BY <2>2, <2>3
<1>14. Tells(V2)' BY <1>9, <1>11, <1>13, <1>c DEF Tells, TidyAt
<1>15. InFlight' => undone = <<>> BY <1>0 DEF Recorded, InFlight
<1>. QED BY <1>14, <1>15

(* An edit that mentions nothing: the cut of a group that is gone.         *)
LEMMA RecordedNothing ==
  ASSUME Kept, Recorded, OddStays, NEW e \in Edit, e.from = Nothing, e.to = Nothing,
         current' = Append(current, e), UNCHANGED <<undone, drawing>>,
         \A s \in Shape : At(layer', s) = At(layer, s), InFlight' => InFlight
  PROVE  Recorded'
<1> SUFFICES ASSUME Clean' PROVE (\E V : Tells(V)') /\ (InFlight' => undone = <<>>)
  BY DEF Recorded
<1>0. TypeOK /\ Clean BY DEF Kept, OddStays
<1>1. PICK V : Tells(V) BY <1>0 DEF Recorded
<1>2. current \in Seq(Edit) /\ undone \in Seq(Edit) /\ Len(current) \in Nat /\ Len(undone) \in Nat
  BY <1>0, TypeFacts DEF Lists
<1>a. PICK k : k = Len(current) OBVIOUS
<1>b. PICK T : T = Timeline(current, undone) OBVIOUS
<1>c. PICK T2 : T2 = Timeline(current', undone') OBVIOUS
<1>3. T \in Seq(Edit) /\ Len(T) = k + Len(undone) /\ k \in 0 .. Len(T)
  <2>1. T \in Seq(Edit) /\ Len(T) = k + Len(undone) BY <1>2, <1>a, <1>b, TimelineIs
  <2>. QED BY <1>2, <1>a, <2>1
<1>4. T2 \in Seq(Edit) /\ Inserted(T2, T, k, e) /\ Len(T2) = Len(T) + 1 /\ Len(current') = k + 1
  <2>1. current' \in Seq(Edit) /\ Len(current') = k + 1 BY <1>2, <1>a
  <2>2. T2 \in Seq(Edit) BY <1>2, <1>c, <2>1, TimelineIs
  <2>3. Inserted(T2, T, k, e) BY <1>2, <1>a, <1>b, <1>c, TimelineGrows
  <2>. QED BY <2>1, <2>2, <2>3 DEF Inserted
<1>5. Story(V, T) BY <1>1, <1>b DEF Tells
<1>6. \A s \in Shape : ~Mentions(e, s) BY NothingLayer DEF Mentions
<1>7. Fits(V, T, k, e) BY <1>6 DEF Fits
<1>8. PICK V2 : Story(V2, T2) /\ Continues(V2, V, T, k, e) BY <1>3, <1>4, <1>5, <1>7, StoryGrows
<1>9. /\ \A s \in Shape : \A i \in 0 .. k : V2[s][i] = V[s][i]
      /\ \A s \in Shape : \A i \in k + 1 .. Len(T) + 1 : V2[s][i] = V[s][i - 1]
  BY <1>6, <1>8 DEF Continues
<1>10. AsDrawn(V2)'
  <2> SUFFICES ASSUME NEW s \in Shape \ {drawing'} PROVE At(layer', s) = V2[s][k + 1]
    BY <1>4 DEF AsDrawn
  <2>1. At(layer, s) = V[s][k] BY <1>1, <1>a DEF Tells, AsDrawn
  <2>2. PICK m \in k + 1 .. Len(T) + 1 : m = k + 1 /\ m - 1 = k
    <3>1. k + 1 \in k + 1 .. Len(T) + 1 /\ k + 1 - 1 = k BY <1>3
    <3>. QED BY <1>3, <3>1
  <2>3. V2[s][m] = V[s][m - 1] BY <1>9
  <2>. QED BY <2>1, <2>2, <2>3
<1>11. ASSUME Neat', NEW i \in 0 .. Len(T2) PROVE TidyAt(V2, i)
  <2>1. \A j \in 0 .. Len(T) : TidyAt(V, j) BY <1>1, <1>11, <1>b DEF Tells, OddStays
  <2>2. CASE i \in 0 .. k
    <3>1. TidyAt(V, i) BY <1>3, <2>1, <2>2
    <3>2. \A x \in Shape : V2[x][i] = V[x][i] BY <1>9, <2>2
    <3>. QED BY <3>1, <3>2 DEF TidyAt
  <2>3. CASE i \notin 0 .. k
    <3>1. i \in k + 1 .. Len(T) + 1 /\ i - 1 \in 0 .. Len(T) BY <1>3, <1>4, <2>3
    <3>2. TidyAt(V, i - 1) BY <2>1, <3>1
    <3>3. \A x \in Shape : V2[x][i] = V[x][i - 1] BY <1>9, <3>1
    <3>. QED BY <3>2, <3>3 DEF TidyAt
  <2>. QED BY <2>2, <2>3
<1>12. Tells(V2)' BY <1>8, <1>10, <1>11, <1>c DEF Tells, TidyAt
<1>13. InFlight' => undone = <<>> BY <1>0 DEF Recorded
<1>. QED BY <1>12, <1>13

(* The shapes X are changed, or removed with the lines over them, when no  *)
(* edit is undone.                                                         *)
Alters(X, e) ==
  \/ On(e.to) = X /\ \A s \in X : At(e.to, s).on = At(layer, s).on
  \/ On(e.to) = {} /\ Closed(X)

(* The shapes X are changed or removed: the story goes on with it.         *)
LEMMA RecordedAppends ==
  ASSUME Kept, Recorded, OddStays, NEW X \in SUBSET On(layer), drawing \notin X, NEW e \in Edit,
         e.from = Restrict(layer, X), On(e.to) \subseteq X,
         current' = Append(current, e), UNCHANGED <<undone, drawing>>,
         layer' = Put(layer, e.from, e.to), Clean' => undone = <<>>,
         Neat' => Alters(X, e)
  PROVE  Recorded'
<1> SUFFICES ASSUME Clean' PROVE (\E V : Tells(V)') /\ undone' = <<>>
  BY DEF Recorded
<1>0. TypeOK /\ Unnamed /\ Clean /\ undone = <<>> BY DEF Kept, OddStays
<1>1. PICK V : Tells(V) BY <1>0 DEF Recorded
<1>2. current \in Seq(Edit) /\ Len(current) \in Nat /\ layer \in Layers BY <1>0, TypeFacts DEF Lists
<1>a. PICK k : k = Len(current) OBVIOUS
<1>b. PICK T : T = current OBVIOUS
<1>c. PICK T2 : T2 = current' OBVIOUS
<1>d. Timeline(current, undone) = T /\ Timeline(current', undone') = T2
  <2>1. current' \in Seq(Edit) BY <1>2
  <2>. QED BY <1>0, <1>2, <1>b, <1>c, <2>1, TimelineAlone
<1>3. T \in Seq(Edit) /\ Len(T) = k /\ k \in Nat /\ k \in 0 .. Len(T) BY <1>2, <1>a, <1>b
<1>4. T2 \in Seq(Edit) /\ Inserted(T2, T, k, e) /\ Len(T2) = k + 1 /\ Len(current') = k + 1
  <2>1. <<>> \in Seq(Edit) OBVIOUS
  <2>2. T2 \in Seq(Edit) /\ Len(T2) = k + 1 BY <1>2, <1>a, <1>c
  <2>3. Inserted(Timeline(Append(current, e), <<>>), Timeline(current, <<>>), k, e)
    BY <1>2, <1>a, <2>1, TimelineGrows
  <2>4. Inserted(T2, T, k, e) BY <1>0, <1>d, <2>3
  <2>. QED BY <1>c, <2>2, <2>4
<1>5. Story(V, T) BY <1>1, <1>d DEF Tells
<1>6. e.from \in Layers /\ e.to \in Layers /\ On(e.from) = X /\ X \subseteq Shape
      /\ \A s \in Shape : Mentions(e, s) <=> s \in X
  BY <1>2, EditIs, RestrictIs, LayerIs DEF Mentions
<1>7. \A s \in X : At(e.from, s) = At(layer, s) BY <1>2, <1>6, RestrictIs DEF At
<1>8. \A s \in Shape \ {drawing} : At(layer, s) = V[s][k] BY <1>1, <1>a DEF Tells, AsDrawn
<1>9. Fits(V, T, k, e)
  <2>1. \A i \in k + 1 .. Len(T) : FALSE BY <1>3
  <2>. QED BY <1>6, <1>7, <1>8, <2>1 DEF Fits
<1>10. PICK V2 : Story(V2, T2) /\ Continues(V2, V, T, k, e) BY <1>3, <1>4, <1>5, <1>9, StoryGrows
<1>11. /\ \A s \in Shape : \A i \in 0 .. k : V2[s][i] = V[s][i]
       /\ \A s \in Shape : V2[s][k + 1] = IF s \in X THEN At(e.to, s) ELSE V[s][k]
  <2>1. k + 1 \in k + 1 .. Len(T) + 1 /\ k + 1 - 1 = k BY <1>3
  <2>2. ASSUME NEW s \in Shape
        PROVE  V2[s][k + 1] = IF Mentions(e, s) THEN At(e.to, s) ELSE V[s][k]
    <3>1. \A i \in k + 1 .. Len(T) + 1 : V2[s][i] = IF Mentions(e, s) THEN At(e.to, s) ELSE V[s][i - 1]
      BY <1>10 DEF Continues
    <3>2. PICK m \in k + 1 .. Len(T) + 1 : m = k + 1 /\ m - 1 = k BY <1>3, <2>1
    <3>3. V2[s][m] = IF Mentions(e, s) THEN At(e.to, s) ELSE V[s][m - 1] BY <3>1
    <3>. QED BY <3>2, <3>3
  <2>. QED BY <1>6, <1>10, <2>2 DEF Continues
<1>12. AsDrawn(V2)'
  <2> SUFFICES ASSUME NEW s \in Shape \ {drawing} PROVE At(layer', s) = V2[s][k + 1]
    BY <1>4 DEF AsDrawn
  <2>1. At(layer', s) = IF s \in X THEN At(e.to, s) ELSE At(layer, s) BY <1>2, <1>6, PutAt
  <2>. QED BY <1>8, <1>11, <2>1
<1>13. ASSUME Neat', NEW i \in 0 .. Len(T2) PROVE TidyAt(V2, i)
  <2>1. \A j \in 0 .. Len(T) : TidyAt(V, j) BY <1>1, <1>13, <1>d DEF Tells, OddStays
  <2>2. CASE i \in 0 .. k
    <3>1. TidyAt(V, i) BY <1>3, <2>1, <2>2
    <3>2. \A x \in Shape : V2[x][i] = V[x][i] BY <1>11, <2>2
    <3>. QED BY <3>1, <3>2 DEF TidyAt
  <2>3. CASE i = k + 1
    <3>1. TidyAt(V, k) BY <1>3, <2>1
    <3>2. \A x \in Shape : V2[x][i] = IF x \in X THEN At(e.to, x) ELSE V[x][k] BY <1>11, <2>3
    <3>3. \A s \in X : At(layer, s) = V[s][k] /\ s \in Shape BY <1>6, <1>8
    <3>4. CASE On(e.to) = X /\ \A s \in X : At(e.to, s).on = At(layer, s).on
      <4>1. \A x \in Shape : V2[x][i].on = V[x][k].on BY <3>2, <3>3, <3>4
      <4>2. \A x \in Shape : V[x][k] # Gone => V2[x][i] # Gone
        <5> TAKE x \in Shape
        <5>1. CASE x \in X
          <6>1. At(e.to, x) # Gone BY <1>6, <3>4, <5>1, AtIs
          <6>. QED BY <3>2, <5>1, <6>1
        <5>2. CASE x \notin X BY <3>2, <5>2
        <5>. QED BY <5>1, <5>2
      <4>. QED BY <3>1, <4>1, <4>2 DEF TidyAt
    <3>5. CASE On(e.to) = {} /\ Closed(X)
      <4>1. \A s : At(e.to, s) = Gone BY <3>5 DEF At
      <4>2. Gone.on = {} BY DEF Gone
      <4>3. V[drawing][k] = Gone \/ drawing \notin Shape
        <5>1. CASE drawing \in Shape
          <6>1. drawing \notin Named BY <1>0 DEF Unnamed
          <6>2. \A j \in 0 .. Len(T) : V[drawing][j] = Gone
            BY <1>0, <1>5, <1>d, <5>1, <6>1, UnnamedGone
          <6>. QED BY <1>3, <6>2
        <5>. QED BY <5>1
      <4>4. ASSUME NEW x \in Shape, x \notin X, NEW t \in V[x][k].on
            PROVE  t \in Shape \ Eraser /\ V2[t][i] # Gone
        <5>1. t \in Shape \ Eraser /\ V[t][k] # Gone BY <3>1, <4>4 DEF TidyAt
        <5>2. x # drawing BY <4>2, <4>3, <4>4
        <5>3. At(layer, x) = V[x][k] BY <1>8, <5>2
        <5>4. x \in On(layer) /\ t \in layer[x].on
          <6>1. At(layer, x) # Gone BY <4>2, <4>4, <5>3
          <6>2. x \in On(layer) BY <6>1 DEF At
          <6>. QED BY <4>4, <5>3, <6>2 DEF At
        <5>5. t \notin X BY <3>5, <4>4, <5>4 DEF Closed
        <5>. QED BY <3>2, <5>1, <5>5
      <4>5. ASSUME NEW x \in Shape
            PROVE  /\ \A t \in V2[x][i].on : t \in Shape \ Eraser /\ V2[t][i] # Gone
                   /\ V2[x][i].on # {} => x \in Eraser
        <5>1. CASE x \in X BY <3>2, <4>1, <4>2, <5>1
        <5>2. CASE x \notin X
          <6>1. V2[x][i] = V[x][k] BY <3>2, <5>2
          <6>. QED BY <3>1, <4>4, <5>2, <6>1 DEF TidyAt
        <5>. QED BY <5>1, <5>2
      <4>. QED BY <4>5 DEF TidyAt
    <3>. QED BY <1>13, <3>4, <3>5 DEF Alters
  <2>. QED BY <1>3, <1>4, <1>13, <2>2, <2>3
<1>14. Tells(V2)'
  <2>1. Story(V2, Timeline(current', undone')) BY <1>10, <1>d
  <2>2. Neat' => \A i \in 0 .. Len(Timeline(current', undone')) : TidyAt(V2, i) BY <1>13, <1>d
  <2>. QED BY <1>12, <2>1, <2>2 DEF Tells, TidyAt
<1>. QED BY <1>0, <1>14

(* An edit is undone or redone: the story is the same, the canvas is at    *)
(* another place of it.                                                    *)
LEMMA RecordedMoves ==
  ASSUME Kept, Recorded, NEW c \in Seq(Edit), NEW u \in Seq(Edit), NEW e \in Edit, NEW back \in BOOLEAN,
         current = IF back THEN Append(c, e) ELSE c, undone = IF back THEN u ELSE Append(u, e),
         current' = IF back THEN c ELSE Append(c, e), undone' = IF back THEN Append(u, e) ELSE u,
         layer' = IF back THEN Put(layer, e.to, e.from) ELSE Put(layer, e.from, e.to),
         UNCHANGED <<drawing, jobs>>, OddStays, Clean' => ~InFlight
  PROVE  Recorded'
<1> SUFFICES ASSUME Clean' PROVE \E V : Tells(V)'
  BY DEF Recorded, InFlight
<1>0. TypeOK /\ Unnamed /\ Clean BY DEF Kept, OddStays
<1>1. PICK V : Tells(V) BY <1>0 DEF Recorded
<1>2. Len(c) \in Nat /\ Len(u) \in Nat /\ layer \in Layers BY <1>0, TypeFacts
<1>3. e.from \in Layers /\ e.to \in Layers BY EditIs
<1>a. PICK k : k = Len(c) OBVIOUS
<1>b. PICK T : T = Timeline(current, undone) OBVIOUS
<1>4. T = Timeline(current', undone') BY <1>b, TimelineStays
<1>5. T[k + 1] = e /\ k \in Nat /\ k + 1 \in 1 .. Len(T) /\ k + 1 - 1 = k
  <2> DEFINE d == Append(c, e)
  <2>1. d \in Seq(Edit) /\ Len(d) = k + 1 /\ d[k + 1] = e BY <1>2, <1>a
  <2>2. T = Timeline(d, u) BY <1>4, <1>b
  <2> HIDE DEF d
  <2>3. /\ Len(Timeline(d, u)) = Len(d) + Len(u)
        /\ \A i \in 1 .. Len(d) : Timeline(d, u)[i] = d[i]
    BY <2>1, TimelineIs
  <2>4. Len(T) = k + 1 + Len(u) /\ \A i \in 1 .. k + 1 : T[i] = d[i] BY <2>1, <2>2, <2>3
  <2>. QED BY <1>2, <1>a, <2>1, <2>4
<1>6. StepOf(e, V, k + 1) BY <1>1, <1>5, <1>b DEF Tells, Story
<1>7. \A s \in Shape : IF Mentions(e, s) THEN V[s][k] = At(e.from, s) /\ V[s][k + 1] = At(e.to, s)
                       ELSE V[s][k + 1] = V[s][k]
  BY <1>5, <1>6 DEF StepOf
<1>8. ASSUME NEW s \in Shape \ {drawing} PROVE At(layer', s) = V[s][Len(current')]
  <2>1. At(layer, s) = V[s][Len(current)] BY <1>1 DEF Tells, AsDrawn
  <2>2. CASE back
    <3>1. Len(current) = k + 1 /\ Len(current') = k BY <1>2, <1>a, <2>2
    <3>2. At(layer', s) = IF Mentions(e, s) THEN At(e.from, s) ELSE At(layer, s)
      BY <1>2, <1>3, <2>2, PutAt DEF Mentions
    <3>. QED BY <1>7, <2>1, <3>1, <3>2
  <2>3. CASE ~back
    <3>1. Len(current) = k /\ Len(current') = k + 1 BY <1>2, <1>a, <2>3
    <3>2. At(layer', s) = IF Mentions(e, s) THEN At(e.to, s) ELSE At(layer, s)
      BY <1>2, <1>3, <2>3, PutAt DEF Mentions
    <3>. QED BY <1>7, <2>1, <3>1, <3>2
  <2>. QED BY <2>2, <2>3
<1>9. Tells(V)'
  <2>1. Story(V, Timeline(current', undone')) BY <1>1, <1>4, <1>b DEF Tells
  <2>2. Neat' => \A i \in 0 .. Len(Timeline(current', undone')) : TidyAt(V, i)
    BY <1>1, <1>4, <1>b DEF Tells, OddStays
  <2>. QED BY <1>8, <2>1, <2>2 DEF Tells, AsDrawn, TidyAt
<1>. QED BY <1>9

(* Under a story an edit can be undone and redone: its shapes are there.   *)
LEMMA Reachable ==
  ASSUME Kept, Recorded, Clean, ~InFlight
  PROVE  /\ current # <<>> => On(current[Len(current)].to) \subseteq Found
         /\ undone # <<>> => On(undone[Len(undone)].from) \subseteq Found
<1>0. TypeOK /\ Unnamed BY DEF Kept
<1>1. PICK V : Tells(V) BY DEF Recorded
<1>2. current \in Seq(Edit) /\ undone \in Seq(Edit) /\ Len(current) \in Nat /\ Len(undone) \in Nat
      /\ layer \in Layers
  BY <1>0, TypeFacts DEF Lists
<1>b. PICK T : T = Timeline(current, undone) OBVIOUS
<1>3. /\ T \in Seq(Edit) /\ Len(T) = Len(current) + Len(undone) /\ Story(V, T)
      /\ \A i \in 1 .. Len(current) : T[i] = current[i]
      /\ \A i \in 1 .. Len(undone) : T[Len(current) + Len(undone) + 1 - i] = undone[i]
  BY <1>1, <1>2, <1>b, TimelineIs DEF Tells
<1>4. Found = On(layer) BY NoGroups DEF Kept
<1>5. ASSUME NEW e \in Held, NEW s \in Shape, Mentions(e, s), V[s][Len(current)] # Gone
      PROVE  s \in Found
  <2>1. s \in Named BY <1>5 DEF Named
  <2>2. s # drawing BY <1>0, <2>1 DEF Unnamed
  <2>3. At(layer, s) # Gone BY <1>1, <1>5, <2>2 DEF Tells, AsDrawn
  <2>. QED BY <1>4, <2>3 DEF At
<1>6. ASSUME current # <<>> PROVE On(current[Len(current)].to) \subseteq Found
  <2>1. Len(current) \in 1 .. Len(current) /\ Len(current) \in 1 .. Len(T) BY <1>2, <1>3, <1>6
  <2>2. PICK e : e = current[Len(current)] OBVIOUS
  <2>3. e \in Edit /\ e \in Held /\ T[Len(current)] = e BY <1>2, <1>3, <1>6, <2>1, <2>2, LastIs DEF Held
  <2>4. StepOf(e, V, Len(current)) BY <1>3, <2>1, <2>3 DEF Story
  <2>5. ASSUME NEW s \in On(e.to) PROVE s \in Found
    <3>1. s \in Shape /\ Mentions(e, s) BY <2>3, EditIs, LayerIs DEF Mentions
    <3>2. V[s][Len(current)] # Gone BY <2>3, <2>4, <3>1, EditIs, AtIs DEF StepOf
    <3>. QED BY <1>5, <2>3, <3>1, <3>2
  <2>. QED BY <2>2, <2>5
<1>7. ASSUME undone # <<>> PROVE On(undone[Len(undone)].from) \subseteq Found
  <2>1. /\ Len(undone) \in 1 .. Len(undone)
        /\ Len(current) + Len(undone) + 1 - Len(undone) = Len(current) + 1
        /\ Len(current) + 1 \in 1 .. Len(T) /\ Len(current) + 1 - 1 = Len(current)
    BY <1>2, <1>3, <1>7
  <2>2. PICK e : e = undone[Len(undone)] OBVIOUS
  <2>3. e \in Edit /\ e \in Held /\ T[Len(current) + 1] = e
    <3>1. T[Len(current) + Len(undone) + 1 - Len(undone)] = undone[Len(undone)] BY <1>3, <2>1
    <3>. QED BY <1>2, <1>7, <2>1, <2>2, <3>1, LastIs DEF Held
  <2>4. StepOf(e, V, Len(current) + 1) BY <1>3, <2>1, <2>3 DEF Story
  <2>5. ASSUME NEW s \in On(e.from) PROVE s \in Found
    <3>1. s \in Shape /\ Mentions(e, s) BY <2>3, EditIs, LayerIs DEF Mentions
    <3>2. V[s][Len(current) + 1 - 1] = At(e.from, s) BY <2>4, <3>1 DEF StepOf
    <3>3. V[s][Len(current)] # Gone BY <2>1, <2>3, <3>1, <3>2, EditIs, AtIs
    <3>. QED BY <1>5, <2>3, <3>1, <3>3
  <2>. QED BY <2>2, <2>5
<1>. QED BY <1>6, <1>7

----------------------------------------------------------------------------
(* What the steps do to them.                                              *)

(* Only what the room was not told of is ever forgotten.                   *)
LEMMA NextOdd ==
  ASSUME [Next]_vars
  PROVE  odd \ {"cut", "selected", "emptied"} \subseteq odd'
<1>1. CASE UNCHANGED vars BY <1>1 DEF vars
<1>2. CASE Next
  <2>1. CASE \E s \in Shape : MouseDown(s) BY <2>1 DEF MouseDown, Blame
  <2>2. CASE \E s \in Shape : MouseMove(s) BY <2>2 DEF MouseMove, Blame
  <2>3. CASE MouseUpLeave BY <2>3 DEF MouseUpLeave, Blame
  <2>4. CASE \E s \in Shape : SelectShape(s) BY <2>4 DEF SelectShape, Create, Blame
  <2>5. CASE \E X \in SUBSET On(layer) : SelectBox(X) BY <2>5 DEF SelectBox, Create, Blame
  <2>6. CASE Drag BY <2>6 DEF Drag
  <2>7. CASE Undo \/ Redo \/ Delete BY <2>7 DEF Undo, Redo, Delete, Blame
  <2>8. CASE \E cut \in BOOLEAN : Copy(cut) BY <2>8 DEF Copy, Blame
  <2>9. CASE \E i \in DOMAIN jobs : Copied(i) BY <2>9 DEF Copied, Blame
  <2>10. CASE \E s \in Shape \ Eraser : Paste(s) BY <2>10 DEF Paste
  <2>11. CASE \E s \in loading : InsertImage(s) BY <2>11 DEF InsertImage
  <2>12. CASE NewFile BY <2>12 DEF NewFile, Blame
  <2>13. CASE Reopen BY <2>13 DEF Reopen
  <2>. QED BY <1>2, <2>1, <2>2, <2>3, <2>4, <2>5, <2>6, <2>7, <2>8, <2>9, <2>10, <2>11, <2>12,
              <2>13 DEF Next
<1>. QED BY <1>1, <1>2

(* A line of the eraser is drawn over one shape more.                      *)
LEMMA MouseMoveIs ==
  ASSUME TypeOK, NEW t \in Shape, MouseMove(t)
  PROVE  /\ layer' \in Layers /\ On(layer') = On(layer) /\ drawing \in On(layer)
         /\ \A s \in On(layer) \ {drawing} : layer'[s] = layer[s]
         /\ layer'[drawing].on = layer[drawing].on \cup {t}
<1>1. /\ drawing \in On(layer) /\ t \in On(layer)
      /\ layer' = [layer EXCEPT ![drawing].on = @ \cup {t}]
  BY DEF MouseMove, Found
<1>2. layer \in Layers BY TypeFacts
<1>3. layer[drawing] \in [at : 1..2, on : SUBSET Shape] BY <1>1, <1>2, LayerIs DEF Attrs
<1>4. /\ [layer[drawing] EXCEPT !.on = @ \cup {t}] \in Attrs
      /\ [layer[drawing] EXCEPT !.on = @ \cup {t}].on = layer[drawing].on \cup {t}
  BY <1>3 DEF Attrs
<1>5. On(layer) \in SUBSET Shape /\ layer \in [On(layer) -> Attrs] BY <1>2, LayerIs
<1>6. layer' \in [On(layer) -> Attrs] BY <1>1, <1>4, <1>5
<1>7. /\ \A s \in On(layer) \ {drawing} : layer'[s] = layer[s]
      /\ layer'[drawing].on = layer[drawing].on \cup {t}
  BY <1>1, <1>4, <1>5
<1>. QED BY <1>1, <1>5, <1>6, <1>7, MakeLayer

(* What is drawn at once, a line or an image, is on nothing else.          *)
LEMMA AddedIs ==
  ASSUME TypeOK, NEW s \in Shape, s \notin On(layer),
         layer' = Put(layer, Nothing, [x \in {s} |-> [at |-> 1, on |-> {}]])
  PROVE  /\ layer' \in Layers /\ On(layer') = On(layer) \cup {s}
         /\ \A x \in On(layer) : layer'[x] = layer[x]
         /\ layer'[s] = [at |-> 1, on |-> {}] /\ layer'[s].on = {}
<1> DEFINE one == [x \in {s} |-> [at |-> 1, on |-> {}]]
<1>1. one \in Layers /\ On(one) = {s} /\ one[s] = [at |-> 1, on |-> {}] BY AloneIs
<1>2. layer \in Layers BY TypeFacts
<1>3. PICK l : l = layer' /\ l = Put(layer, Nothing, one) OBVIOUS
<1> HIDE DEF one
<1>4. /\ Put(layer, Nothing, one) \in Layers
      /\ On(Put(layer, Nothing, one)) = (On(layer) \ On(Nothing)) \cup On(one)
      /\ \A x \in On(Put(layer, Nothing, one)) :
           Put(layer, Nothing, one)[x] = IF x \in On(one) THEN one[x] ELSE layer[x]
  BY <1>1, <1>2, NothingLayer, PutIs
<1>5. /\ l \in Layers /\ On(l) = On(layer) \cup {s}
      /\ \A x \in On(layer) : l[x] = layer[x]
      /\ l[s] = [at |-> 1, on |-> {}]
  BY <1>1, <1>3, <1>4, NothingLayer
<1>6. l[s].on = {} BY <1>5
<1>7. layer' = l BY <1>3
<1>. QED BY <1>5, <1>6, <1>7, Zenon

(* Shapes that go from one place to the other are on what they were on.    *)
LEMMA DragIs ==
  ASSUME TypeOK, Selected, Drag
  PROVE  LET e == NewEdit(Restrict(layer, nodes), Moved(Restrict(layer, nodes)))
         IN /\ e \in Edit /\ e.from = Restrict(layer, nodes)
            /\ On(e.from) = nodes /\ On(e.to) = nodes
            /\ \A s \in nodes : e.to[s].on = layer[s].on
            /\ layer' \in Layers /\ On(layer') = On(layer)
            /\ \A s \in On(layer) : layer'[s].on = layer[s].on
<1> DEFINE from == Restrict(layer, nodes)
           e == NewEdit(from, Moved(from))
<1>1. layer' = Put(layer, e.from, e.to) /\ layer \in Layers /\ nodes \subseteq On(layer)
  BY TypeFacts DEF Drag, Selected
<1>2. from \in Layers /\ On(from) = nodes /\ \A s \in nodes : from[s] = layer[s] BY <1>1, RestrictIs
<1>a. /\ from = Restrict(layer, nodes)
      /\ e = NewEdit(from, Moved(from))
      /\ e = NewEdit(Restrict(layer, nodes), Moved(Restrict(layer, nodes)))
  OBVIOUS
<1>b. PICK f : f = e BY <1>a
<1> HIDE DEF from
<1>4. /\ Moved(from) \in Layers /\ On(Moved(from)) = nodes
      /\ \A s \in nodes : Moved(from)[s].on = layer[s].on
  BY <1>2, MovedIs
<1>5. e \in Edit /\ e.from = from /\ e.to = Moved(from)
  BY <1>2, <1>4, TypeFacts, NewEditIs
<1>6. /\ f \in Edit /\ f.from = from /\ f.from \in Layers /\ f.to \in Layers
      /\ On(f.from) = nodes /\ On(f.to) = nodes
      /\ \A s \in nodes : f.to[s].on = layer[s].on
  BY <1>2, <1>4, <1>5, <1>b
<1>c. layer' = Put(layer, f.from, f.to) BY <1>1, <1>b
<1>7. /\ layer' \in Layers /\ On(layer') = (On(layer) \ On(f.from)) \cup On(f.to)
      /\ \A s \in On(layer') : layer'[s] = IF s \in On(f.to) THEN f.to[s] ELSE layer[s]
  BY <1>1, <1>6, <1>c, PutIs
<1>8. On(layer') = On(layer) /\ \A s \in On(layer) : layer'[s].on = layer[s].on
  BY <1>1, <1>6, <1>7
<1>9. f = NewEdit(Restrict(layer, nodes), Moved(Restrict(layer, nodes))) BY <1>a, <1>b
<1>. QED BY <1>6, <1>7, <1>8, <1>9, <1>a

(* A deletion takes shapes away, and what is left is as it was.            *)
LEMMA DeleteIs ==
  ASSUME TypeOK, Groups, Delete
  PROVE  /\ layer' \in Layers /\ On(layer') \subseteq On(layer)
         /\ \/ /\ nodes' = {} /\ On(selection) \subseteq Found
               /\ current' = Append(current, NewEdit(selection, Nothing))
               /\ layer' = Put(layer, selection, Nothing)
            \/ /\ nodes' = nodes /\ current' = current
               /\ ~(On(selection) \subseteq Found)
<1> DEFINE e == NewEdit(selection, Nothing)
<1>1. selection \in Layers BY TypeFacts
<1>2. e.from = selection /\ e.to = Nothing /\ e = NewEdit(selection, Nothing)
  BY <1>1, TypeFacts, NothingLayer, NewEditIs
<1>3. /\ Change(e.from, e.to)
      /\ IF Throws(e.from) THEN UNCHANGED <<current, nodes>>
         ELSE current' = Append(current, e) /\ nodes' = {}
  BY DEF Delete, history
<1> HIDE DEF e
<1>4. layer' \in Layers /\ On(layer') \subseteq On(layer) BY <1>1, <1>2, <1>3, NothingLayer, ChangeIs
<1>5. CASE Throws(selection)
  <2>1. ~(On(selection) \subseteq Found) BY <1>5 DEF Throws
  <2>. QED BY <1>2, <1>3, <1>4, <1>5, <2>1
<1>6. CASE ~Throws(selection)
  <2>1. On(selection) \subseteq Found BY <1>6 DEF Throws
  <2>2. layer' = Put(layer, selection, Nothing) BY <1>2, <1>3, <2>1 DEF Change
  <2>. QED BY <1>2, <1>3, <1>4, <1>6, <2>1, <2>2
<1>. QED BY <1>5, <1>6

(* Shapes that are cut are taken away.                                     *)
LEMMA CopiedIs ==
  ASSUME TypeOK, Groups, NEW i \in DOMAIN jobs, Copied(i)
  PROVE  /\ jobs[i].shapes \subseteq Grouped /\ jobs[i].shapes \subseteq On(layer)
         /\ \A k \in DOMAIN jobs' : \E j \in DOMAIN jobs : jobs'[k] = jobs[j]
         /\ nodes' = {} \/ nodes' = nodes
         /\ ~jobs[i].group => jobs[i].shapes = {}
         /\ UNCHANGED <<undone, drawing>>
         /\ \/ UNCHANGED <<layer, current>>
            \/ \E e \in Edit :
                 /\ e.from = Restrict(layer, jobs[i].shapes) /\ e.to = Nothing
                 /\ current' = Append(current, e) /\ layer' = Put(layer, e.from, e.to)
                 /\ layer' \in Layers /\ On(layer') = On(layer) \ jobs[i].shapes
                 /\ \A s \in On(layer') : layer'[s] = layer[s]
<1>1. jobs[i].shapes \subseteq Grouped /\ jobs[i].shapes \subseteq On(layer) BY DEF Groups, Grouped
<1>2. /\ jobs' = RemoveAt(jobs, i) /\ UNCHANGED <<undone, drawing>>
      /\ nodes' = {} \/ nodes' = nodes
      /\ ~jobs[i].group => jobs[i].shapes = {}
  BY DEF Copied, Groups
<1>a. jobs \in Seq(Job) BY DEF TypeOK, Job
<1>3. DOMAIN jobs = 1 .. Len(jobs) /\ Len(jobs) \in Nat /\ i \in 1 .. Len(jobs) BY <1>a
<1>4. /\ DOMAIN jobs' = 1 .. Len(jobs) - 1
      /\ \A k \in 1 .. Len(jobs) - 1 : jobs'[k] = IF k < i THEN jobs[k] ELSE jobs[k + 1]
  <2> DEFINE r == RemoveAt(jobs, i)
  <2>1. /\ r \in Seq(Job) /\ Len(r) = Len(jobs) - 1
        /\ \A k \in 1 .. Len(jobs) - 1 : r[k] = IF k < i THEN jobs[k] ELSE jobs[k + 1]
    BY <1>a, <1>3, RemoveAtIs
  <2>2. jobs' = r BY <1>2
  <2> HIDE DEF r
  <2>3. DOMAIN r = 1 .. Len(r) BY <2>1
  <2>. QED BY <2>1, <2>2, <2>3
<1>5. \A k \in DOMAIN jobs' : \E j \in DOMAIN jobs : jobs'[k] = jobs[j]
  <2> TAKE k \in DOMAIN jobs'
  <2>1. k \in DOMAIN jobs /\ k + 1 \in DOMAIN jobs BY <1>3, <1>4
  <2>. QED BY <1>4, <2>1
<1>6. CASE ~jobs[i].cut
  <2>1. UNCHANGED <<layer, current>> BY <1>6 DEF Copied
  <2>. QED BY <1>1, <1>2, <1>5, <2>1
<1>7. CASE jobs[i].cut
  <2> DEFINE X == jobs[i].shapes
             from == Restrict(layer, X)
  <2>1. layer \in Layers BY TypeFacts
  <2>2. from \in Layers /\ On(from) = X BY <1>1, <2>1, RestrictIs
  <2> HIDE DEF from, X
  <2>3. PICK e : e = NewEdit(from, Nothing) OBVIOUS
  <2>4. e \in Edit /\ e.from = from /\ e.to = Nothing
    BY <2>2, <2>3, TypeFacts, NothingLayer, NewEditIs
  <2>5. current' = Append(current, e) /\ layer' = Put(layer, e.from, e.to)
    BY <1>7, <2>3 DEF Copied, from, X
  <2>6. /\ layer' \in Layers /\ On(layer') = (On(layer) \ On(from)) \cup On(Nothing)
        /\ \A s \in On(layer') : layer'[s] = IF s \in On(Nothing) THEN Nothing[s] ELSE layer[s]
    <3>1. /\ Put(layer, from, Nothing) \in Layers
          /\ On(Put(layer, from, Nothing)) = (On(layer) \ On(from)) \cup On(Nothing)
          /\ \A s \in On(Put(layer, from, Nothing)) :
               Put(layer, from, Nothing)[s] = IF s \in On(Nothing) THEN Nothing[s] ELSE layer[s]
      BY <2>1, <2>2, NothingLayer, PutIs
    <3>2. layer' = Put(layer, from, Nothing) BY <2>4, <2>5
    <3>. QED BY <3>1, <3>2
  <2>7. On(layer') = On(layer) \ X /\ \A s \in On(layer') : layer'[s] = layer[s]
    BY <2>2, <2>6, NothingLayer
  <2>8. \E d \in Edit :
          /\ d.from = Restrict(layer, jobs[i].shapes) /\ d.to = Nothing
          /\ current' = Append(current, d) /\ layer' = Put(layer, d.from, d.to)
          /\ layer' \in Layers /\ On(layer') = On(layer) \ jobs[i].shapes
          /\ \A s \in On(layer') : layer'[s] = layer[s]
    BY <2>4, <2>5, <2>6, <2>7 DEF from, X
  <2>. QED BY <1>1, <1>2, <1>5, <2>8
<1>. QED BY <1>6, <1>7

(* What is drawn is drawn when nothing is selected.                        *)
LEMMA NextIdle ==
  ASSUME CanvasAssumption, Kept, Idle, [Next]_vars
  PROVE  Idle'
<1>0. TypeOK /\ Selected /\ Groups /\ Unnamed BY DEF Kept
<1>1. CASE UNCHANGED vars BY <1>1 DEF vars, Idle
<1>2. CASE Next
  <2>0. On(layer) \subseteq Shape /\ None \notin Shape /\ layer \in Layers
    BY <1>0, TypeFacts, LayerIs DEF CanvasAssumption
  <2>1. CASE \E s \in Shape : MouseDown(s) BY <2>1 DEF MouseDown, Destroy, Idle
  <2>2. CASE \E s \in Shape : MouseMove(s)
    <3>1. PICK s \in Shape : MouseMove(s) BY <2>2
    <3>2. On(layer') = On(layer) /\ UNCHANGED <<drawing, nodes>> BY <1>0, <3>1, MouseMoveIs DEF MouseMove
    <3>. QED BY <3>2 DEF Idle
  <2>3. CASE MouseUpLeave
    <3>1. drawing' \notin On(layer') BY <2>0, <2>3 DEF MouseUpLeave
    <3>. QED BY <3>1 DEF Idle
  <2>4. CASE (\E s \in Shape : SelectShape(s)) \/ \E X \in SUBSET On(layer) : SelectBox(X)
    <3>1. NotPressed /\ UNCHANGED <<layer, drawing>> BY <2>4 DEF SelectShape, SelectBox
    <3>. QED BY <2>0, <3>1 DEF NotPressed, Idle
  <2>5. CASE Drag
    <3>1. NotPressed /\ drawing' = drawing BY <2>5 DEF Drag
    <3>2. On(layer') = On(layer) BY <1>0, <2>5, DragIs
    <3>. QED BY <2>0, <3>1, <3>2 DEF NotPressed, Idle
  <2>6. CASE Undo \/ Redo BY <2>6 DEF Undo, Redo, Destroy, Idle
  <2>7. CASE Delete
    <3>1. On(layer') \subseteq On(layer) /\ (nodes' = {} \/ nodes' = nodes)
      BY <1>0, <2>7, DeleteIs
    <3>2. drawing' = drawing BY <2>7 DEF Delete
    <3>. QED BY <3>1, <3>2 DEF Idle
  <2>8. CASE \E cut \in BOOLEAN : Copy(cut) BY <2>8 DEF Copy, Idle
  <2>9. CASE \E i \in DOMAIN jobs : Copied(i)
    <3>1. (nodes' = {} \/ nodes' = nodes) /\ drawing' = drawing /\ On(layer') \subseteq On(layer)
      BY <1>0, <2>9, CopiedIs
    <3>. QED BY <3>1 DEF Idle
  <2>10. CASE \E s \in Shape \ Eraser : Paste(s) BY <2>10 DEF Paste, Idle
  <2>11. CASE \E s \in loading : InsertImage(s)
    <3>1. PICK s \in loading : InsertImage(s) BY <2>11
    <3>2. s \in Shape /\ s \notin On(layer) /\ drawing # s
      BY <1>0, TypeFacts DEF Unnamed
    <3> DEFINE one == [x \in {s} |-> [at |-> 1, on |-> {}]]
    <3>3. layer' = Put(layer, Nothing, one)
      <4>1. one \in Layers BY <3>2, AloneIs
      <4> HIDE DEF one
      <4>2. NewEdit(Nothing, one).from = Nothing /\ NewEdit(Nothing, one).to = one
        BY <1>0, <4>1, TypeFacts, NothingLayer, NewEditIs
      <4>3. layer' = Put(layer, NewEdit(Nothing, one).from, NewEdit(Nothing, one).to)
        BY <3>1 DEF InsertImage, one
      <4>. QED BY <4>2, <4>3
    <3>4. On(layer') = On(layer) \cup {s} BY <1>0, <3>2, <3>3, AddedIs
    <3>. QED BY <3>1, <3>2, <3>4 DEF InsertImage, Idle
  <2>12. CASE NewFile \/ Reopen BY <2>12 DEF NewFile, Reopen, Cleared, Idle
  <2>. QED BY <1>2, <2>1, <2>2, <2>3, <2>4, <2>5, <2>6, <2>7, <2>8, <2>9, <2>10, <2>11, <2>12 DEF Next
<1>. QED BY <1>1, <1>2

(* The lines of the eraser are there with what they were drawn over: those *)
(* of the history are where the story is, and one is being drawn.          *)
LEMMA TidyNow ==
  ASSUME Kept, Recorded, Orderly, Neat, NEW x \in On(layer)
  PROVE  TidyLine(layer, x)
<1>0. TypeOK /\ Unnamed /\ Clean BY NeatIsClean DEF Kept
<1>1. CASE x = drawing BY <1>1 DEF Orderly
<1>2. CASE x # drawing
  <2>1. PICK V : Tells(V) BY <1>0 DEF Recorded
  <2>2. current \in Seq(Edit) /\ undone \in Seq(Edit) /\ layer \in Layers BY <1>0, TypeFacts DEF Lists
  <2> DEFINE T == Timeline(current, undone)
             k == Len(current)
  <2>3. k \in 0 .. Len(T)
    <3>1. Len(T) = Len(current) + Len(undone) BY <2>2, TimelineIs
    <3>2. Len(current) \in Nat /\ Len(undone) \in Nat BY <2>2
    <3> HIDE DEF T
    <3>. QED BY <3>1, <3>2
  <2>4. TidyAt(V, k) BY <2>1, <2>3 DEF Tells
  <2>5. \A s \in Shape \ {drawing} : At(layer, s) = V[s][k] BY <2>1 DEF Tells, AsDrawn
  <2>6. drawing \in Shape => V[drawing][k] = Gone
    <3> SUFFICES ASSUME drawing \in Shape PROVE V[drawing][k] = Gone OBVIOUS
    <3>1. drawing \notin Named BY <1>0 DEF Unnamed
    <3>2. \A i \in 0 .. Len(T) : V[drawing][i] = Gone BY <1>0, <2>1, <3>1, UnnamedGone DEF Tells
    <3>. QED BY <2>3, <3>2
  <2> HIDE DEF T, k
  <2>7. x \in Shape /\ layer[x] = V[x][k]
    <3>1. x \in Shape /\ At(layer, x) = layer[x] BY <2>2, LayerIs DEF At
    <3>. QED BY <1>2, <2>5, <3>1
  <2>8. ASSUME NEW t \in layer[x].on PROVE t \in On(layer) \ Eraser
    <3>1. t \in Shape \ Eraser /\ V[t][k] # Gone BY <2>4, <2>7 DEF TidyAt
    <3>2. At(layer, t) # Gone BY <2>5, <2>6, <3>1
    <3>. QED BY <3>1, <3>2 DEF At
  <2>9. layer[x].on # {} => x \in Eraser BY <2>4, <2>7 DEF TidyAt
  <2>. QED BY <2>8, <2>9 DEF TidyLine
<1>. QED BY <1>1, <1>2

(* A set of shapes holds the lines over its shapes as long as no shape is  *)
(* added to what a line was drawn over.                                    *)
LEMMA ClosedStays ==
  ASSUME NEW X, Closed(X),
         \A x \in On(layer') : layer'[x].on = {} \/ (x \in On(layer) /\ layer'[x].on = layer[x].on)
  PROVE  Closed(X)'
<1>1. ASSUME NEW x \in On(layer'), layer'[x].on \cap X # {} PROVE x \in X
  <2>1. x \in On(layer) /\ layer'[x].on = layer[x].on BY <1>1
  <2>. QED BY <1>1, <2>1 DEF Closed
<1>2. \A x \in On(layer') : layer'[x].on \cap X # {} => x \in X BY <1>1
<1>. QED BY <1>2 DEF Closed

(* No shapes, no lines over them.                                          *)
LEMMA ClosedNone == Closed({})' BY DEF Closed

(* Only lines that are not being drawn are selected, grouped or cut.       *)
LEMMA OrderlyStays ==
  ASSUME Orderly, OddStays, nodes' = nodes \/ nodes' = {}, jobs' = jobs,
         Neat' => \A x \in On(layer') : \/ layer'[x].on = {}
                                        \/ x \in On(layer) /\ layer'[x].on = layer[x].on,
         Neat' /\ drawing' \in On(layer') => undone' = <<>> /\ TidyLine(layer', drawing')
  PROVE  Orderly'
<1> SUFFICES ASSUME Neat'
             PROVE  /\ Closed(nodes)' /\ \A i \in DOMAIN jobs' : Closed(jobs[i].shapes)'
                    /\ drawing' \in On(layer') => undone' = <<>> /\ TidyLine(layer', drawing')
  BY DEF Orderly
<1>1. Closed(nodes) /\ \A i \in DOMAIN jobs : Closed(jobs[i].shapes) BY DEF Orderly, OddStays
<1>2. \A x \in On(layer') : layer'[x].on = {} \/ (x \in On(layer) /\ layer'[x].on = layer[x].on)
  OBVIOUS
<1>3. Closed(nodes)'
  <2>1. PICK X : X = nodes OBVIOUS
  <2>2. Closed(X)' BY <1>1, <1>2, <2>1, ClosedStays
  <2>3. nodes' = X \/ nodes' = {} BY <2>1
  <2>. QED BY <2>2, <2>3, ClosedNone DEF Closed
<1>4. ASSUME NEW i \in DOMAIN jobs' PROVE Closed(jobs[i].shapes)'
  <2>1. PICK X : X = jobs[i].shapes OBVIOUS
  <2>2. Closed(X)' BY <1>1, <1>2, <1>4, <2>1, ClosedStays
  <2>3. jobs'[i].shapes = X BY <2>1
  <2>. QED BY <2>2, <2>3 DEF Closed
<1>. QED BY <1>3, <1>4

(* The shapes that are selected with the lines on them are closed.         *)
LEMMA ErasingCloses ==
  ASSUME NEW X \in SUBSET On(layer), \A x \in On(layer) : TidyLine(layer, x)
  PROVE  Closed(X \cup Erasing(X))
<1>1. \A e \in Erasing(X) : e \in On(layer) /\ e \in Eraser BY DEF Erasing, TidyLine
<1>2. ASSUME NEW x \in On(layer), layer[x].on \cap (X \cup Erasing(X)) # {}
      PROVE  x \in X \cup Erasing(X)
  <2>1. layer[x].on \cap Erasing(X) = {} BY <1>1 DEF TidyLine
  <2>2. layer[x].on \cap X # {} BY <1>2, <2>1
  <2>. QED BY <2>2 DEF Erasing
<1>3. \A x \in On(layer) : layer[x].on \cap (X \cup Erasing(X)) # {} => x \in X \cup Erasing(X)
  BY <1>2
<1>. QED BY <1>3 DEF Closed

(* What an image, once it is there, does to the canvas.                    *)
LEMMA InsertImageIs ==
  ASSUME TypeOK, Unnamed, NEW s \in loading, InsertImage(s)
  PROVE  /\ s \in Shape /\ s \notin On(layer) /\ s # drawing /\ s \notin Named
         /\ \E e \in Edit : /\ e.from = Nothing /\ e.to = [x \in {s} |-> [at |-> 1, on |-> {}]]
                            /\ current' = Append(current, e)
         /\ layer' = Put(layer, Nothing, [x \in {s} |-> [at |-> 1, on |-> {}]])
<1>1. s \in Shape /\ s \notin On(layer) /\ s # drawing /\ s \notin Named BY TypeFacts DEF Unnamed
<1> DEFINE one == [x \in {s} |-> [at |-> 1, on |-> {}]]
<1>2. one \in Layers BY <1>1, AloneIs
<1>3. /\ layer' = Put(layer, NewEdit(Nothing, one).from, NewEdit(Nothing, one).to)
      /\ current' = Append(current, NewEdit(Nothing, one))
  BY DEF InsertImage
<1>4. PICK o : o = one OBVIOUS
<1> HIDE DEF one
<1>5. PICK e : e = NewEdit(Nothing, one) OBVIOUS
<1>6. e \in Edit /\ e.from = Nothing /\ e.to = one BY <1>2, <1>5, TypeFacts, NothingLayer, NewEditIs
<1>7. layer' = Put(layer, Nothing, one) /\ current' = Append(current, e) BY <1>3, <1>5, <1>6
<1>8. \E d \in Edit : d.from = Nothing /\ d.to = one /\ current' = Append(current, d) BY <1>6, <1>7
<1>. QED BY <1>1, <1>7, <1>8 DEF one

(* Undo, redo, deletions and copies are out of the way of what else goes   *)
(* on, or are blamed for it.                                               *)
LEMMA EarlyIs ==
  ASSUME Blame(Early)
  PROVE  (Clean' => ~InFlight) /\ (Neat' => ~InFlight /\ drawing = None)
BY DEF Blame, Early, If, InFlight, Clean, Neat

(* The eraser is over what it is drawn over.                               *)
LEMMA PressOrderly ==
  ASSUME CanvasAssumption, Kept, Recorded, Orderly, Idle, OddStays,
         \/ \E s \in Shape : MouseDown(s) \/ MouseMove(s)
         \/ MouseUpLeave
  PROVE  Orderly'
<1>0. TypeOK /\ Selected /\ Groups /\ Unnamed BY DEF Kept
<1>1. ASSUME NEW s \in Shape, MouseDown(s) PROVE Orderly'
  <2>1. /\ s \in Fresh /\ undone' = <<>> /\ nodes' = {} /\ jobs' = jobs /\ drawing' = s
        /\ layer' = Put(layer, Nothing, [x \in {s} |-> [at |-> 1, on |-> {}]])
    BY <1>1 DEF MouseDown, Destroy
  <2>2. s \notin On(layer) BY <1>0, <2>1, FreshIs
  <2>3. /\ On(layer') = On(layer) \cup {s} /\ layer'[s].on = {}
        /\ \A x \in On(layer) : layer'[x] = layer[x]
    BY <1>0, <2>1, <2>2, AddedIs
  <2>4. \A x \in On(layer') : layer'[x].on = {} \/ (x \in On(layer) /\ layer'[x].on = layer[x].on)
    BY <2>3
  <2>5. TidyLine(layer', drawing') BY <2>1, <2>3 DEF TidyLine
  <2>. QED BY <2>1, <2>4, <2>5, OrderlyStays
<1>2. ASSUME NEW t \in Shape, MouseMove(t) PROVE Orderly'
  <2>1. /\ drawing \in Eraser \cap Found /\ t \in On(layer) \ Eraser
        /\ UNCHANGED <<undone, nodes, jobs, drawing>>
    BY <1>2 DEF MouseMove, history
  <2>2. /\ On(layer') = On(layer) /\ drawing \in On(layer)
        /\ \A s \in On(layer) \ {drawing} : layer'[s] = layer[s]
        /\ layer'[drawing].on = layer[drawing].on \cup {t}
    BY <1>0, <1>2, MouseMoveIs
  <2> SUFFICES ASSUME Neat'
               PROVE  /\ Closed(nodes)' /\ \A i \in DOMAIN jobs' : Closed(jobs[i].shapes)'
                      /\ undone' = <<>> /\ TidyLine(layer', drawing')
    BY DEF Orderly
  <2>3. t \notin Grouped
    <3>1. odd' = odd \cup If("clipboard", t \in Grouped) BY <1>2 DEF MouseMove, Blame
    <3>. QED BY <3>1 DEF Neat, If
  <2>4. /\ \A i \in DOMAIN jobs : Closed(jobs[i].shapes)
        /\ undone = <<>> /\ TidyLine(layer, drawing)
    BY <2>2 DEF Orderly, OddStays
  <2>5. nodes' = {} BY <2>1, <2>2 DEF Idle
  <2>6. ASSUME NEW i \in DOMAIN jobs' PROVE Closed(jobs[i].shapes)'
    <3>1. PICK X : X = jobs[i].shapes OBVIOUS
    <3>2. X \subseteq Grouped /\ t \notin X /\ Closed(X)
      BY <2>1, <2>3, <2>4, <2>6, <3>1 DEF Grouped
    <3>3. \A x \in On(layer') : layer'[x].on \cap X # {} => x \in X
      <4> SUFFICES ASSUME NEW x \in On(layer'), layer'[x].on \cap X # {} PROVE x \in X OBVIOUS
      <4>1. layer[x].on \cap X # {} BY <2>2, <3>2
      <4>. QED BY <2>2, <3>2, <4>1 DEF Closed
    <3>4. jobs'[i].shapes = X BY <2>1, <3>1
    <3>. QED BY <3>3, <3>4 DEF Closed
  <2>7. TidyLine(layer', drawing') BY <2>1, <2>2, <2>4 DEF TidyLine
  <2>8. Closed(nodes)' BY <2>5 DEF Closed
  <2>. QED BY <2>1, <2>4, <2>6, <2>7, <2>8
<1>3. ASSUME MouseUpLeave PROVE Orderly'
  <2>1. drawing' = None /\ UNCHANGED <<layer, undone, nodes, jobs>> BY <1>3 DEF MouseUpLeave
  <2>2. drawing' \notin On(layer') BY <1>0, <2>1, TypeFacts, LayerIs DEF CanvasAssumption
  <2>. QED BY <2>1, <2>2, OrderlyStays
<1>. QED BY <1>1, <1>2, <1>3

(* Shapes are selected with the lines over them.                           *)
LEMMA SelectOrderly ==
  ASSUME CanvasAssumption, Kept, Recorded, Orderly, OddStays,
         (\E s \in Shape : SelectShape(s)) \/ \E X \in SUBSET On(layer) : SelectBox(X)
  PROVE  Orderly'
<1>1. /\ NotPressed /\ UNCHANGED <<layer, drawing, jobs>>
      /\ nodes' = {} \/ \E X \in SUBSET On(layer) : nodes' = X \cup Erasing(X)
  BY DEF SelectShape, SelectBox, Create, Destroy
<1>2. drawing' \notin On(layer')
  BY <1>1, TypeFacts, LayerIs DEF NotPressed, Kept, CanvasAssumption
<1> SUFFICES ASSUME Neat'
             PROVE  Closed(nodes)' /\ \A i \in DOMAIN jobs' : Closed(jobs[i].shapes)'
  BY <1>2 DEF Orderly
<1>3. Neat BY DEF OddStays
<1>4. \A i \in DOMAIN jobs' : Closed(jobs[i].shapes)' BY <1>1, <1>3 DEF Orderly, Closed
<1>5. CASE nodes' = {} BY <1>4, <1>5 DEF Closed
<1>6. CASE \E X \in SUBSET On(layer) : nodes' = X \cup Erasing(X)
  <2>1. PICK X \in SUBSET On(layer) : nodes' = X \cup Erasing(X) BY <1>6
  <2>2. \A x \in On(layer) : TidyLine(layer, x) BY <1>3, TidyNow
  <2>3. Closed(X \cup Erasing(X)) BY <2>2, ErasingCloses
  <2>4. PICK Y : Y = X \cup Erasing(X) OBVIOUS
  <2>5. Closed(Y) /\ nodes' = Y BY <2>1, <2>3, <2>4
  <2>6. Closed(nodes)' BY <1>1, <2>5 DEF Closed
  <2>. QED BY <1>4, <2>6
<1>. QED BY <1>1, <1>5, <1>6

(* What is deleted, undone, redone, copied or moved.                       *)
LEMMA CommandOrderly ==
  ASSUME CanvasAssumption, Kept, Recorded, Orderly, OddStays,
         Undo \/ Redo \/ Delete \/ (\E cut \in BOOLEAN : Copy(cut)) \/ Drag
  PROVE  Orderly'
<1>0. TypeOK /\ Selected /\ Groups /\ None \notin Shape /\ layer \in Layers
  BY TypeFacts DEF Kept, CanvasAssumption
<1>1. CASE Drag
  <2>1. /\ layer' \in Layers /\ On(layer') = On(layer)
        /\ \A s \in On(layer) : layer'[s].on = layer[s].on
    BY <1>0, <1>1, DragIs
  <2>2. NotPressed /\ UNCHANGED <<nodes, drawing, jobs>> BY <1>1 DEF Drag
  <2>3. drawing' \notin On(layer') BY <1>0, <2>1, <2>2, LayerIs DEF NotPressed
  <2>. QED BY <2>1, <2>2, <2>3, OrderlyStays
<1>2. CASE Undo \/ Redo
  <2> SUFFICES ASSUME Neat' PROVE Orderly' BY DEF Orderly
  <2>1. /\ Blame(Early) /\ nodes' = {} /\ UNCHANGED <<drawing, jobs>> /\ layer' \in Layers
    <3>1. CASE Undo BY <3>1, UndoKept, TypeFacts DEF Undo, Destroy, Kept, TypeOK
    <3>2. CASE Redo BY <3>2, RedoKept, TypeFacts DEF Redo, Destroy, Kept, TypeOK
    <3>. QED BY <1>2, <3>1, <3>2
  <2>2. ~InFlight /\ drawing' = None BY <2>1, EarlyIs
  <2>3. drawing' \notin On(layer') BY <1>0, <2>1, <2>2, LayerIs
  <2>a. \A i \in DOMAIN jobs' : jobs'[i].shapes = {} BY <1>0, <2>1, <2>2, NoGroups
  <2>4. Closed(nodes)' /\ \A i \in DOMAIN jobs' : Closed(jobs[i].shapes)' BY <2>1, <2>a DEF Closed
  <2>. QED BY <2>3, <2>4 DEF Orderly
<1>3. CASE Delete
  <2> SUFFICES ASSUME Neat' PROVE Orderly' BY DEF Orderly
  <2>1. Blame(Early) /\ UNCHANGED <<drawing, jobs>> /\ On(selection) # {} BY <1>3 DEF Delete
  <2>2. ~InFlight /\ drawing = None BY <2>1, EarlyIs
  <2>3. /\ layer' \in Layers
        /\ \/ nodes' = {}
           \/ ~(On(selection) \subseteq Found)
    BY <1>0, <1>3, DeleteIs
  <2>4. On(selection) \subseteq Found
    <3>1. "cleared" \notin odd
      <4>1. Neat BY DEF OddStays
      <4>. QED BY <4>1 DEF Neat
    <3>2. selection = Restrict(layer, nodes) /\ nodes \subseteq On(layer)
      BY <1>0, <2>1, <3>1, SelectionIs
    <3>3. On(selection) = nodes BY <1>0, <3>2, RestrictIs
    <3>4. Found = On(layer) BY <1>0, <2>2, NoGroups
    <3>. QED BY <3>2, <3>3, <3>4
  <2>5. drawing' \notin On(layer') BY <1>0, <2>1, <2>2, <2>3, LayerIs
  <2>a. \A i \in DOMAIN jobs' : jobs'[i].shapes = {} BY <1>0, <2>1, <2>2, NoGroups
  <2>6. Closed(nodes)' /\ \A i \in DOMAIN jobs' : Closed(jobs[i].shapes)'
    BY <2>a, <2>3, <2>4 DEF Closed
  <2>. QED BY <2>5, <2>6 DEF Orderly
<1>4. CASE \E cut \in BOOLEAN : Copy(cut)
  <2> SUFFICES ASSUME Neat' PROVE Orderly' BY DEF Orderly
  <2>1. PICK cut \in BOOLEAN : Copy(cut) BY <1>4
  <2> DEFINE rest == [i \in DOMAIN jobs |-> [jobs[i] EXCEPT !.shapes = @ \ nodes]]
             job == [cut |-> cut, group |-> TRUE, shapes |-> nodes]
  <2>2. Blame(Early) /\ jobs' = Append(rest, job) /\ UNCHANGED <<layer, drawing, nodes>>
    BY <2>1 DEF Copy
  <2>3. ~InFlight /\ drawing = None BY <2>2, EarlyIs
  <2>a. jobs \in Seq(Job) /\ nodes \subseteq Shape /\ \A i \in DOMAIN jobs : jobs[i].shapes = {}
    BY <1>0, <2>3, NoGroups DEF TypeOK, Job
  <2>4. /\ rest \in Seq(Job) /\ Len(rest) = Len(jobs)
        /\ \A i \in 1 .. Len(jobs) : rest[i].shapes = jobs[i].shapes \ nodes
    BY <2>a, RegroupIs
  <2>5. job.shapes = nodes /\ job \in Job BY <2>a DEF Job
  <2> HIDE DEF rest, job
  <2>b. Len(jobs) \in Nat /\ DOMAIN jobs = 1 .. Len(jobs) BY <2>a
  <2>6. /\ DOMAIN jobs' = 1 .. Len(jobs) + 1
        /\ \A i \in 1 .. Len(jobs) : jobs'[i] = rest[i]
        /\ jobs'[Len(jobs) + 1] = job
    BY <2>2, <2>4, <2>5, AppendProperties
  <2>7. Closed(nodes)
    <3>1. Neat BY DEF OddStays
    <3>. QED BY <3>1 DEF Orderly
  <2>8. Closed(nodes)' BY <2>2, <2>7 DEF Closed
  <2>9. ASSUME NEW i \in DOMAIN jobs' PROVE jobs'[i].shapes = {} \/ jobs'[i].shapes = nodes'
    <3>1. i \in 1 .. Len(jobs) \/ i = Len(jobs) + 1 BY <2>b, <2>6
    <3>2. CASE i \in 1 .. Len(jobs)
      <4>1. jobs'[i].shapes = jobs[i].shapes \ nodes /\ jobs[i].shapes = {} BY <2>a, <2>b, <2>4, <2>6, <3>2
      <4>. QED BY <4>1
    <3>. QED BY <2>2, <2>5, <2>6, <3>1, <3>2
  <2>10. \A i \in DOMAIN jobs' : Closed(jobs[i].shapes)' BY <2>8, <2>9 DEF Closed
  <2>11. drawing' \notin On(layer') BY <1>0, <2>2, <2>3, LayerIs
  <2>. QED BY <2>8, <2>10, <2>11 DEF Orderly
<1>. QED BY <1>1, <1>2, <1>3, <1>4

(* What is cut is cut with the lines over it.                              *)
LEMMA CopiedOrderly ==
  ASSUME CanvasAssumption, Kept, Orderly, OddStays, NEW i \in DOMAIN jobs, Copied(i)
  PROVE  Orderly'
<1>0. TypeOK /\ Selected /\ Groups BY DEF Kept
<1> SUFFICES ASSUME Neat' PROVE Orderly' BY DEF Orderly
<1>1. /\ \A k \in DOMAIN jobs' : \E j \in DOMAIN jobs : jobs'[k] = jobs[j]
      /\ (nodes' = {} \/ nodes' = nodes) /\ undone' = undone /\ drawing' = drawing
      /\ jobs[i].shapes \subseteq Grouped
  BY <1>0, CopiedIs
<1>2. /\ On(layer') \subseteq On(layer) /\ \A s \in On(layer') : layer'[s] = layer[s]
      /\ On(layer) \ jobs[i].shapes \subseteq On(layer')
  BY <1>0, CopiedIs
<1>3. /\ \A j \in DOMAIN jobs : Closed(jobs[j].shapes)
      /\ drawing \in On(layer) => undone = <<>> /\ TidyLine(layer, drawing)
  BY DEF Orderly, OddStays
<1>4. ASSUME NEW k \in DOMAIN jobs' PROVE Closed(jobs[k].shapes)'
  <2>1. PICK j \in DOMAIN jobs : jobs'[k] = jobs[j] BY <1>1
  <2>2. PICK X : X = jobs[j].shapes OBVIOUS
  <2>3. Closed(X) /\ jobs'[k].shapes = X BY <1>3, <2>1, <2>2
  <2>4. Closed(X)' BY <1>2, <2>3 DEF Closed
  <2>. QED BY <2>3, <2>4 DEF Closed
<1>5. ASSUME drawing' \in On(layer') PROVE undone' = <<>> /\ TidyLine(layer', drawing')
  <2>1. drawing \in On(layer) /\ undone' = <<>> /\ TidyLine(layer, drawing) BY <1>1, <1>2, <1>3, <1>5
  <2>2. drawing \notin jobs[i].shapes BY <1>0, <1>1 DEF Groups
  <2>3. layer[drawing].on \cap jobs[i].shapes = {} BY <1>3, <2>1, <2>2 DEF Closed
  <2>4. layer'[drawing'] = layer[drawing] BY <1>1, <1>2, <1>5
  <2>. QED BY <1>1, <1>2, <2>1, <2>3, <2>4 DEF TidyLine
<1>6. Closed(nodes)'
  <2>1. PICK X : X = nodes OBVIOUS
  <2>2. Closed(X) BY <2>1 DEF Orderly, OddStays
  <2>3. Closed(X)' BY <1>2, <2>2, ClosedStays
  <2>4. nodes' = {} \/ nodes' = X BY <1>1, <2>1
  <2>. QED BY <2>3, <2>4 DEF Closed
<1>. QED BY <1>4, <1>5, <1>6 DEF Orderly

(* Images, a new file, the board as the room holds it.                     *)
LEMMA FileOrderly ==
  ASSUME CanvasAssumption, Kept, Orderly, OddStays,
         \/ \E s \in Shape \ Eraser : Paste(s)
         \/ \E s \in loading : InsertImage(s)
         \/ NewFile \/ Reopen
  PROVE  Orderly'
<1>0. TypeOK /\ Selected /\ Groups /\ Unnamed BY DEF Kept
<1>1. ASSUME NEW s \in Shape, Paste(s) PROVE Orderly'
  BY <1>1 DEF Paste, history, Orderly, Neat, Closed, TidyLine
<1>2. ASSUME NEW s \in loading, InsertImage(s) PROVE Orderly'
  <2>1. /\ s \in Shape /\ s \notin On(layer) /\ s # drawing
        /\ layer' = Put(layer, Nothing, [x \in {s} |-> [at |-> 1, on |-> {}]])
    BY <1>0, <1>2, InsertImageIs
  <2>2. /\ On(layer') = On(layer) \cup {s} /\ layer'[s].on = {}
        /\ \A x \in On(layer) : layer'[x] = layer[x]
    BY <1>0, <2>1, AddedIs
  <2>3. \A x \in On(layer') : layer'[x].on = {} \/ (x \in On(layer) /\ layer'[x].on = layer[x].on)
    BY <2>2
  <2>4. UNCHANGED <<undone, nodes, drawing, jobs>> BY <1>2 DEF InsertImage
  <2>5. ASSUME Neat', drawing' \in On(layer') PROVE undone' = <<>> /\ TidyLine(layer', drawing')
    <3>1. drawing \in On(layer) /\ layer'[drawing] = layer[drawing] BY <2>1, <2>2, <2>4, <2>5
    <3>2. undone = <<>> /\ TidyLine(layer, drawing) BY <2>5, <3>1 DEF Orderly, OddStays
    <3>. QED BY <2>2, <2>4, <3>1, <3>2 DEF TidyLine
  <2>. QED BY <2>3, <2>4, <2>5, OrderlyStays
<1>3. ASSUME NewFile \/ Reopen PROVE Orderly'
  <2>1. Cleared /\ drawing' = drawing BY <1>3 DEF NewFile, Reopen
  <2>2. nodes' = {} /\ \A i \in DOMAIN jobs' : jobs'[i].shapes = {}
    BY <1>0, <2>1, ClearedIs DEF Cleared
  <2>3. drawing' \notin On(layer')
    <3>1. CASE NewFile BY <3>1, NothingLayer DEF NewFile
    <3>2. CASE Reopen
      <4>1. room.current \in Seq(Edit) BY <1>0, TypeFacts DEF Lists
      <4>2. layer' = Replay(room.current) BY <3>2 DEF Reopen
      <4>3. On(layer') \subseteq Named
        <5>1. On(layer') \subseteq Shape BY <4>1, <4>2, ReplayIs, LayerIs
        <5>. QED BY <4>1, <4>2, <5>1, ReplayIs DEF Named, Held
      <4>. QED BY <1>0, <2>1, <4>3 DEF Unnamed
    <3>. QED BY <1>3, <3>1, <3>2
  <2>4. Closed(nodes)' BY <2>2 DEF Closed
  <2>5. \A i \in DOMAIN jobs' : Closed(jobs[i].shapes)' BY <2>2 DEF Closed
  <2>. QED BY <2>3, <2>4, <2>5 DEF Orderly
<1>. QED BY <1>1, <1>2, <1>3

----------------------------------------------------------------------------
(* Every step is part of a story.                                          *)

(* A line that is finished is told; one that is drawn is not.              *)
LEMMA PressRecorded ==
  ASSUME CanvasAssumption, Kept, Recorded, Orderly, OddStays,
         \/ \E s \in Shape : MouseDown(s) \/ MouseMove(s)
         \/ MouseUpLeave
  PROVE  Recorded'
<1>0. TypeOK /\ Selected /\ Groups /\ Unnamed /\ layer \in Layers BY TypeFacts DEF Kept
<1>1. ASSUME NEW d \in Shape, MouseDown(d) PROVE Recorded'
  <2> SUFFICES ASSUME Clean' PROVE Recorded' BY DEF Recorded
  <2>1. /\ d \in Fresh /\ undone' = <<>> /\ current' = current /\ drawing' = d /\ NotPressed
        /\ layer' = Put(layer, Nothing, [x \in {d} |-> [at |-> 1, on |-> {}]])
    BY <1>1 DEF MouseDown, Blame, If, Clean
  <2>2. d \notin On(layer) BY <1>0, <2>1, FreshIs
  <2>3. On(layer') = On(layer) \cup {d} /\ \A x \in On(layer) : layer'[x] = layer[x]
    BY <1>0, <2>1, <2>2, AddedIs
  <2>4. ASSUME NEW s \in Shape \ {drawing'}
        PROVE  At(layer', s) = IF s = drawing THEN Gone ELSE At(layer, s)
    <3>1. At(layer', s) = At(layer, s) BY <2>1, <2>3, <2>4 DEF At
    <3>2. s = drawing => s \notin On(layer) BY <2>1, <2>4 DEF NotPressed, CanvasAssumption
    <3>. QED BY <3>1, <3>2 DEF At
  <2>. QED BY <2>1, <2>4, RecordedStays
<1>2. ASSUME NEW t \in Shape, MouseMove(t) PROVE Recorded'
  <2>1. UNCHANGED <<current, undone, jobs, drawing>> BY <1>2 DEF MouseMove, history
  <2>2. On(layer') = On(layer) /\ \A s \in On(layer) \ {drawing} : layer'[s] = layer[s]
    BY <1>0, <1>2, MouseMoveIs
  <2>3. \A s \in Shape \ {drawing'} : At(layer', s) = IF s = drawing THEN Gone ELSE At(layer, s)
    BY <2>1, <2>2 DEF At
  <2>4. Clean' /\ InFlight' => undone' = <<>> BY <2>1 DEF Recorded, OddStays, InFlight
  <2>. QED BY <2>1, <2>3, <2>4, RecordedStays
<1>3. ASSUME MouseUpLeave, UNCHANGED <<current, room>> PROVE Recorded'
  <2> SUFFICES ASSUME Clean' PROVE Recorded' BY DEF Recorded
  <2>1. UNCHANGED <<layer, undone, jobs>> /\ drawing' = None BY <1>3 DEF MouseUpLeave
  <2>2. NotPressed
    <3>1. current \in Seq(Edit) BY <1>0, TypeFacts DEF Lists
    <3>2. \A x : Append(current, x) # current
      <4>1. \A x : Len(Append(current, x)) # Len(current) BY <3>1
      <4>. QED BY <4>1
    <3>3. odd' = odd \cup If("abandoned", ~NotPressed) BY <1>3, <3>2 DEF MouseUpLeave, Blame
    <3>. QED BY <3>3 DEF If, Clean
  <2>3. ASSUME NEW s \in Shape \ {drawing'}
        PROVE  At(layer', s) = IF s = drawing THEN Gone ELSE At(layer, s)
    <3>1. s = drawing => s \notin On(layer) BY <2>2, <2>3 DEF NotPressed, CanvasAssumption
    <3>. QED BY <2>1, <3>1 DEF At
  <2>4. InFlight' => undone' = <<>> BY <2>1 DEF Recorded, OddStays, InFlight
  <2>. QED BY <1>3, <2>1, <2>3, <2>4, RecordedStays
<1>4. ASSUME MouseUpLeave, ~UNCHANGED <<current, room>> PROVE Recorded'
  <2> DEFINE d == drawing
             one == Restrict(layer, {d})
  <2>1. d \in On(layer) /\ d \in Shape BY <1>0, <1>4, LayerIs DEF MouseUpLeave, Found
  <2>2. one \in Layers /\ On(one) = {d} /\ one[d] = layer[d] BY <1>0, <2>1, RestrictIs
  <2>3. /\ current' = Append(current, NewEdit(Nothing, one)) /\ drawing' = None
        /\ UNCHANGED <<layer, undone, jobs>>
    BY <1>4 DEF MouseUpLeave
  <2> HIDE DEF one
  <2>4. PICK e : e = NewEdit(Nothing, one) OBVIOUS
  <2>5. e \in Edit /\ e.from = Nothing /\ e.to = one
    BY <1>0, <2>2, <2>4, TypeFacts, NothingLayer, NewEditIs
  <2>6. On(e.to) = {d} /\ At(e.to, d) = layer[d] /\ At(layer, d) = layer[d]
    BY <2>1, <2>2, <2>5 DEF At
  <2>7. \A s \in Shape : At(layer', s) = IF s = d THEN At(e.to, d) ELSE At(layer, s) BY <2>3, <2>6
  <2>8. d \notin Named BY <1>0 DEF Unnamed
  <2>9. ASSUME Neat'
        PROVE  \/ At(e.to, d).on = {}
               \/ /\ undone = <<>> /\ d \in Eraser
                  /\ At(e.to, d).on \subseteq {t \in Shape \ Eraser : t # drawing' /\ At(layer', t) # Gone}
    <3>1. undone = <<>> /\ TidyLine(layer, d) BY <2>1, <2>9 DEF Orderly, OddStays
    <3>2. ASSUME NEW t \in layer[d].on
          PROVE  t \in Shape \ Eraser /\ t # drawing' /\ At(layer', t) # Gone
      <4>1. t \in On(layer) \ Eraser BY <3>1 DEF TidyLine
      <4>2. t \in Shape BY <1>0, <4>1, LayerIs
      <4>. QED BY <1>0, <2>3, <4>1, <4>2, AtIs DEF CanvasAssumption
    <3>. QED BY <2>6, <3>1, <3>2 DEF TidyLine
  <2>10. current' = Append(current, e) BY <2>3, <2>4
  <2>. QED BY <2>1, <2>3, <2>5, <2>6, <2>7, <2>8, <2>9, <2>10, RecordedAdds
<1>. QED BY <1>1, <1>2, <1>3, <1>4

(* A selection may end the story at the current edit.                      *)
LEMMA SelectRecorded ==
  ASSUME CanvasAssumption, Kept, Recorded, OddStays,
         (\E s \in Shape : SelectShape(s)) \/ \E X \in SUBSET On(layer) : SelectBox(X)
  PROVE  Recorded'
<1>1. /\ NotPressed /\ UNCHANGED <<layer, current, drawing, jobs>>
      /\ undone' = undone \/ undone' = <<>>
  BY DEF SelectShape, SelectBox, Create, Destroy
<1>2. drawing \notin Shape \/ drawing \notin On(layer) BY <1>1 DEF NotPressed, CanvasAssumption
<1>3. \A s \in Shape \ {drawing'} : At(layer', s) = IF s = drawing THEN Gone ELSE At(layer, s)
  BY <1>1
<1>4. Clean' /\ InFlight' => undone' = <<>> BY <1>1 DEF Recorded, OddStays, InFlight
<1>. QED BY <1>1, <1>3, <1>4, RecordedStays

(* Shapes that are moved.                                                  *)
LEMMA DragRecorded ==
  ASSUME CanvasAssumption, Kept, Recorded, OddStays, Drag
  PROVE  Recorded'
<1>0. TypeOK /\ Selected BY DEF Kept
<1>1. PICK e : e = NewEdit(Restrict(layer, nodes), Moved(Restrict(layer, nodes))) OBVIOUS
<1>2. /\ e \in Edit /\ e.from = Restrict(layer, nodes)
      /\ On(e.from) = nodes /\ On(e.to) = nodes
      /\ \A s \in nodes : e.to[s].on = layer[s].on
  BY <1>0, <1>1, DragIs
<1>3. /\ layer' = Put(layer, e.from, e.to) /\ current' = Append(current, e)
      /\ nodes # {} /\ UNCHANGED <<undone, drawing>>
  BY <1>1 DEF Drag
<1>4. undone = <<>> /\ drawing \notin nodes /\ nodes \subseteq On(layer) BY <1>0, <1>3 DEF Selected
<1>5. Alters(nodes, e)
  <2>1. \A s \in nodes : At(e.to, s).on = At(layer, s).on BY <1>2, <1>4 DEF At
  <2>. QED BY <1>2, <2>1 DEF Alters
<1>. QED BY <1>2, <1>3, <1>4, <1>5, RecordedAppends

(* The canvas goes back in the story by an edit.                           *)
LEMMA UndoRecorded ==
  ASSUME CanvasAssumption, Kept, Recorded, OddStays, Undo
  PROVE  Recorded'
<1> SUFFICES ASSUME Clean' PROVE Recorded' BY DEF Recorded
<1>0. TypeOK /\ Clean BY DEF Kept, OddStays
<1>1. /\ Blame(Early) /\ UNCHANGED <<drawing, jobs>> /\ current # <<>> BY DEF Undo
<1>2. ~InFlight BY <1>1, EarlyIs
<1>3. PICK e : e = current[Len(current)] OBVIOUS
<1>4. PICK c : c = Front(current) OBVIOUS
<1>5. current \in Seq(Edit) /\ undone \in Seq(Edit) BY <1>0, TypeFacts DEF Lists
<1>6. e \in Edit /\ c \in Seq(Edit) /\ current = Append(c, e) BY <1>1, <1>3, <1>4, <1>5, LastIs
<1>7. On(e.to) \subseteq Found BY <1>0, <1>1, <1>2, <1>3, Reachable
<1>8. current' = c /\ undone' = Append(undone, e) /\ layer' = Put(layer, e.to, e.from)
  BY <1>3, <1>4, <1>7 DEF Undo, Throws, Change
<1>9. PICK back \in BOOLEAN : back = TRUE OBVIOUS
<1>10. /\ current = IF back THEN Append(c, e) ELSE c
       /\ undone = IF back THEN undone ELSE Append(undone, e)
       /\ current' = IF back THEN c ELSE Append(c, e)
       /\ undone' = IF back THEN Append(undone, e) ELSE undone
       /\ layer' = IF back THEN Put(layer, e.to, e.from) ELSE Put(layer, e.from, e.to)
  BY <1>6, <1>8, <1>9
<1>11. PICK u \in Seq(Edit) : u = undone BY <1>5
<1>. QED BY <1>1, <1>2, <1>6, <1>10, <1>11, RecordedMoves

(* The canvas goes on in the story by an edit.                             *)
LEMMA RedoRecorded ==
  ASSUME CanvasAssumption, Kept, Recorded, OddStays, Redo
  PROVE  Recorded'
<1> SUFFICES ASSUME Clean' PROVE Recorded' BY DEF Recorded
<1>0. TypeOK /\ Clean BY DEF Kept, OddStays
<1>1. /\ Blame(Early) /\ UNCHANGED <<drawing, jobs>> /\ undone # <<>> BY DEF Redo
<1>2. ~InFlight BY <1>1, EarlyIs
<1>3. PICK e : e = undone[Len(undone)] OBVIOUS
<1>4. PICK u : u = Front(undone) OBVIOUS
<1>5. current \in Seq(Edit) /\ undone \in Seq(Edit) BY <1>0, TypeFacts DEF Lists
<1>6. e \in Edit /\ u \in Seq(Edit) /\ undone = Append(u, e) BY <1>1, <1>3, <1>4, <1>5, LastIs
<1>7. On(e.from) \subseteq Found BY <1>0, <1>1, <1>2, <1>3, Reachable
<1>8. undone' = u /\ current' = Append(current, e) /\ layer' = Put(layer, e.from, e.to)
  BY <1>3, <1>4, <1>7 DEF Redo, Throws, Change
<1>9. PICK back \in BOOLEAN : back = FALSE OBVIOUS
<1>10. PICK c \in Seq(Edit) : c = current BY <1>5
<1>11. /\ current = IF back THEN Append(c, e) ELSE c
       /\ undone = IF back THEN u ELSE Append(u, e)
       /\ current' = IF back THEN c ELSE Append(c, e)
       /\ undone' = IF back THEN Append(u, e) ELSE u
       /\ layer' = IF back THEN Put(layer, e.to, e.from) ELSE Put(layer, e.from, e.to)
  BY <1>6, <1>8, <1>9, <1>10
<1>. QED BY <1>1, <1>2, <1>6, <1>11, RecordedMoves

(* Shapes that are deleted are as the story left them.                     *)
LEMMA DeleteRecorded ==
  ASSUME CanvasAssumption, Kept, Recorded, Orderly, OddStays, Delete
  PROVE  Recorded'
<1> SUFFICES ASSUME Clean' PROVE Recorded' BY DEF Recorded
<1>0. TypeOK /\ Selected /\ Groups /\ Clean BY DEF Kept, OddStays
<1>1. Blame(Early) /\ UNCHANGED <<drawing, jobs, undone>> /\ On(selection) # {}
  BY DEF Delete, history
<1>2. ~InFlight BY <1>1, EarlyIs
<1>3. selection = Restrict(layer, nodes) /\ nodes \subseteq On(layer) /\ drawing \notin nodes
  BY <1>0, <1>1, SelectionIs DEF Selected, Clean
<1>4. layer \in Layers /\ selection \in Layers BY <1>0, TypeFacts
<1>5. On(selection) = nodes BY <1>3, <1>4, RestrictIs
<1>6. undone = <<>> BY <1>0, <1>1, <1>5 DEF Selected
<1>7. On(selection) \subseteq Found BY <1>0, <1>2, <1>3, <1>5, NoGroups
<1>8. PICK e : e = NewEdit(selection, Nothing) OBVIOUS
<1>9. current' = Append(current, e) /\ layer' = Put(layer, selection, Nothing)
  BY <1>0, <1>7, <1>8, DeleteIs
<1>10. e \in Edit /\ e.from = selection /\ e.to = Nothing
  BY <1>0, <1>4, <1>8, TypeFacts, NothingLayer, NewEditIs
<1>11. On(e.to) = {} /\ layer' = Put(layer, e.from, e.to) BY <1>9, <1>10, NothingLayer
<1>12. Neat' => Alters(nodes, e) BY <1>11 DEF Alters, Orderly, OddStays
<1>. QED BY <1>1, <1>3, <1>6, <1>9, <1>10, <1>11, <1>12, RecordedAppends

(* A copy waits: nothing is undone.                                        *)
LEMMA CopyRecorded ==
  ASSUME CanvasAssumption, Kept, Recorded, OddStays, NEW cut \in BOOLEAN, Copy(cut)
  PROVE  Recorded'
<1>1. UNCHANGED <<layer, current, undone, drawing>> /\ nodes # {} BY DEF Copy, history
<1>2. undone = <<>> BY <1>1 DEF Kept, Selected
<1> SUFFICES ASSUME Clean' PROVE Recorded' BY DEF Recorded
<1>3. PICK V : Tells(V) BY DEF Recorded, OddStays
<1>4. Tells(V)'
  <2>1. Neat' => Neat BY DEF OddStays
  <2>. QED BY <1>1, <1>3, <2>1 DEF Tells, AsDrawn, TidyAt
<1>. QED BY <1>1, <1>2, <1>4 DEF Recorded

(* Shapes that are cut are as the story left them; the cut of a group that *)
(* is gone takes nothing away.                                             *)
LEMMA CopiedRecorded ==
  ASSUME CanvasAssumption, Kept, Recorded, Orderly, OddStays, NEW i \in DOMAIN jobs, Copied(i)
  PROVE  Recorded'
<1> SUFFICES ASSUME Clean' PROVE Recorded' BY DEF Recorded
<1>0. TypeOK /\ Groups /\ Clean BY DEF Kept, OddStays
<1>1. /\ undone' = undone /\ drawing' = drawing
      /\ \A k \in DOMAIN jobs' : \E j \in DOMAIN jobs : jobs'[k] = jobs[j]
  BY <1>0, CopiedIs
<1>2. (InFlight' => InFlight) /\ (InFlight => undone = <<>>)
  <2>1. InFlight' => InFlight BY <1>1 DEF InFlight
  <2>. QED BY <1>0, <2>1 DEF Recorded
<1>3. PICK X : X = jobs[i].shapes OBVIOUS
<1>4. X \subseteq Grouped /\ X \subseteq On(layer) /\ drawing \notin X /\ (~jobs[i].group => X = {})
  BY <1>0, <1>3, CopiedIs DEF Groups
<1>5. CASE UNCHANGED <<layer, current>>
  <2>1. PICK V : Tells(V) BY <1>0 DEF Recorded
  <2>2. Tells(V)'
    <3>1. Neat' => Neat BY DEF OddStays
    <3>. QED BY <1>1, <1>5, <2>1, <3>1 DEF Tells, AsDrawn, TidyAt
  <2>. QED BY <1>1, <1>2, <2>2 DEF Recorded
<1>6. CASE \E e \in Edit : /\ e.from = Restrict(layer, X) /\ e.to = Nothing
                           /\ current' = Append(current, e) /\ layer' = Put(layer, e.from, e.to)
  <2>1. PICK e \in Edit : /\ e.from = Restrict(layer, X) /\ e.to = Nothing
                          /\ current' = Append(current, e) /\ layer' = Put(layer, e.from, e.to)
    BY <1>6
  <2>2. On(e.to) = {} BY <2>1, NothingLayer
  <2>3. CASE jobs[i].group
    <3>1. undone = <<>> BY <1>2, <2>3 DEF InFlight
    <3>2. Neat' => Alters(X, e) BY <1>3, <2>2 DEF Alters, Orderly, OddStays
    <3>. QED BY <1>1, <1>4, <2>1, <2>2, <3>1, <3>2, RecordedAppends
  <2>4. CASE ~jobs[i].group
    <3>1. e.from = Nothing BY <1>4, <2>1, <2>4, RestrictNone
    <3>2. \A s \in Shape : At(layer', s) = At(layer, s)
      <4>1. layer \in Layers BY <1>0, TypeFacts
      <4>. QED BY <2>1, <3>1, <4>1, NothingLayer, PutAt
    <3>. QED BY <1>1, <1>2, <2>1, <3>1, <3>2, RecordedNothing
  <2>. QED BY <2>3, <2>4
<1>7. \/ UNCHANGED <<layer, current>>
      \/ \E e \in Edit : /\ e.from = Restrict(layer, X) /\ e.to = Nothing
                         /\ current' = Append(current, e) /\ layer' = Put(layer, e.from, e.to)
  BY <1>0, <1>3, CopiedIs
<1>. QED BY <1>5, <1>6, <1>7

(* An image is told when it is there.                                      *)
LEMMA ImageRecorded ==
  ASSUME CanvasAssumption, Kept, Recorded, OddStays,
         (\E s \in Shape \ Eraser : Paste(s)) \/ \E s \in loading : InsertImage(s)
  PROVE  Recorded'
<1>0. TypeOK /\ Unnamed BY DEF Kept
<1>1. CASE \E s \in Shape \ Eraser : Paste(s)
  <2>1. UNCHANGED <<layer, current, undone, drawing, jobs, odd>> BY <1>1 DEF Paste, history
  <2> SUFFICES ASSUME Clean' PROVE Recorded' BY DEF Recorded
  <2>2. PICK V : Tells(V) BY <2>1 DEF Recorded, OddStays
  <2>3. Tells(V)' BY <2>1, <2>2 DEF Tells, AsDrawn, TidyAt, Neat
  <2>4. InFlight' => undone' = <<>> BY <2>1 DEF Recorded, OddStays, InFlight
  <2>. QED BY <2>3, <2>4 DEF Recorded
<1>2. CASE \E s \in loading : InsertImage(s)
  <2>1. PICK d \in loading : InsertImage(d) BY <1>2
  <2>2. /\ d \in Shape /\ d \notin On(layer) /\ d # drawing /\ d \notin Named
        /\ layer' = Put(layer, Nothing, [x \in {d} |-> [at |-> 1, on |-> {}]])
    BY <1>0, <2>1, InsertImageIs
  <2>3. PICK e \in Edit : /\ e.from = Nothing /\ e.to = [x \in {d} |-> [at |-> 1, on |-> {}]]
                          /\ current' = Append(current, e)
    BY <1>0, <2>1, InsertImageIs
  <2>4. /\ On(layer') = On(layer) \cup {d} /\ \A x \in On(layer) : layer'[x] = layer[x]
        /\ layer'[d] = [at |-> 1, on |-> {}]
    BY <1>0, <2>2, AddedIs
  <2>5. On(e.to) = {d} /\ e.to[d] = [at |-> 1, on |-> {}] BY <2>2, <2>3, AloneIs
  <2>6. At(e.to, d) = [at |-> 1, on |-> {}] /\ At(layer', d) = At(e.to, d) BY <2>4, <2>5 DEF At
  <2>7. At(e.to, d).on = {} BY <2>6
  <2>8. \A s \in Shape : At(layer', s) = IF s = d THEN At(e.to, d) ELSE At(layer, s)
    BY <2>4, <2>6 DEF At
  <2>9. UNCHANGED <<undone, jobs, drawing>> BY <2>1 DEF InsertImage
  <2>. QED BY <2>2, <2>3, <2>5, <2>7, <2>8, <2>9, RecordedAdds
<1>. QED BY <1>1, <1>2

(* An empty history tells of an empty canvas.                              *)
LEMMA StoryOfNone ==
  \E V : /\ Story(V, Timeline(<<>>, <<>>)) /\ Len(Timeline(<<>>, <<>>)) = 0
         /\ \A s \in Shape : V[s][0] = Gone
         /\ TidyAt(V, 0)
<1>1. <<>> \in Seq(Edit) /\ Len(<<>>) = 0 OBVIOUS
<1>2. Timeline(<<>>, <<>>) = <<>> BY <1>1, TimelineAlone
<1> DEFINE V == [s \in Shape |-> [i \in {0} |-> Gone]]
<1>3. \A s \in Shape : V[s][0] = Gone OBVIOUS
<1> HIDE DEF V
<1>4. Story(V, <<>>) BY <1>1, <1>3 DEF Story
<1>5. Gone.on = {} BY DEF Gone
<1>6. TidyAt(V, 0) BY <1>3, <1>5 DEF TidyAt
<1>. QED BY <1>1, <1>2, <1>3, <1>4, <1>6

(* A new file begins a new story.                                          *)
LEMMA NewFileRecorded ==
  ASSUME CanvasAssumption, Kept, NewFile
  PROVE  Recorded'
<1>1. current' = <<>> /\ undone' = <<>> /\ layer' = Nothing BY DEF NewFile
<1>2. PICK V : /\ Story(V, Timeline(<<>>, <<>>)) /\ Len(Timeline(<<>>, <<>>)) = 0
               /\ \A s \in Shape : V[s][0] = Gone
               /\ TidyAt(V, 0)
  BY StoryOfNone
<1>3. \A s \in Shape : At(layer', s) = V[s][Len(current')]
  <2>1. Len(current') = 0 /\ \A s : At(layer', s) = Gone BY <1>1, NothingLayer DEF At
  <2>. QED BY <1>2, <2>1
<1>4. \A i \in 0 .. Len(Timeline(current', undone')) : TidyAt(V, i)
  <2>1. \A i \in 0 .. Len(Timeline(current', undone')) : i = 0 BY <1>1, <1>2
  <2>. QED BY <1>2, <2>1
<1>5. Tells(V)' BY <1>1, <1>2, <1>3, <1>4 DEF Tells, AsDrawn, TidyAt
<1>. QED BY <1>1, <1>5 DEF Recorded

(* The room tells the story without the cuts.                              *)
LEMMA ReopenRecorded ==
  ASSUME CanvasAssumption, Kept, RoomKnows, Recorded, OddStays, Reopen
  PROVE  Recorded'
<1> SUFFICES ASSUME Clean' PROVE Recorded' BY DEF Recorded
<1>0. TypeOK /\ Clean BY DEF Kept, OddStays
<1>1. /\ current' = room.current /\ undone' = room.undone /\ layer' = Replay(room.current)
      /\ drawing' = drawing /\ mode = "author" /\ Cleared
  BY DEF Reopen
<1>2. odd' = (odd \ {"cut", "selected", "emptied"}) \cup If("cleared", On(selection) # {})
             \cup If("revived", room.undone # undone \/ "emptied" \in odd)
             \cup If("uncut", room.current # current)
  BY DEF Reopen
<1>3. undone' = undone /\ room.undone = undone /\ "emptied" \notin odd BY <1>1, <1>2 DEF Clean, If
<1>4. Neat' => room.current = current BY <1>2 DEF Neat, If
<1>5. PICK V : Tells(V) BY <1>0 DEF Recorded
<1>6. current \in Seq(Edit) /\ undone \in Seq(Edit) /\ room.current \in Seq(Edit)
  BY <1>0, TypeFacts DEF Lists
<1>7. InFlight' => undone' = <<>> BY <1>0, <1>1, <1>3, ClearedIs DEF Recorded
<1>8. PICK T : T = Timeline(current, undone) OBVIOUS
<1>9. PICK T2 : T2 = Timeline(room.current, undone) OBVIOUS
<1>a. PICK q \in Seq(Edit) : q = room.current BY <1>6
<1>10. T \in Seq(Edit) /\ T2 \in Seq(Edit) /\ Len(q) <= Len(T2) /\ \A i \in 1 .. Len(q) : T2[i] = q[i]
  <2>1. T \in Seq(Edit) BY <1>6, <1>8, TimelineIs
  <2>2. T2 = Timeline(q, undone) BY <1>9, <1>a
  <2>3. T2 \in Seq(Edit) /\ Len(T2) = Len(q) + Len(undone) /\ \A i \in 1 .. Len(q) : T2[i] = q[i]
    BY <1>6, <2>2, TimelineIs
  <2>4. Len(q) \in Nat /\ Len(undone) \in Nat BY <1>6
  <2>. QED BY <2>1, <2>3, <2>4
<1>11. ASSUME NEW W, Story(W, T2) PROVE AsDrawn(W)'
  <2>1. \A s \in Shape : At(Replay(q), s) = W[s][Len(q)] BY <1>10, <1>11, StoryShows
  <2>2. layer' = Replay(q) /\ current' = q BY <1>1, <1>a
  <2>. QED BY <2>1, <2>2 DEF AsDrawn
<1>12. CASE room.current = current
  <2>1. T2 = T /\ Story(V, T) BY <1>5, <1>8, <1>9, <1>12 DEF Tells
  <2>2. AsDrawn(V)' BY <1>11, <2>1
  <2>3. Tells(V)'
    <3>1. Neat' => \A i \in 0 .. Len(T) : TidyAt(V, i) BY <1>5, <1>8 DEF Tells, OddStays
    <3>2. Timeline(current', undone') = T BY <1>1, <1>3, <1>8, <1>12
    <3>. QED BY <2>1, <2>2, <3>1, <3>2 DEF Tells, TidyAt
  <2>. QED BY <1>7, <2>3 DEF Recorded
<1>13. CASE room.current # current
  <2>1. PICK C, r : RoomKept(C, r) BY <1>1, <1>3 DEF RoomKnows
  <2>2. /\ Omits(room.current, current, C) /\ C \cap Range(undone) = {}
        /\ \A e \in C : e.to = Nothing
    BY <1>3, <2>1 DEF RoomKept
  <2>3. Omits(T2, T, C) BY <1>6, <1>8, <1>9, <2>2, OmitsTimeline
  <2>4. Story(V, T) BY <1>5, <1>8 DEF Tells
  <2>5. PICK W : Story(W, T2) BY <1>10, <2>2, <2>3, <2>4, StoryOfRest
  <2>6. AsDrawn(W)' BY <1>11, <2>5
  <2>7. Timeline(current', undone') = T2 BY <1>1, <1>3, <1>9
  <2>8. Tells(W)' BY <1>4, <1>13, <2>5, <2>6, <2>7 DEF Tells
  <2>. QED BY <1>7, <2>8 DEF Recorded
<1>. QED BY <1>12, <1>13

----------------------------------------------------------------------------
(* What holds of every state.                                              *)

Sound == Kept /\ RoomKnows /\ Recorded /\ Orderly /\ Idle

(* The invariant holds at first,                                           *)
LEMMA InitSound == ASSUME CanvasAssumption, Init PROVE Sound
<1>1. /\ layer = Nothing /\ current = <<>> /\ undone = <<>> /\ nodes = {} /\ jobs = <<>>
      /\ drawing = None
  BY DEF Init
<1>2. Kept /\ RoomKnows BY InitKept, RoomAtFirst
<1>3. Recorded
  <2>1. PICK V : /\ Story(V, Timeline(<<>>, <<>>)) /\ Len(Timeline(<<>>, <<>>)) = 0
                 /\ \A s \in Shape : V[s][0] = Gone
                 /\ TidyAt(V, 0)
    BY StoryOfNone
  <2>2. \A s \in Shape : At(layer, s) = V[s][Len(current)]
    <3>1. Len(current) = 0 /\ \A s : At(layer, s) = Gone BY <1>1, NothingLayer DEF At
    <3>. QED BY <2>1, <3>1
  <2>3. \A i \in 0 .. Len(Timeline(current, undone)) : TidyAt(V, i)
    <3>1. \A i \in 0 .. Len(Timeline(current, undone)) : i = 0 BY <1>1, <2>1
    <3>. QED BY <2>1, <3>1
  <2>4. Tells(V) BY <1>1, <2>1, <2>2, <2>3 DEF Tells, AsDrawn
  <2>. QED BY <1>1, <2>4 DEF Recorded
<1>4. Orderly BY <1>1, NothingLayer DEF Orderly, Closed
<1>5. Idle BY <1>1 DEF Idle
<1>. QED BY <1>2, <1>3, <1>4, <1>5 DEF Sound

(* and every step keeps it:                                                *)
LEMMA NextHistory ==
  ASSUME CanvasAssumption, Kept, RoomKnows, Recorded, Orderly, Idle, [Next]_vars
  PROVE  Recorded' /\ Orderly'
<1>0. OddStays BY NextOdd, OddOnly
<1>1. CASE UNCHANGED vars
  <2>1. UNCHANGED <<layer, current, undone, nodes, drawing, jobs, odd>> BY <1>1 DEF vars, history
  <2>2. Recorded' BY <2>1 DEF Recorded, Clean, Neat, Tells, AsDrawn, TidyAt, InFlight
  <2>3. Orderly' BY <2>1 DEF Orderly, Neat, Closed, TidyLine
  <2>. QED BY <2>2, <2>3
<1>2. CASE Next
  <2>1. CASE \E s \in Shape : MouseDown(s) BY <1>0, <2>1, PressRecorded, PressOrderly
  <2>2. CASE \E s \in Shape : MouseMove(s) BY <1>0, <2>2, PressRecorded, PressOrderly
  <2>3. CASE MouseUpLeave BY <1>0, <2>3, PressRecorded, PressOrderly
  <2>4. CASE \E s \in Shape : SelectShape(s) BY <1>0, <2>4, SelectRecorded, SelectOrderly
  <2>5. CASE \E X \in SUBSET On(layer) : SelectBox(X) BY <1>0, <2>5, SelectRecorded, SelectOrderly
  <2>6. CASE Drag BY <1>0, <2>6, DragRecorded, CommandOrderly
  <2>7. CASE Undo BY <1>0, <2>7, UndoRecorded, CommandOrderly
  <2>8. CASE Redo BY <1>0, <2>8, RedoRecorded, CommandOrderly
  <2>9. CASE Delete BY <1>0, <2>9, DeleteRecorded, CommandOrderly
  <2>10. CASE \E cut \in BOOLEAN : Copy(cut) BY <1>0, <2>10, CopyRecorded, CommandOrderly
  <2>11. CASE \E i \in DOMAIN jobs : Copied(i) BY <1>0, <2>11, CopiedRecorded, CopiedOrderly
  <2>12. CASE \E s \in Shape \ Eraser : Paste(s) BY <1>0, <2>12, ImageRecorded, FileOrderly
  <2>13. CASE \E s \in loading : InsertImage(s) BY <1>0, <2>13, ImageRecorded, FileOrderly
  <2>14. CASE NewFile BY <1>0, <2>14, NewFileRecorded, FileOrderly
  <2>15. CASE Reopen BY <1>0, <2>15, ReopenRecorded, FileOrderly
  <2>. QED BY <1>2, <2>1, <2>2, <2>3, <2>4, <2>5, <2>6, <2>7, <2>8, <2>9, <2>10, <2>11, <2>12, <2>13,
              <2>14, <2>15 DEF Next
<1>. QED BY <1>1, <1>2

(* it holds of every state.                                                *)
LEMMA AlwaysSound == Spec => []Sound
<1>1. Init => Sound BY InitSound, CanvasAssumption
<1>2. Sound /\ [Next]_vars => Sound'
  BY NextKept, NextRoom, NextHistory, NextIdle, CanvasAssumption DEF Sound
<1>. QED BY <1>1, <1>2, PTL DEF Spec

(* The timeline that a story is about.                                     *)
LEMMA ToldIs ==
  ASSUME Sound, Clean
  PROVE  \E V, T : /\ T \in Seq(Edit) /\ Story(V, T) /\ AsDrawn(V)
                   /\ Len(T) = Len(current) + Len(undone) /\ T = Timeline(current, undone)
                   /\ \A i \in 1 .. Len(current) : T[i] = current[i]
                   /\ \A i \in 1 .. Len(undone) : T[Len(current) + Len(undone) + 1 - i] = undone[i]
                   /\ drawing \in Shape => \A i \in 0 .. Len(T) : V[drawing][i] = Gone
<1>0. TypeOK /\ Unnamed /\ Recorded BY DEF Sound, Kept
<1>1. PICK V : Tells(V) BY <1>0 DEF Recorded
<1>2. PICK T : T = Timeline(current, undone) OBVIOUS
<1>3. current \in Seq(Edit) /\ undone \in Seq(Edit) BY <1>0, TypeFacts DEF Lists
<1>4. /\ T \in Seq(Edit) /\ Len(T) = Len(current) + Len(undone)
      /\ \A i \in 1 .. Len(current) : T[i] = current[i]
      /\ \A i \in 1 .. Len(undone) : T[Len(current) + Len(undone) + 1 - i] = undone[i]
  BY <1>2, <1>3, TimelineIs
<1>5. Story(V, T) /\ AsDrawn(V) BY <1>1, <1>2 DEF Tells
<1>6. ASSUME drawing \in Shape PROVE \A i \in 0 .. Len(T) : V[drawing][i] = Gone
  <2>1. drawing \notin Named BY <1>0 DEF Unnamed
  <2>. QED BY <1>0, <1>2, <1>5, <1>6, <2>1, UnnamedGone
<1>. QED BY <1>2, <1>4, <1>5, <1>6

(* The canvas shows what the current edits draw, unless the clipboard, a   *)
(* selection that was not cleared, undone edits that came back from the    *)
(* room or a drawing that was abandoned have meddled.                      *)
THEOREM CanvasHolds == Spec => []CanvasShowsHistory
<1>1. Sound => CanvasShowsHistory
  <2> SUFFICES ASSUME Sound, Clean PROVE Drawn = Replay(current)
    BY DEF CanvasShowsHistory, Clean
  <2>1. PICK V, T : /\ T \in Seq(Edit) /\ Story(V, T) /\ AsDrawn(V)
                    /\ Len(T) = Len(current) + Len(undone)
                    /\ \A i \in 1 .. Len(current) : T[i] = current[i]
                    /\ drawing \in Shape => \A i \in 0 .. Len(T) : V[drawing][i] = Gone
    BY ToldIs
  <2>2. current \in Seq(Edit) /\ undone \in Seq(Edit) /\ layer \in Layers
    BY TypeFacts DEF Sound, Kept, Lists
  <2>3. Len(current) \in Nat /\ Len(undone) \in Nat BY <2>2
  <2>4. Len(current) <= Len(T) /\ Len(current) \in 0 .. Len(T) BY <2>1, <2>3
  <2>5. \A s \in Shape : At(Replay(current), s) = V[s][Len(current)] BY <2>1, <2>2, <2>4, StoryShows
  <2>6. /\ Drawn \in Layers /\ On(Drawn) = On(layer) \ {drawing}
        /\ \A s \in On(layer) \ {drawing} : Drawn[s] = layer[s]
    BY <2>2, RestrictIs DEF Drawn
  <2>7. \A s \in Shape : At(Drawn, s) = V[s][Len(current)]
    <3> TAKE s \in Shape
    <3>1. CASE s = drawing BY <2>1, <2>4, <2>6, <3>1 DEF At
    <3>2. CASE s # drawing
      <4>1. At(Drawn, s) = At(layer, s) BY <2>6, <3>2 DEF At
      <4>. QED BY <2>1, <3>2, <4>1 DEF AsDrawn
    <3>. QED BY <3>1, <3>2
  <2>8. Replay(current) \in Layers BY <2>2, ReplayIs
  <2>. QED BY <2>5, <2>6, <2>7, <2>8, SameAt
<1>. QED BY <1>1, AlwaysSound, PTL

(* A list the other way round.                                             *)
LEMMA ReverseIs ==
  ASSUME NEW q \in Seq(Edit)
  PROVE  /\ Reverse(q) \in Seq(Edit) /\ Len(Reverse(q)) = Len(q)
         /\ \A i \in 1 .. Len(q) : Reverse(q)[i] = q[Len(q) + 1 - i]
<1>1. PICK l \in Nat : l = Len(q) OBVIOUS
<1>2. PICK r : r = Reverse(q) OBVIOUS
<1>3. r = [i \in 1 .. l |-> q[(l - i) + 1]] BY <1>1, <1>2 DEF Reverse
<1>4. ASSUME NEW i \in 1 .. l PROVE r[i] = q[l + 1 - i] /\ r[i] \in Edit
  <2>1. PICK j \in 1 .. l : j = (l - i) + 1 /\ j = l + 1 - i
    <3>1. (l - i) + 1 \in 1 .. l /\ (l - i) + 1 = l + 1 - i BY <1>1
    <3>. QED BY <3>1
  <2>2. r[i] = q[j] BY <1>3, <2>1
  <2>3. q[j] \in Edit BY <1>1
  <2>. QED BY <2>1, <2>2, <2>3
<1>5. r \in [1 .. l -> Edit] BY <1>3, <1>4
<1>6. r \in Seq(Edit) /\ Len(r) = l BY <1>5
<1>. QED BY <1>1, <1>2, <1>4, <1>6

(* What the redo of the n-th undone edit finds: the start of the timeline. *)
LEMMA BeforeIs ==
  ASSUME NEW c \in Seq(Edit), NEW u \in Seq(Edit), NEW n \in 1 .. Len(u)
  PROVE  \E q \in Seq(Edit), m \in Nat :
           /\ q = c \o Reverse(SubSeq(u, n + 1, Len(u)))
           /\ Len(q) = m /\ m + 1 = Len(c) + Len(u) + 1 - n /\ m + 1 - 1 = m
           /\ m + 1 \in 1 .. Len(c) + Len(u)
           /\ \A i \in 1 .. m : q[i] = Timeline(c, u)[i]
<1>1. PICK k \in Nat : k = Len(c) OBVIOUS
<1>2. PICK l \in Nat : l = Len(u) OBVIOUS
<1>3. n \in Nat /\ n <= l /\ 1 <= n /\ l - n \in Nat BY <1>2
<1>4. PICK w : w = SubSeq(u, n + 1, l) OBVIOUS
<1>5. w \in Seq(Edit) /\ Len(w) = l - n /\ \A i \in 1 .. l - n : w[i] = u[n + i]
  BY <1>2, <1>3, <1>4, SubSeqProperties
<1>6. PICK x : x = Reverse(w) OBVIOUS
<1>7. x \in Seq(Edit) /\ Len(x) = l - n /\ \A i \in 1 .. l - n : x[i] = w[l - n + 1 - i]
  <2>1. /\ Reverse(w) \in Seq(Edit) /\ Len(Reverse(w)) = Len(w)
        /\ \A i \in 1 .. Len(w) : Reverse(w)[i] = w[Len(w) + 1 - i]
    BY <1>5, ReverseIs
  <2>. QED BY <1>5, <1>6, <2>1
<1>8. PICK q : q = c \o x OBVIOUS
<1>9. PICK m \in Nat : m = k + l - n
  <2>1. k + (l - n) \in Nat /\ k + (l - n) = k + l - n BY <1>1, <1>2, <1>3
  <2>. QED BY <2>1
<1>10. /\ q \in Seq(Edit) /\ Len(q) = m
       /\ \A i \in 1 .. m : q[i] = IF i <= k THEN c[i] ELSE x[i - k]
  <2>1. /\ c \o x \in Seq(Edit) /\ Len(c \o x) = Len(c) + Len(x)
        /\ \A i \in 1 .. Len(c) + Len(x) : (c \o x)[i] = IF i <= Len(c) THEN c[i] ELSE x[i - Len(c)]
    BY <1>7, ConcatProperties
  <2>2. Len(c) + Len(x) = m BY <1>1, <1>3, <1>7, <1>9
  <2>. QED BY <1>1, <1>8, <2>1, <2>2
<1>11. PICK T : T = Timeline(c, u) OBVIOUS
<1>12. /\ \A i \in 1 .. k : T[i] = c[i]
       /\ \A i \in 1 .. l : T[k + l + 1 - i] = u[i]
  BY <1>1, <1>2, <1>11, TimelineIs
<1>13. ASSUME NEW i \in 1 .. m PROVE q[i] = T[i]
  <2>1. CASE i <= k
    <3>1. i \in 1 .. k BY <1>1, <1>9, <2>1
    <3>. QED BY <1>10, <1>12, <2>1, <3>1
  <2>2. CASE ~(i <= k)
    <3>1. PICK a \in 1 .. l - n : a = i - k BY <1>1, <1>3, <1>9, <2>2
    <3>2. PICK b \in 1 .. l - n : b = l - n + 1 - a BY <1>3
    <3>3. PICK j \in 1 .. l : j = n + b /\ k + l + 1 - j = i BY <1>1, <1>3, <3>1, <3>2
    <3>4. q[i] = x[a] BY <1>10, <2>2, <3>1
    <3>5. x[a] = w[b] BY <1>7, <3>2
    <3>6. w[b] = u[j] BY <1>5, <3>3
    <3>7. T[k + l + 1 - j] = u[j] BY <1>12
    <3>. QED BY <3>3, <3>4, <3>5, <3>6, <3>7
  <2>. QED BY <2>1, <2>2
<1>14. m + 1 = k + l + 1 - n /\ m + 1 - 1 = m /\ m + 1 \in 1 .. k + l BY <1>1, <1>3, <1>9
<1>15. q = c \o Reverse(SubSeq(u, n + 1, Len(u))) BY <1>2, <1>4, <1>6, <1>8
<1>. QED BY <1>1, <1>2, <1>10, <1>11, <1>13, <1>14, <1>15

(* Every undone edit can be redone: its shapes are there when the edits    *)
(* undone after it have been redone.                                       *)
THEOREM RedoHolds == Spec => []RedoApplies
<1>1. ASSUME Sound, Clean, NEW n \in 1 .. Len(undone)
      PROVE  On(undone[n].from) \subseteq
               On(Replay(current \o Reverse(SubSeq(undone, n + 1, Len(undone)))))
  <2>1. PICK V, T : /\ T \in Seq(Edit) /\ Story(V, T) /\ AsDrawn(V)
                    /\ Len(T) = Len(current) + Len(undone) /\ T = Timeline(current, undone)
                    /\ \A i \in 1 .. Len(undone) : T[Len(current) + Len(undone) + 1 - i] = undone[i]
    BY <1>1, ToldIs
  <2>2. current \in Seq(Edit) /\ undone \in Seq(Edit) BY <1>1, TypeFacts DEF Sound, Kept, Lists
  <2>3. PICK q \in Seq(Edit), m \in Nat :
          /\ q = current \o Reverse(SubSeq(undone, n + 1, Len(undone)))
          /\ Len(q) = m /\ m + 1 = Len(current) + Len(undone) + 1 - n /\ m + 1 - 1 = m
          /\ m + 1 \in 1 .. Len(current) + Len(undone)
          /\ \A i \in 1 .. m : q[i] = Timeline(current, undone)[i]
    BY <2>2, BeforeIs
  <2>4. m + 1 \in 1 .. Len(T) /\ Len(q) <= Len(T) /\ \A i \in 1 .. Len(q) : q[i] = T[i]
    <3>1. Len(T) \in Nat /\ Len(T) = Len(current) + Len(undone) BY <2>1
    <3>2. m + 1 \in 1 .. Len(T) BY <2>3, <3>1
    <3>3. m \in Nat /\ Len(q) = m /\ m <= Len(T) BY <2>3, <3>1, <3>2
    <3>4. T = Timeline(current, undone) BY <2>1
    <3>. QED BY <2>3, <3>2, <3>3, <3>4
  <2>5. PICK e \in Edit : e = undone[n] BY <2>2
  <2>6. T[m + 1] = e
    <3>1. T[Len(current) + Len(undone) + 1 - n] = undone[n] BY <2>1
    <3>. QED BY <2>3, <2>5, <3>1
  <2>7. \A s \in Shape : At(Replay(q), s) = V[s][m]
    <3>1. \A s \in Shape : At(Replay(q), s) = V[s][Len(q)] BY <2>1, <2>4, StoryShows
    <3>. QED BY <2>3, <3>1
  <2>8. PICK j \in 1 .. Len(T) : j = m + 1 /\ j - 1 = m BY <2>3, <2>4
  <2>9. StepOf(e, V, j) BY <2>1, <2>6, <2>8 DEF Story
  <2>10. ASSUME NEW s \in On(e.from) PROVE s \in On(Replay(q))
    <3>1. s \in Shape /\ Mentions(e, s) /\ At(e.from, s) # Gone
      BY EditIs, LayerIs, AtIs DEF Mentions
    <3>2. V[s][j - 1] = At(e.from, s) BY <2>9, <3>1 DEF StepOf
    <3>3. At(Replay(q), s) # Gone BY <2>7, <2>8, <3>1, <3>2
    <3>. QED BY <3>3 DEF At
  <2>. QED BY <2>3, <2>5, <2>10
<1>2. Sound => RedoApplies
  <2> SUFFICES ASSUME Sound, Clean, NEW n \in 1 .. Len(undone)
               PROVE  On(undone[n].from) \subseteq
                        On(Replay(current \o Reverse(SubSeq(undone, n + 1, Len(undone)))))
    BY DEF RedoApplies, Clean
  <2>. QED BY <1>1
<1>. QED BY <1>2, AlwaysSound, PTL

(* A line of the eraser is there with all shapes it was drawn over: what   *)
(* removes one of them removes the line.                                   *)
THEOREM NoStrayHolds == Spec => []NoStrayEraser
<1>1. Sound => NoStrayEraser
  <2> SUFFICES ASSUME Sound, Neat, NEW e \in On(layer) PROVE layer[e].on \subseteq On(layer)
    BY DEF NoStrayEraser, Neat
  <2>1. TidyLine(layer, e) BY TidyNow DEF Sound
  <2>. QED BY <2>1 DEF TidyLine
<1>. QED BY <1>1, AlwaysSound, PTL
=============================================================================
