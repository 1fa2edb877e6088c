--------------------------- MODULE LibraryProofs ----------------------------
(***************************************************************************)
(* Folders have what the user has put into them, lists show what was       *)
(* fetched for them, and the pages of a list cover it, for any boards,     *)
(* folders and pages, and any number of visits and requests.               *)
(*                                                                         *)
(* Three invariants, each on top of the one before.  Sound holds always:   *)
(* what a request asks for, what a fetch has read and what a list holds    *)
(* is made of boards and folders there are or were.  Listed, on a plain    *)
(* run: what the lists have and the tables have not, or the other way      *)
(* round, has a request or a fetch under way that settles it.  Kept, on a  *)
(* fair run: the same of the open folder, its form and the saves under     *)
(* way.  Each is shown for the three groups of steps: those of the         *)
(* queries, those of the lists, those of a folder.                         *)
(***************************************************************************)
EXTENDS Library, SequenceTheorems, TLAPS

----------------------------------------------------------------------------
(* Lists of rows.                                                          *)

(* One row is taken out.                                                   *)
LEMMA RemoveAtIs ==
  ASSUME NEW S, NEW q \in Seq(S), NEW k \in 1 .. Len(q)
  PROVE  /\ RemoveAt(q, k) \in Seq(S) /\ Len(RemoveAt(q, k)) = Len(q) - 1
         /\ \A i \in 1 .. Len(q) - 1 : RemoveAt(q, k)[i] = IF i < k THEN q[i] ELSE q[i + 1]
<1> DEFINE a == SubSeq(q, 1, k - 1)
           b == SubSeq(q, k + 1, Len(q))
<1>1. k \in Nat /\ Len(q) \in Nat /\ k >= 1 /\ k <= Len(q) OBVIOUS
<1>2. a \in Seq(S) /\ Len(a) = k - 1 /\ \A i \in 1 .. k - 1 : a[i] = q[i] BY <1>1
<1>3. b \in Seq(S) /\ Len(b) = Len(q) - k /\ \A i \in 1 .. Len(q) - k : b[i] = q[k + i]
  <2>1. \A i \in 1 .. Len(q) - k : k + 1 + i - 1 = k + i BY <1>1
  <2>2. \A i \in k + 1 .. Len(q) : q[i] \in S BY <1>1
  <2>3. /\ b \in Seq(S) /\ Len(b) = IF k + 1 <= Len(q) THEN Len(q) - (k + 1) + 1 ELSE 0
        /\ \A i \in 1 .. Len(q) - (k + 1) + 1 : b[i] = q[k + 1 + i - 1]
    BY <1>1, <2>2, SubSeqProperties
  <2>4. Len(q) - (k + 1) + 1 = Len(q) - k BY <1>1
  <2> HIDE DEF b
  <2>5. Len(b) = Len(q) - k
    <3>1. CASE k + 1 <= Len(q) BY <2>3, <2>4, <3>1
    <3>2. CASE ~(k + 1 <= Len(q))
      <4>1. Len(b) = 0 BY <2>3, <3>2
      <4>2. Len(q) - k = 0 BY <1>1, <3>2
      <4>. QED BY <4>1, <4>2
    <3>. QED BY <3>1, <3>2
  <2>6. \A i \in 1 .. Len(q) - k : b[i] = q[k + i]
    <3> TAKE i \in 1 .. Len(q) - k
    <3>1. b[i] = q[k + 1 + i - 1] BY <2>3, <2>4
    <3>. QED BY <2>1, <3>1
  <2>. QED BY <2>3, <2>5, <2>6
<1>4. RemoveAt(q, k) = a \o b BY DEF RemoveAt
<1> HIDE DEF a, b
<1>5. /\ a \o b \in Seq(S) /\ Len(a \o b) = Len(a) + Len(b)
      /\ \A i \in 1 .. Len(a) + Len(b) : (a \o b)[i] = IF i <= Len(a) THEN a[i] ELSE b[i - Len(a)]
  BY <1>2, <1>3, ConcatProperties
<1>6. Len(a) + Len(b) = Len(q) - 1 BY <1>1, <1>2, <1>3
<1>7. \A i \in 1 .. Len(q) - 1 : (a \o b)[i] = IF i < k THEN q[i] ELSE q[i + 1]
  <2> TAKE i \in 1 .. Len(q) - 1
  <2>0. (a \o b)[i] = IF i <= Len(a) THEN a[i] ELSE b[i - Len(a)] BY <1>5, <1>6
  <2>1. CASE i < k
    <3>1. i <= Len(a) /\ i \in 1 .. k - 1 BY <1>1, <1>2, <2>1
    <3>. QED BY <1>2, <2>0, <2>1, <3>1
  <2>2. CASE ~(i < k)
    <3>1. ~(i <= Len(a)) BY <1>1, <1>2, <2>2
    <3>2. i - Len(a) \in 1 .. Len(q) - k BY <1>1, <1>2, <2>2
    <3>3. b[i - Len(a)] = q[k + (i - Len(a))] BY <1>3, <3>2
    <3>4. k + (i - Len(a)) = i + 1 BY <1>1, <1>2
    <3>. QED BY <2>0, <2>2, <3>1, <3>3, <3>4
  <2>. QED BY <2>1, <2>2
<1>. QED BY <1>4, <1>5, <1>6, <1>7

(* A row is taken out of a list that has it once.                          *)
LEMMA RemoveFirstIs ==
  ASSUME NEW S, NEW q \in Seq(S), IsInjective(q), NEW x
  PROVE  /\ RemoveFirst(q, x) \in Seq(S) /\ IsInjective(RemoveFirst(q, x))
         /\ Range(RemoveFirst(q, x)) = Range(q) \ {x}
<1>1. Len(q) \in Nat /\ DOMAIN q = 1 .. Len(q) OBVIOUS
<1>2. CASE ~ \E i \in 1 .. Len(q) : q[i] = x
  <2>1. RemoveFirst(q, x) = q BY <1>2 DEF RemoveFirst
  <2>2. x \notin Range(q) BY <1>1, <1>2 DEF Range
  <2>. QED BY <2>1, <2>2
<1>3. CASE \E i \in 1 .. Len(q) : q[i] = x
  <2>1. PICK k \in 1 .. Len(q) : q[k] = x BY <1>3
  <2>2. {i \in 1 .. Len(q) : q[i] = x} = {k} BY <1>1, <2>1 DEF IsInjective
  <2>3. SelectInSeq(q, LAMBDA v : v = x) = k
    <3>1. Min({k}) = k BY DEF Min
    <3>. QED BY <2>2, <3>1 DEF SelectInSeq
  <2>4. RemoveFirst(q, x) = RemoveAt(q, k) BY <1>3, <2>3 DEF RemoveFirst
  <2> DEFINE r == RemoveAt(q, k)
  <2>5. /\ r \in Seq(S) /\ Len(r) = Len(q) - 1
        /\ \A i \in 1 .. Len(q) - 1 : r[i] = IF i < k THEN q[i] ELSE q[i + 1]
    BY RemoveAtIs
  <2> HIDE DEF r
  <2>6. DOMAIN r = 1 .. Len(q) - 1 BY <2>5
  <2>7. IsInjective(r)
    <3> SUFFICES ASSUME NEW i \in 1 .. Len(q) - 1, NEW j \in 1 .. Len(q) - 1, r[i] = r[j] PROVE i = j
      BY <2>6 DEF IsInjective
    <3>1. /\ i \in 1 .. Len(q) /\ i + 1 \in 1 .. Len(q) /\ j \in 1 .. Len(q) /\ j + 1 \in 1 .. Len(q)
      BY <1>1
    <3>2. PICK a \in 1 .. Len(q) : a = IF i < k THEN i ELSE i + 1 BY <3>1
    <3>3. PICK b \in 1 .. Len(q) : b = IF j < k THEN j ELSE j + 1 BY <3>1
    <3>4. r[i] = q[a] /\ r[j] = q[b] BY <2>5, <3>2, <3>3
    <3>5. a = b BY <1>1, <3>4 DEF IsInjective
    <3>. QED BY <3>2, <3>3, <3>5
  <2>8. ASSUME NEW y PROVE y \in Range(r) <=> y \in Range(q) /\ y # x
    <3>1. ASSUME y \in Range(r) PROVE y \in Range(q) /\ y # x
      <4>1. PICK i \in 1 .. Len(q) - 1 : y = r[i] BY <2>6, <3>1 DEF Range
      <4>2. i \in 1 .. Len(q) /\ i + 1 \in 1 .. Len(q) BY <1>1
      <4>3. PICK a \in 1 .. Len(q) : a = (IF i < k THEN i ELSE i + 1) /\ a # k BY <2>1, <4>2
      <4>4. y = q[a] BY <2>5, <4>1, <4>3
      <4>. QED BY <1>1, <2>1, <4>3, <4>4 DEF Range, IsInjective
    <3>2. ASSUME y \in Range(q), y # x PROVE y \in Range(r)
      <4>1. PICK a \in 1 .. Len(q) : y = q[a] /\ a # k BY <1>1, <2>1, <3>2 DEF Range
      <4>2. CASE a < k
        <5>1. a \in 1 .. Len(q) - 1 BY <1>1, <2>1, <4>2
        <5>2. r[a] = y BY <2>5, <4>1, <4>2, <5>1
        <5>. QED BY <2>6, <5>1, <5>2 DEF Range
      <4>3. CASE ~(a < k)
        <5>1. PICK i \in 1 .. Len(q) - 1 : i + 1 = a /\ ~(i < k) BY <1>1, <2>1, <4>1, <4>3
        <5>2. r[i] = y BY <2>5, <4>1, <5>1
        <5>. QED BY <2>6, <5>1, <5>2 DEF Range
      <4>. QED BY <4>2, <4>3
    <3>. QED BY <3>1, <3>2
  <2>9. Range(r) = Range(q) \ {x}
    <3>1. \A y : y \in Range(r) <=> y \in Range(q) \ {x} BY <2>8
    <3>. QED BY <3>1
  <2>10. RemoveFirst(q, x) = r BY <2>4 DEF r
  <2>. QED BY <2>5, <2>7, <2>9, <2>10
<1>. QED BY <1>2, <1>3

(* A row is put in front of a list that does not have it.                  *)
LEMMA InFront ==
  ASSUME NEW S, NEW q \in Seq(S), IsInjective(q), NEW x \in S, x \notin Range(q)
  PROVE  /\ <<x>> \o q \in Seq(S) /\ IsInjective(<<x>> \o q)
         /\ Range(<<x>> \o q) = Range(q) \cup {x}
<1>1. Len(q) \in Nat /\ DOMAIN q = 1 .. Len(q) OBVIOUS
<1> DEFINE r == <<x>> \o q
<1>2. /\ r \in Seq(S) /\ Len(r) = 1 + Len(q) /\ r[1] = x
      /\ \A i \in 1 .. Len(q) : r[i + 1] = q[i]
  <2>1. <<x>> \in Seq(S) /\ Len(<<x>>) = 1 /\ <<x>>[1] = x OBVIOUS
  <2>2. /\ r \in Seq(S) /\ Len(r) = Len(<<x>>) + Len(q)
        /\ \A i \in 1 .. Len(<<x>>) + Len(q) : r[i] = IF i <= Len(<<x>>) THEN <<x>>[i] ELSE q[i - Len(<<x>>)]
    BY <2>1, ConcatProperties
  <2> HIDE DEF r
  <2>3. \A i \in 1 .. 1 + Len(q) : r[i] = IF i <= 1 THEN x ELSE q[i - 1] BY <1>1, <2>1, <2>2
  <2>4. r[1] = x BY <1>1, <2>3
  <2>5. ASSUME NEW i \in 1 .. Len(q) PROVE r[i + 1] = q[i]
    <3>1. i + 1 \in 1 .. 1 + Len(q) /\ ~(i + 1 <= 1) /\ i + 1 - 1 = i BY <1>1
    <3>. QED BY <2>3, <3>1
  <2>. QED BY <2>1, <2>2, <2>4, <2>5
<1> HIDE DEF r
<1>3. DOMAIN r = 1 .. 1 + Len(q) BY <1>2
<1>4. ASSUME NEW i \in 1 .. 1 + Len(q) PROVE i = 1 \/ \E j \in 1 .. Len(q) : i = j + 1 /\ r[i] = q[j]
  <2>1. i = 1 \/ (i - 1 \in 1 .. Len(q) /\ i = i - 1 + 1) BY <1>1
  <2>. QED BY <1>2, <2>1
<1>5. \A j \in 1 .. Len(q) : q[j] \in Range(q) /\ q[j] # x BY <1>1 DEF Range
<1>6. IsInjective(r)
  <2> SUFFICES ASSUME NEW i \in 1 .. 1 + Len(q), NEW j \in 1 .. 1 + Len(q), r[i] = r[j] PROVE i = j
    BY <1>3 DEF IsInjective
  <2>1. i = 1 \/ \E a \in 1 .. Len(q) : i = a + 1 /\ r[i] = q[a] BY <1>4
  <2>2. j = 1 \/ \E a \in 1 .. Len(q) : j = a + 1 /\ r[j] = q[a] BY <1>4
  <2>3. \A a, b \in 1 .. Len(q) : q[a] = q[b] => a = b BY <1>1 DEF IsInjective
  <2>. QED BY <1>2, <1>5, <2>1, <2>2, <2>3
<1>7. Range(r) = Range(q) \cup {x}
  <2>1. \A i \in 1 .. 1 + Len(q) : r[i] \in Range(q) \cup {x} BY <1>2, <1>4, <1>5
  <2>2. \A j \in 1 .. Len(q) : q[j] \in Range(r)
    <3> TAKE j \in 1 .. Len(q)
    <3>1. j + 1 \in 1 .. 1 + Len(q) BY <1>1
    <3>. QED BY <1>2, <1>3, <3>1 DEF Range
  <2>3. x \in Range(r)
    <3>1. 1 \in 1 .. 1 + Len(q) BY <1>1
    <3>. QED BY <1>2, <1>3, <3>1 DEF Range
  <2>. QED BY <1>1, <1>3, <2>1, <2>2, <2>3 DEF Range
<1>. QED BY <1>2, <1>6, <1>7 DEF r

----------------------------------------------------------------------------
(* Keys, answers and fetches.                                              *)

Fetches == [Key -> Maybe([mine : BOOLEAN, answer : Maybe(Data)])]

On(g, k) == g[k] # <<>>
Own(g, k) == g[k][1].mine
Got(g, k) == On(g, k) /\ g[k][1].answer # <<>>
News(g, k) == g[k][1].answer[1]

(* What a key is.                                                          *)
LEMMA KeyIs ==
  ASSUME LibraryAssumption, NEW k \in Key
  PROVE  /\ k.kind \in {"boards", "folders", "open"} /\ k # Away
         /\ k.kind = "boards" => k.n \in 1 .. MaxPage /\ k = Boards(k.n) /\ k.f = NoFolder
         /\ k.kind = "folders" => k = Folders /\ k.f = NoFolder
         /\ k.kind = "open" => k.f \in Folder /\ k = Open(k.f)
BY DEF Key, Boards, Folders, Open, Away, LibraryAssumption

(* The key of an open folder.                                              *)
LEMMA OpenIs ==
  ASSUME NEW f \in Folder
  PROVE  Open(f) \in Key /\ Open(f).kind = "open" /\ Open(f).f = f
BY DEF Key, Open

(* The first page of boards.                                               *)
LEMMA FirstPage ==
  ASSUME LibraryAssumption, NEW n \in 1 .. MaxPage
  PROVE  /\ Boards(n) \in Key /\ Boards(n).kind = "boards"
         /\ Boards(1) \in Key /\ Boards(1).kind = "boards"
BY DEF Key, Boards, LibraryAssumption

(* A place that holds one thing or nothing.                                *)
LEMMA MaybeIs ==
  ASSUME NEW S, NEW m \in Maybe(S)
  PROVE  m # <<>> => m[1] \in S /\ m = <<m[1]>>
BY DEF Maybe

(* ... is filled and emptied.                                              *)
LEMMA MaybeMade ==
  ASSUME NEW S, NEW x \in S
  PROVE  /\ <<x>> \in Maybe(S) /\ <<x>> # <<>> /\ <<x>>[1] = x
         /\ <<>> \in Maybe(S)
BY DEF Maybe

(* A fetch that is under way.                                              *)
LEMMA FetchIs ==
  ASSUME NEW g \in Fetches, NEW k \in Key
  PROVE  /\ g[k] \in Maybe([mine : BOOLEAN, answer : Maybe(Data)])
         /\ On(g, k) => /\ g[k][1] \in [mine : BOOLEAN, answer : Maybe(Data)]
                        /\ Own(g, k) \in BOOLEAN
                        /\ g[k][1].answer \in Maybe(Data)
         /\ Got(g, k) => News(g, k) \in Data
<1>1. g[k] \in Maybe([mine : BOOLEAN, answer : Maybe(Data)]) BY DEF Fetches
<1>2. On(g, k) => g[k][1] \in [mine : BOOLEAN, answer : Maybe(Data)]
  BY <1>1, MaybeIs DEF On
<1>3. On(g, k) => Own(g, k) \in BOOLEAN /\ g[k][1].answer \in Maybe(Data)
  BY <1>2 DEF Own
<1>4. Got(g, k) => News(g, k) \in Data
  BY <1>3, MaybeIs DEF Got, News
<1>. QED BY <1>1, <1>2, <1>3, <1>4

(* An answer has a type of its own.                                        *)
LEMMA AnswerIs ==
  ASSUME LibraryAssumption, TypeOK, NEW k \in Key
  PROVE  /\ Answer(k) \in Data
         /\ k.kind = "open" => Answer(k) = [items |-> inFolder[k.f], named |-> k.f \in named]
         /\ Answer(k).items \cap Folder \subseteq Range(folders)
<1>1. OnPage(boards, k.n) \subseteq Board
  BY DEF OnPage, TypeOK
<1>2. OnPage(folders, k.n) \subseteq Range(folders) /\ Range(folders) \subseteq Folder
  BY DEF OnPage, TypeOK, Range
<1>3. CASE k.kind = "boards"
  <2>1. Answer(k) = [items |-> OnPage(boards, k.n), named |-> FALSE] BY <1>3 DEF Answer
  <2>. QED BY <1>1, <1>3, <2>1 DEF Data, LibraryAssumption
<1>4. CASE k.kind = "folders"
  <2>1. Answer(k) = [items |-> OnPage(folders, k.n), named |-> FALSE] BY <1>4 DEF Answer
  <2>. QED BY <1>2, <1>4, <2>1 DEF Data
<1>5. CASE k.kind = "open"
  <2>1. Answer(k) = [items |-> inFolder[k.f], named |-> k.f \in named] BY <1>5 DEF Answer
  <2>2. k.f \in Folder BY <1>5, KeyIs
  <2>3. inFolder[k.f] \subseteq Board BY <2>2 DEF TypeOK
  <2>. QED BY <2>1, <2>3 DEF Data, LibraryAssumption
<1>. QED BY <1>3, <1>4, <1>5, KeyIs

(* Fetches that are under way go on, others may start.                     *)
LEMMA FetchedIs ==
  ASSUME NEW g \in Fetches, NEW K, NEW m \in BOOLEAN
  PROVE  /\ Fetched(g, K, m) \in Fetches
         /\ \A k \in Key :
              /\ On(g, k) => Fetched(g, K, m)[k] = g[k]
              /\ ~On(g, k) /\ k \notin K => ~On(Fetched(g, K, m), k)
              /\ ~On(g, k) /\ k \in K => /\ On(Fetched(g, K, m), k) /\ Own(Fetched(g, K, m), k) = m
                                         /\ ~Got(Fetched(g, K, m), k)
<1> DEFINE h == Fetched(g, K, m)
<1>1. h = [k \in Key |-> IF k \in K /\ g[k] = <<>> THEN Fetch(m) ELSE g[k]] BY DEF Fetched
<1>2. /\ Fetch(m) \in Maybe([mine : BOOLEAN, answer : Maybe(Data)])
      /\ Fetch(m) # <<>> /\ Fetch(m)[1].mine = m /\ Fetch(m)[1].answer = <<>>
  <2>1. [mine |-> m, answer |-> <<>>] \in [mine : BOOLEAN, answer : Maybe(Data)] BY DEF Maybe
  <2>. QED BY <2>1, MaybeMade DEF Fetch
<1>3. h \in Fetches
  <2>1. \A k \in Key : g[k] \in Maybe([mine : BOOLEAN, answer : Maybe(Data)]) BY FetchIs
  <2>. QED BY <1>1, <1>2, <2>1 DEF Fetches
<1>4. \A k \in Key : h[k] = IF k \in K /\ g[k] = <<>> THEN Fetch(m) ELSE g[k] BY <1>1
<1> HIDE DEF h
<1>5. ASSUME NEW k \in Key
      PROVE  /\ On(g, k) => h[k] = g[k]
             /\ ~On(g, k) /\ k \notin K => ~On(h, k)
             /\ ~On(g, k) /\ k \in K => On(h, k) /\ Own(h, k) = m /\ ~Got(h, k)
  BY <1>2, <1>4 DEF On, Own, Got
<1>. QED BY <1>3, <1>5 DEF h

(* The page is left: its fetches are nobody's.                             *)
LEMMA LeftIs ==
  ASSUME TypeOK
  PROVE  /\ Left \in Fetches
         /\ \A k \in Key : /\ On(Left, k) = On(fetching, k)
                           /\ On(fetching, k) => ~Own(Left, k)
                           /\ Got(Left, k) = Got(fetching, k)
                           /\ Got(fetching, k) => News(Left, k) = News(fetching, k)
<1>1. fetching \in Fetches BY DEF TypeOK, Fetches
<1>2. ASSUME NEW k \in Key
      PROVE  /\ Left[k] \in Maybe([mine : BOOLEAN, answer : Maybe(Data)])
             /\ On(Left, k) = On(fetching, k)
             /\ On(fetching, k) => ~Own(Left, k) /\ Left[k][1].answer = fetching[k][1].answer
  <2>1. CASE fetching[k] = <<>> BY <2>1, MaybeMade DEF Left, On, Maybe
  <2>2. CASE fetching[k] # <<>>
    <3> DEFINE x == [fetching[k][1] EXCEPT !.mine = FALSE]
    <3>1. fetching[k][1] \in [mine : BOOLEAN, answer : Maybe(Data)] BY <1>1, <2>2, FetchIs DEF On
    <3>2. /\ x \in [mine : BOOLEAN, answer : Maybe(Data)]
          /\ x.mine = FALSE /\ x.answer = fetching[k][1].answer
      BY <3>1
    <3>3. Left[k] = <<x>> BY <2>2 DEF Left
    <3> HIDE DEF x
    <3>. QED BY <2>2, <3>2, <3>3, MaybeMade DEF On, Own
  <2>. QED BY <2>1, <2>2
<1>3. Left \in Fetches
  <2>1. Left = [k \in Key |-> Left[k]] BY DEF Left
  <2> HIDE DEF Left
  <2>. QED BY <1>2, <2>1 DEF Fetches
<1>. QED BY <1>2, <1>3 DEF Got, News

----------------------------------------------------------------------------
(* The type of the state.                                                  *)

Caches == [Key -> Maybe(Data)]

(* The parts of the type.                                                  *)
LEMMA TypeFacts ==
  ASSUME TypeOK
  PROVE  /\ fetching \in Fetches /\ cache \in Caches /\ failed \subseteq Key
         /\ boards \in Seq(Board) /\ folders \in Seq(Folder)
         /\ Range(boards) \subseteq Board /\ Range(folders) \subseteq Folder
         /\ inFolder \in [Folder -> SUBSET Board] /\ wanted \in [Folder -> SUBSET Board]
         /\ named \subseteq Folder /\ ever \subseteq Folder
         /\ asks \subseteq Ask /\ shown \subseteq Board \cup Folder /\ fresh \subseteq shown
         /\ put \subseteq Board /\ taken \subseteq Board /\ ready \in BOOLEAN /\ title \in BOOLEAN
         /\ odd \subseteq Reason
<1>1. fetching \in Fetches /\ cache \in Caches BY DEF TypeOK, Fetches, Caches
<1>2. Range(boards) \subseteq Board /\ Range(folders) \subseteq Folder BY DEF TypeOK, Range
<1>3. put \subseteq Board /\ taken \subseteq Board /\ ready \in BOOLEAN /\ title \in BOOLEAN BY DEF TypeOK
<1>. QED BY <1>1, <1>2, <1>3 DEF TypeOK

(* ... put together again after a step.                                    *)
LEMMA TypeMade ==
  ASSUME fetching' \in Fetches, cache' \in Caches, failed' \subseteq Key,
         boards' \in Seq(Board), folders' \in Seq(Folder),
         inFolder' \in [Folder -> SUBSET Board], wanted' \in [Folder -> SUBSET Board],
         named' \subseteq Folder, ever' \subseteq Folder,
         here' \in Key \cup {Away}, tour' \subseteq {"boards", "folders", "open"},
         visits' \in 0 .. MaxVisits, dirty' \subseteq Folder,
         asks' \subseteq Ask, shown' \subseteq Board \cup Folder, fresh' \subseteq shown',
         put' \subseteq Board, taken' \subseteq Board, ready' \in BOOLEAN, title' \in BOOLEAN,
         odd' \subseteq Reason
  PROVE  TypeOK'
<1>1. {ready', title'} \subseteq BOOLEAN /\ {put', taken'} \subseteq SUBSET Board OBVIOUS
<1>2. fetching' \in [Key -> Maybe([mine : BOOLEAN, answer : Maybe(Data)])] BY DEF Fetches
<1>3. cache' \in [Key -> Maybe(Data)] BY DEF Caches
<1>. QED BY <1>1, <1>2, <1>3 DEF TypeOK

(* What is blamed is a reason.                                             *)
LEMMA BlameIs ==
  ASSUME TypeOK, NEW X, X \subseteq Reason, Blame(X)
  PROVE  odd' \subseteq Reason /\ odd \subseteq odd' /\ X \subseteq odd'
BY DEF Blame, TypeOK

(* A request as it is sent, ...                                            *)
LEMMA RequestIs ==
  ASSUME NEW do \in {"delete", "remove", "create", "save"}, NEW x \in Board \cup Folder
  PROVE  /\ Request(do, x) \in Ask
         /\ Request(do, x).do = do /\ Request(do, x).item = x /\ Request(do, x).mine
         /\ Request(do, x).answer = "none"
BY DEF Request, Ask

SameAsk(a, b) == /\ b.do = a.do /\ b.item = a.item /\ b.answer = a.answer
                 /\ b.add = a.add /\ b.drop = a.drop /\ b.named = a.named

(* ... and when the page is another.                                       *)
LEMMA AskLeft ==
  ASSUME NEW a \in Ask
  PROVE  /\ [a EXCEPT !.mine = FALSE] \in Ask
         /\ ~[a EXCEPT !.mine = FALSE].mine /\ SameAsk(a, [a EXCEPT !.mine = FALSE])
BY DEF Ask, SameAsk

(* An answered request takes the place of the one that was made.           *)
LEMMA RepliedIs ==
  ASSUME TypeOK, NEW a \in asks, NEW x \in {"ok", "bad"}, Replied(a, x)
  PROVE  /\ asks' \subseteq Ask
         /\ \A b \in asks' : b \in asks \ {a} \/ /\ b.do = a.do /\ b.item = a.item
                                                 /\ b.mine = a.mine /\ b.answer = x
         /\ \A b \in asks \ {a} : b \in asks'
<1> DEFINE c == [a EXCEPT !.answer = x]
<1>1. a \in Ask /\ asks \subseteq Ask BY DEF TypeOK
<1>2. c \in Ask /\ c.do = a.do /\ c.item = a.item /\ c.mine = a.mine /\ c.answer = x
  BY <1>1 DEF Ask
<1>3. asks' = (asks \ {a}) \cup {c} BY DEF Replied
<1> HIDE DEF c
<1>. QED BY <1>1, <1>2, <1>3

(* The page is left: its requests are nobody's.                            *)
LEMMA AsksLeft ==
  ASSUME TypeOK, asks' = {[a EXCEPT !.mine = FALSE] : a \in asks}
  PROVE  /\ asks' \subseteq Ask
         /\ \A b \in asks' : \E a \in asks : SameAsk(a, b) /\ ~b.mine /\ b = [a EXCEPT !.mine = FALSE]
         /\ \A a \in asks : \E b \in asks' : SameAsk(a, b)
<1>1. asks \subseteq Ask BY DEF TypeOK
<1> DEFINE Nobodys(a) == [a EXCEPT !.mine = FALSE]
<1>2. \A a \in asks : Nobodys(a) \in Ask /\ ~Nobodys(a).mine /\ SameAsk(a, Nobodys(a))
  BY <1>1, AskLeft
<1>3. asks' = {Nobodys(a) : a \in asks} OBVIOUS
<1>4. \A a : Nobodys(a) = [a EXCEPT !.mine = FALSE] OBVIOUS
<1> HIDE DEF Nobodys
<1>. QED BY <1>2, <1>3, <1>4

(* The state at first.                                                     *)
LEMMA TypeInit == ASSUME LibraryAssumption, Init PROVE TypeOK
<1>1. PICK s \in Starts : boards = s.boards /\ folders = s.folders /\ tour = s.tour BY DEF Init
<1>2. /\ boards \in Seq(Board) /\ folders \in Seq(Folder)
      /\ tour \subseteq {"boards", "folders", "open"}
  BY <1>1 DEF LibraryAssumption
<1>3. Range(folders) \subseteq Folder BY <1>2 DEF Range
<1>4. cache \in Caches /\ fetching \in Fetches BY DEF Init, Caches, Fetches, Maybe
<1>5. visits \in 0 .. MaxVisits
  <2>1. MaxVisits \in Nat BY DEF LibraryAssumption
  <2>. QED BY <2>1 DEF Init
<1>6. /\ failed \subseteq Key /\ here \in Key \cup {Away} /\ dirty \subseteq Folder
      /\ asks \subseteq Ask /\ shown \subseteq Board \cup Folder /\ fresh \subseteq shown
      /\ put \subseteq Board /\ taken \subseteq Board /\ ready \in BOOLEAN /\ title \in BOOLEAN
      /\ odd \subseteq Reason /\ named \subseteq Folder /\ ever \subseteq Folder
  BY <1>3 DEF Init
<1>7. inFolder \in [Folder -> SUBSET Board] /\ wanted \in [Folder -> SUBSET Board] BY DEF Init
<1>8. {ready, title} \subseteq BOOLEAN /\ {put, taken} \subseteq SUBSET Board BY DEF Init
<1>. QED BY <1>2, <1>4, <1>5, <1>6, <1>7, <1>8 DEF TypeOK, Fetches, Caches

----------------------------------------------------------------------------
(* What the steps of a query do.                                           *)

(* A page is opened.                                                       *)
LEMMA VisitIs ==
  ASSUME LibraryAssumption, TypeOK, NEW k \in Key, Visit(k)
  PROVE  /\ TypeOK'
         /\ \A j \in Key :
              /\ j # k => /\ On(fetching', j) /\ Own(fetching', j) => FALSE
                          /\ Got(fetching', j) => Got(fetching, j) /\ News(fetching', j) = News(fetching, j)
              /\ On(fetching', j) => On(fetching, j) \/ j = k \/ j = Boards(1)
         /\ On(fetching', k) /\ (Got(fetching', k) => On(fetching, k) /\ Got(fetching, k)
                                                       /\ News(fetching', k) = News(fetching, k))
         /\ Own(fetching', k) \/ "joined" \in odd'
         /\ Own(fetching', k) => ~Got(fetching', k)
         /\ odd \subseteq odd'
         /\ here' = k /\ ready' = Ready(cache, k) /\ shown' = {} /\ fresh' = {} /\ put' = {} /\ taken' = {}
         /\ k.kind = "open" => k.f \in Range(folders)
         /\ asks' = {[a EXCEPT !.mine = FALSE] : a \in asks}
         /\ UNCHANGED <<tables, cache, failed, dirty, wanted>>
<1>0. /\ here' = k /\ ready' = Ready(cache, k) /\ shown' = {} /\ title' = FALSE /\ fresh' = {}
      /\ visits' = visits + 1 /\ visits < MaxVisits
      /\ fetching' = Fetched(Fetched(Left, {k}, TRUE), IF Known(k) THEN Besides(k) ELSE {}, FALSE)
      /\ asks' = {[a EXCEPT !.mine = FALSE] : a \in asks}
      /\ put' = {} /\ taken' = {}
      /\ Blame(If("joined", fetching[k] # <<>>))
      /\ k.kind = "open" => k.f \in Range(folders)
      /\ UNCHANGED <<tables, tour, cache, failed, dirty, wanted>>
  BY DEF Visit
<1> DEFINE g == Fetched(Left, {k}, TRUE)
           B == IF Known(k) THEN Besides(k) ELSE {}
           h == Fetched(g, B, FALSE)
<1>1. /\ Left \in Fetches
      /\ \A j \in Key : /\ On(Left, j) = On(fetching, j)
                        /\ On(fetching, j) => ~Own(Left, j)
                        /\ Got(Left, j) = Got(fetching, j)
                        /\ Got(fetching, j) => News(Left, j) = News(fetching, j)
  BY LeftIs
<1>2. /\ g \in Fetches
      /\ \A j \in Key :
           /\ On(Left, j) => g[j] = Left[j]
           /\ ~On(Left, j) /\ j \notin {k} => ~On(g, j)
           /\ ~On(Left, j) /\ j \in {k} => On(g, j) /\ Own(g, j) = TRUE /\ ~Got(g, j)
  BY <1>1, FetchedIs
<1> HIDE DEF g
<1>3. /\ h \in Fetches
      /\ \A j \in Key :
           /\ On(g, j) => h[j] = g[j]
           /\ ~On(g, j) /\ j \notin B => ~On(h, j)
           /\ ~On(g, j) /\ j \in B => On(h, j) /\ Own(h, j) = FALSE /\ ~Got(h, j)
  BY <1>2, FetchedIs
<1>4. fetching' = h BY <1>0 DEF g
<1>5. \A j \in B : j = Boards(1) BY DEF Besides
<1> HIDE DEF h, B
<1>6. /\ Blame(If("joined", fetching[k] # <<>>)) /\ odd' \subseteq Reason /\ odd \subseteq odd'
      /\ fetching[k] # <<>> => "joined" \in odd'
  <2>1. If("joined", fetching[k] # <<>>) \subseteq Reason BY DEF If, Reason
  <2>2. fetching[k] # <<>> => "joined" \in If("joined", fetching[k] # <<>>) BY DEF If
  <2>. QED BY <1>0, <2>1, <2>2, BlameIs
<1>7. ASSUME NEW j \in Key
      PROVE  /\ Got(g, j) = (On(g, j) /\ Got(g, j))
             /\ On(g, j) => /\ Own(h, j) = Own(g, j) /\ Got(h, j) = Got(g, j)
                            /\ News(h, j) = News(g, j) /\ On(h, j)
             /\ On(Left, j) => /\ Own(g, j) = Own(Left, j) /\ Got(g, j) = Got(Left, j)
                               /\ News(g, j) = News(Left, j) /\ On(g, j)
  BY <1>2, <1>3 DEF On, Got, Own, News
<1>8. /\ \A j \in Key :
              /\ j # k => /\ On(h, j) /\ Own(h, j) => FALSE
                          /\ Got(h, j) => Got(fetching, j) /\ News(h, j) = News(fetching, j)
              /\ On(h, j) => On(fetching, j) \/ j = k \/ j = Boards(1)
      /\ On(h, k) /\ (Got(h, k) => On(fetching, k) /\ Got(fetching, k) /\ News(h, k) = News(fetching, k))
      /\ Own(h, k) \/ On(fetching, k)
      /\ Own(h, k) => ~Got(h, k)
  <2>1. ASSUME NEW j \in Key, j # k
        PROVE  /\ On(h, j) /\ Own(h, j) => FALSE
               /\ Got(h, j) => Got(fetching, j) /\ News(h, j) = News(fetching, j)
               /\ On(h, j) => On(fetching, j) \/ j = Boards(1)
    <3>1. CASE On(Left, j) BY <1>1, <1>7, <2>1, <3>1 DEF Got
    <3>2. CASE ~On(Left, j)
      <4>1. ~On(g, j) BY <1>2, <2>1, <3>2
      <4>2. CASE j \in B BY <1>3, <1>5, <4>1, <4>2
      <4>3. CASE j \notin B BY <1>3, <4>1, <4>3 DEF Got
      <4>. QED BY <4>2, <4>3
    <3>. QED BY <3>1, <3>2
  <2>2. /\ On(h, k) /\ (Got(h, k) => On(fetching, k) /\ Got(fetching, k) /\ News(h, k) = News(fetching, k))
        /\ Own(h, k) \/ On(fetching, k)
        /\ Own(h, k) => ~Got(h, k)
    <3>1. CASE On(Left, k) BY <1>1, <1>7, <3>1 DEF Got
    <3>2. CASE ~On(Left, k) BY <1>1, <1>2, <1>7, <3>2
    <3>. QED BY <3>1, <3>2
  <2>. QED BY <2>1, <2>2
<1>9. TypeOK'
  <2>1. asks' \subseteq Ask BY <1>0, AsksLeft
  <2>2. visits' \in 0 .. MaxVisits
    <3>1. MaxVisits \in Nat /\ visits \in 0 .. MaxVisits BY DEF LibraryAssumption, TypeOK
    <3>. QED BY <1>0, <3>1
  <2>3. ready' \in BOOLEAN BY <1>0 DEF Ready
  <2>4. UNCHANGED <<boards, folders, inFolder, named, ever>> BY <1>0 DEF tables
  <2>5. /\ tour' \subseteq {"boards", "folders", "open"} /\ dirty' \subseteq Folder BY <1>0 DEF TypeOK
  <2>. QED BY <1>0, <1>3, <1>4, <1>6, <2>1, <2>2, <2>3, <2>4, <2>5, TypeFacts, TypeMade
<1>. QED BY <1>0, <1>4, <1>6, <1>8, <1>9 DEF On

Same(g, h, j) == On(h, j) = On(g, j) /\ Own(h, j) = Own(g, j) /\ Got(h, j) = Got(g, j) /\ News(h, j) = News(g, j)

(* What is kept is the same.                                               *)
LEMMA SameIs ==
  ASSUME NEW g, NEW h, NEW j, h[j] = g[j]
  PROVE  Same(g, h, j)
BY DEF Same, On, Own, Got, News

(* Fetches that start leave the others as they are.                        *)
LEMMA FetchStarts ==
  ASSUME TypeOK, NEW K, NEW m \in BOOLEAN, fetching' = Fetched(fetching, K, m)
  PROVE  /\ fetching' \in Fetches
         /\ \A j \in Key :
              /\ On(fetching, j) => Same(fetching, fetching', j)
              /\ ~On(fetching, j) /\ j \notin K => ~On(fetching', j)
              /\ ~On(fetching, j) /\ j \in K =>
                   On(fetching', j) /\ Own(fetching', j) = m /\ ~Got(fetching', j)
<1>1. fetching \in Fetches BY TypeFacts
<1> DEFINE h == Fetched(fetching, K, m)
<1>2. /\ h \in Fetches
      /\ \A k \in Key :
           /\ On(fetching, k) => h[k] = fetching[k]
           /\ ~On(fetching, k) /\ k \notin K => ~On(h, k)
           /\ ~On(fetching, k) /\ k \in K => On(h, k) /\ Own(h, k) = m /\ ~Got(h, k)
  BY <1>1, FetchedIs
<1>3. fetching' = h OBVIOUS
<1> HIDE DEF h
<1>4. \A k \in Key : On(fetching, k) => Same(fetching, h, k) BY <1>2, SameIs
<1>. QED BY <1>2, <1>3, <1>4

(* A page of the list is turned.                                           *)
LEMMA TurnPageIs ==
  ASSUME LibraryAssumption, TypeOK, NEW n \in 1 .. MaxPage, TurnPage(n)
  PROVE  /\ TypeOK' /\ here' = Boards(n) /\ here.kind = "boards"
         /\ \A j \in Key :
              /\ On(fetching, j) => Same(fetching, fetching', j)
              /\ ~On(fetching, j) /\ j # Boards(n) => ~On(fetching', j)
              /\ ~On(fetching, j) /\ j = Boards(n) => On(fetching', j) /\ Own(fetching', j) /\ ~Got(fetching', j)
         /\ odd \subseteq odd'
         /\ On(fetching, Boards(n)) => Own(fetching, Boards(n)) \/ "joined" \in odd'
         /\ UNCHANGED <<tables, tour, visits, ready, shown, title, fresh, cache, failed, asks, edits, wanted>>
<1>0. /\ InView("boards") /\ here' = Boards(n) /\ fetching' = Fetched(fetching, {Boards(n)}, TRUE)
      /\ Blame(If("joined", fetching[Boards(n)] # <<>> /\ ~fetching[Boards(n)][1].mine))
      /\ UNCHANGED <<tables, tour, visits, ready, shown, title, fresh, cache, failed, asks, edits, wanted>>
  BY DEF TurnPage
<1>1. /\ fetching' \in Fetches
      /\ \A j \in Key :
              /\ On(fetching, j) => Same(fetching, fetching', j)
              /\ ~On(fetching, j) /\ j \notin {Boards(n)} => ~On(fetching', j)
              /\ ~On(fetching, j) /\ j \in {Boards(n)} =>
                   On(fetching', j) /\ Own(fetching', j) = TRUE /\ ~Got(fetching', j)
  BY <1>0, FetchStarts
<1>2. Boards(n) \in Key BY FirstPage
<1>3. LET c == fetching[Boards(n)] # <<>> /\ ~fetching[Boards(n)][1].mine IN
        odd' \subseteq Reason /\ odd \subseteq odd' /\ (c => "joined" \in odd')
  <2> DEFINE X == If("joined", fetching[Boards(n)] # <<>> /\ ~fetching[Boards(n)][1].mine)
  <2>1. X \subseteq Reason BY DEF If, Reason
  <2>2. fetching[Boards(n)] # <<>> /\ ~fetching[Boards(n)][1].mine => "joined" \in X BY DEF If
  <2>3. Blame(X) BY <1>0
  <2> HIDE DEF X
  <2>. QED BY <2>1, <2>2, <2>3, BlameIs
<1>4. TypeOK'
  <2>1. UNCHANGED <<boards, folders, inFolder, named, ever, put, taken, dirty>> BY <1>0 DEF tables, edits
  <2>2. visits' \in 0 .. MaxVisits /\ dirty' \subseteq Folder /\ tour' \subseteq {"boards", "folders", "open"}
    BY <1>0, <2>1 DEF TypeOK
  <2>. QED BY <1>0, <1>1, <1>2, <1>3, <2>1, <2>2, TypeFacts, TypeMade
<1>5. here.kind = "boards" BY <1>0 DEF InView
<1>6. On(fetching, Boards(n)) => Own(fetching, Boards(n)) \/ "joined" \in odd' BY <1>3 DEF On, Own
<1>. QED BY <1>0, <1>1, <1>3, <1>4, <1>5, <1>6

(* The page is fetched again.                                              *)
LEMMA RefocusIs ==
  ASSUME LibraryAssumption, TypeOK, Refocus
  PROVE  /\ TypeOK' /\ here \in Key
         /\ \A j \in Key :
              /\ On(fetching, j) => Same(fetching, fetching', j)
              /\ ~On(fetching, j) /\ j # here => ~On(fetching', j)
              /\ ~On(fetching, j) /\ j = here => On(fetching', j) /\ Own(fetching', j) /\ ~Got(fetching', j)
         /\ UNCHANGED <<tables, page, cache, failed, asks, edits, wanted, odd>>
<1>0. /\ here # Away /\ fetching' = Fetched(fetching, {here}, TRUE)
      /\ UNCHANGED <<tables, page, cache, failed, asks, edits, wanted, odd>>
  BY DEF Refocus
<1>1. /\ fetching' \in Fetches
      /\ \A j \in Key :
              /\ On(fetching, j) => Same(fetching, fetching', j)
              /\ ~On(fetching, j) /\ j \notin {here} => ~On(fetching', j)
              /\ ~On(fetching, j) /\ j \in {here} =>
                   On(fetching', j) /\ Own(fetching', j) = TRUE /\ ~Got(fetching', j)
  BY <1>0, FetchStarts
<1>2. here \in Key BY <1>0 DEF TypeOK
<1>3. TypeOK'
  <2>1. UNCHANGED <<boards, folders, inFolder, named, ever, put, taken, dirty>> BY <1>0 DEF tables, edits
  <2>2. UNCHANGED <<here, tour, visits, ready, shown, title, fresh>> BY <1>0 DEF page
  <2>3. /\ visits' \in 0 .. MaxVisits /\ dirty' \subseteq Folder /\ here' \in Key \cup {Away}
        /\ tour' \subseteq {"boards", "folders", "open"}
    BY <2>1, <2>2 DEF TypeOK
  <2>. QED BY <1>0, <1>1, <2>1, <2>2, <2>3, TypeFacts, TypeMade
<1>. QED BY <1>0, <1>1, <1>2, <1>3

(* The server answers a fetch.                                             *)
LEMMA ServeIs ==
  ASSUME LibraryAssumption, TypeOK, NEW k \in Key, Serve(k)
  PROVE  /\ TypeOK'
         /\ \A j \in Key \ {k} : Same(fetching, fetching', j)
         /\ On(fetching, k) /\ On(fetching', k) /\ Own(fetching', k) = Own(fetching, k)
         /\ News(fetching', k) = Answer(k)
         /\ UNCHANGED <<tables, page, cache, failed, asks, edits, wanted, odd>>
<1>0. /\ fetching[k] # <<>>
      /\ fetching' = [fetching EXCEPT ![k][1].answer = <<Answer(k)>>]
      /\ UNCHANGED <<tables, page, cache, failed, asks, edits, wanted, odd>>
  BY DEF Serve
<1>1. fetching \in Fetches /\ Answer(k) \in Data BY TypeFacts, AnswerIs
<1>2. PICK x \in [mine : BOOLEAN, answer : Maybe(Data)] : fetching[k] = <<x>> /\ fetching[k][1] = x
  <2>1. fetching[k] \in Maybe([mine : BOOLEAN, answer : Maybe(Data)]) BY <1>1, FetchIs
  <2>. QED BY <1>0, <2>1, MaybeIs
<1> DEFINE y == [x EXCEPT !.answer = <<Answer(k)>>]
<1>3. /\ y \in [mine : BOOLEAN, answer : Maybe(Data)] /\ y.mine = x.mine /\ y.answer = <<Answer(k)>>
  <2>1. <<Answer(k)>> \in Maybe(Data) BY <1>1, MaybeMade
  <2>. QED BY <2>1
<1>4. fetching' = [fetching EXCEPT ![k] = <<y>>]
  <2>1. fetching' = [fetching EXCEPT ![k] = [fetching[k] EXCEPT ![1] = [fetching[k][1] EXCEPT !.answer = <<Answer(k)>>]]]
    BY <1>0
  <2>2. [fetching[k] EXCEPT ![1] = y] = <<y>> BY <1>2
  <2>. QED BY <1>2, <2>1, <2>2
<1> HIDE DEF y
<1>5. /\ fetching' \in Fetches /\ fetching'[k] = <<y>>
      /\ \A j \in Key \ {k} : fetching'[j] = fetching[j]
  <2>1. <<y>> \in Maybe([mine : BOOLEAN, answer : Maybe(Data)]) BY <1>3, MaybeMade
  <2>. QED BY <1>1, <1>4, <2>1 DEF Fetches
<1>6. /\ On(fetching, k) /\ On(fetching', k) /\ Own(fetching', k) = Own(fetching, k)
      /\ News(fetching', k) = Answer(k)
  BY <1>0, <1>2, <1>3, <1>5 DEF On, Own, News
<1>7. TypeOK'
  <2>1. UNCHANGED <<boards, folders, inFolder, named, ever, put, taken, dirty>> BY <1>0 DEF tables, edits
  <2>2. UNCHANGED <<here, tour, visits, ready, shown, title, fresh>> BY <1>0 DEF page
  <2>3. /\ visits' \in 0 .. MaxVisits /\ dirty' \subseteq Folder /\ here' \in Key \cup {Away}
        /\ tour' \subseteq {"boards", "folders", "open"}
    BY <2>1, <2>2 DEF TypeOK
  <2>. QED BY <1>0, <1>5, <2>1, <2>2, <2>3, TypeFacts, TypeMade
<1>. QED BY <1>0, <1>5, <1>6, <1>7, SameIs

(* A fetch is given up.                                                    *)
LEMMA FetchFailsIs ==
  ASSUME LibraryAssumption, TypeOK, NEW k \in Key, FetchFails(k)
  PROVE  /\ TypeOK' /\ failed' = failed \cup {k}
         /\ \A j \in Key \ {k} : Same(fetching, fetching', j)
         /\ ~On(fetching', k) /\ ~Got(fetching', k)
         /\ UNCHANGED <<tables, page, cache, asks, edits, wanted, odd>>
<1>0. /\ fetching' = [fetching EXCEPT ![k] = <<>>] /\ failed' = failed \cup {k}
      /\ UNCHANGED <<tables, page, cache, asks, edits, wanted, odd>>
  BY DEF FetchFails
<1>1. /\ fetching' \in Fetches /\ fetching'[k] = <<>>
      /\ \A j \in Key \ {k} : fetching'[j] = fetching[j]
  <2>1. <<>> \in Maybe([mine : BOOLEAN, answer : Maybe(Data)]) BY DEF Maybe
  <2>. QED BY <1>0, <2>1, TypeFacts DEF Fetches
<1>2. TypeOK'
  <2>1. UNCHANGED <<boards, folders, inFolder, named, ever, put, taken, dirty>> BY <1>0 DEF tables, edits
  <2>2. UNCHANGED <<here, tour, visits, ready, shown, title, fresh>> BY <1>0 DEF page
  <2>3. /\ visits' \in 0 .. MaxVisits /\ dirty' \subseteq Folder /\ here' \in Key \cup {Away}
        /\ tour' \subseteq {"boards", "folders", "open"}
    BY <2>1, <2>2 DEF TypeOK
  <2>4. failed' \subseteq Key BY <1>0, TypeFacts
  <2>. QED BY <1>0, <1>1, <2>1, <2>2, <2>3, <2>4, TypeFacts, TypeMade
<1>. QED BY <1>0, <1>1, <1>2, SameIs DEF On, Got

(* An answer arrives.                                                      *)
LEMMA AnsweredIs ==
  ASSUME LibraryAssumption, TypeOK, NEW k \in Key, Answered(k)
  PROVE  /\ TypeOK' /\ failed' = failed \ {k} /\ dirty' = dirty \ {k.f} /\ odd \subseteq odd'
         /\ Got(fetching, k) /\ News(fetching, k) \in Data
         /\ cache' = [cache EXCEPT ![k] = <<News(fetching, k)>>]
         /\ ~On(fetching', k)
         /\ \A j \in Key \ {k} :
              /\ On(fetching, j) => Same(fetching, fetching', j)
              /\ ~On(fetching, j) /\ On(fetching', j) =>
                   j = Boards(1) /\ here.kind = "open" /\ ~Own(fetching', j) /\ ~Got(fetching', j)
         /\ IF Own(fetching, k)
            THEN /\ shown' = News(fetching, k).items /\ title' = News(fetching, k).named /\ fresh' = {}
                 /\ k # here => "late" \in odd'
                 /\ put \cup taken # {} => "unread" \in odd'
                 /\ (\E a \in asks : a.do = "save" /\ a.answer = "none" /\ Open(a.item) = k) => "crossed" \in odd'
            ELSE UNCHANGED <<shown, title, fresh, odd>>
         /\ ready' => ready \/ (here # Away /\ Ready(cache', here))
         /\ UNCHANGED <<tables, here, tour, visits, asks, put, taken, wanted>>
<1> DEFINE data == fetching[k][1].answer[1]
           known == [cache EXCEPT ![k] = <<data>>]
           B == IF k = here THEN Besides(k) ELSE {}
           g == [fetching EXCEPT ![k] = <<>>]
<1>0. /\ fetching[k] # <<>> /\ fetching[k][1].answer # <<>>
      /\ cache' = known /\ failed' = failed \ {k}
      /\ fetching' = Fetched(g, B, FALSE)
      /\ ready' = (ready \/ (here # Away /\ Ready(known, here)))
      /\ dirty' = dirty \ {k.f}
      /\ UNCHANGED <<tables, here, tour, visits, asks, put, taken, wanted>>
  BY DEF Answered
<1>1. IF fetching[k][1].mine
      THEN /\ shown' = data.items /\ title' = data.named /\ fresh' = {}
           /\ Blame(If("late", k # here) \cup If("unread", put \cup taken # {})
                 \cup If("crossed", \E a \in asks : a.do = "save" /\ a.answer = "none" /\ Open(a.item) = k))
      ELSE UNCHANGED <<shown, title, fresh, odd>>
  BY DEF Answered
<1>2. Got(fetching, k) /\ data = News(fetching, k) /\ data \in Data
  <2>1. Got(fetching, k) /\ data = News(fetching, k) BY <1>0 DEF Got, On, News
  <2>. QED BY <2>1, FetchIs, TypeFacts
<1>3. fetching[k][1].mine = Own(fetching, k) BY DEF Own
<1> HIDE DEF data
<1>4. /\ cache' = [cache EXCEPT ![k] = <<News(fetching, k)>>] /\ cache' \in Caches
  <2>1. <<data>> \in Maybe(Data) BY <1>2, MaybeMade
  <2>. QED BY <1>0, <1>2, <2>1, TypeFacts DEF Caches
<1>15. ready' => ready \/ (here # Away /\ Ready(cache', here)) BY <1>0
<1> HIDE DEF known
<1>5. /\ g \in Fetches /\ g[k] = <<>> /\ \A j \in Key \ {k} : g[j] = fetching[j]
  <2>1. <<>> \in Maybe([mine : BOOLEAN, answer : Maybe(Data)]) BY DEF Maybe
  <2>. QED BY <2>1, TypeFacts DEF Fetches
<1> HIDE DEF g
<1>6. ASSUME NEW j \in B PROVE j = Boards(1) /\ here.kind = "open" /\ k.kind = "open"
  <2>1. k = here /\ j \in Besides(k) OBVIOUS
  <2>2. k.kind = "open" /\ j = Boards(1) BY <2>1 DEF Besides
  <2>. QED BY <2>1, <2>2
<1> HIDE DEF B
<1> DEFINE h == Fetched(g, B, FALSE)
<1>7. /\ h \in Fetches
      /\ \A j \in Key :
           /\ On(g, j) => h[j] = g[j]
           /\ ~On(g, j) /\ j \notin B => ~On(h, j)
           /\ ~On(g, j) /\ j \in B => On(h, j) /\ Own(h, j) = FALSE /\ ~Got(h, j)
  <2>1. FALSE \in BOOLEAN OBVIOUS
  <2>. QED BY <1>5, <2>1, FetchedIs
<1>8. k \notin B BY <1>6 DEF Boards
<1> HIDE DEF h
<1>9. fetching' = h BY <1>0 DEF h
<1>10. ~On(h, k) BY <1>5, <1>7, <1>8 DEF On
<1>11. ASSUME NEW j \in Key \ {k}
       PROVE  /\ On(fetching, j) => Same(fetching, h, j)
              /\ ~On(fetching, j) /\ On(h, j) =>
                   j = Boards(1) /\ here.kind = "open" /\ ~Own(h, j) /\ ~Got(h, j)
  <2>1. On(g, j) = On(fetching, j) /\ g[j] = fetching[j] BY <1>5 DEF On
  <2>2. On(fetching, j) => Same(fetching, h, j)
    <3>1. On(fetching, j) => h[j] = fetching[j] BY <1>7, <2>1
    <3>. QED BY <3>1, SameIs
  <2>3. ~On(fetching, j) /\ On(h, j) => j = Boards(1) /\ here.kind = "open" /\ ~Own(h, j) /\ ~Got(h, j)
    BY <1>6, <1>7, <2>1
  <2>. QED BY <2>2, <2>3
<1>12. /\ odd' \subseteq Reason /\ odd \subseteq odd'
       /\ IF Own(fetching, k)
          THEN /\ k # here => "late" \in odd'
               /\ put \cup taken # {} => "unread" \in odd'
               /\ (\E a \in asks : a.do = "save" /\ a.answer = "none" /\ Open(a.item) = k) => "crossed" \in odd'
          ELSE odd' = odd
  <2>1. CASE ~Own(fetching, k) BY <1>1, <1>3, <2>1, TypeFacts
  <2>2. CASE Own(fetching, k)
    <3> DEFINE c == \E a \in asks : a.do = "save" /\ a.answer = "none" /\ Open(a.item) = k
               X == If("late", k # here) \cup If("unread", put \cup taken # {}) \cup If("crossed", c)
    <3>1. Blame(X) BY <1>1, <1>3, <2>2
    <3> HIDE DEF c
    <3>2. X \subseteq Reason BY DEF If, Reason
    <3>3. /\ k # here => "late" \in X
          /\ put \cup taken # {} => "unread" \in X
          /\ c => "crossed" \in X
      BY DEF If
    <3> HIDE DEF X
    <3>4. odd' \subseteq Reason /\ odd \subseteq odd' /\ X \subseteq odd' BY <3>1, <3>2, BlameIs
    <3>5. /\ k # here => "late" \in odd'
          /\ put \cup taken # {} => "unread" \in odd'
          /\ c => "crossed" \in odd'
      BY <3>3, <3>4
    <3>. QED BY <2>2, <3>4, <3>5 DEF c
  <2>. QED BY <2>1, <2>2
<1>13. IF Own(fetching, k)
       THEN shown' = News(fetching, k).items /\ title' = News(fetching, k).named /\ fresh' = {}
       ELSE UNCHANGED <<shown, title, fresh, odd>>
  BY <1>1, <1>2, <1>3
<1>14. TypeOK'
  <2>1. UNCHANGED <<boards, folders, inFolder, named, ever>> BY <1>0 DEF tables
  <2>3. /\ visits' \in 0 .. MaxVisits /\ dirty' \subseteq Folder /\ here' \in Key \cup {Away}
        /\ tour' \subseteq {"boards", "folders", "open"}
    BY <1>0 DEF TypeOK
  <2>4. failed' \subseteq Key BY <1>0, TypeFacts
  <2>5. ready' \in BOOLEAN BY <1>0, TypeFacts DEF Ready
  <2>6. shown' \subseteq Board \cup Folder /\ fresh' \subseteq shown' /\ title' \in BOOLEAN
    BY <1>2, <1>13, TypeFacts DEF Data
  <2>7. h \in Fetches BY <1>7
  <2>. QED BY <1>0, <1>4, <1>9, <1>12, <2>1, <2>3, <2>4, <2>5, <2>6, <2>7, TypeFacts, TypeMade
<1>. QED BY <1>0, <1>2, <1>4, <1>9, <1>10, <1>11, <1>12, <1>13, <1>14, <1>15

----------------------------------------------------------------------------
(* What the other steps do to the requests.                                *)

Unserved(do) == {a \in asks : a.do = do /\ a.answer = "none"}
Saving(f) == {a \in Unserved("save") : a.item = f}

(* A request is sent.                                                      *)
LEMMA SendIs ==
  ASSUME TypeOK, NEW c \in Ask, c.answer = "none", Send(c)
  PROVE  /\ asks' \subseteq Ask /\ asks' = asks \cup {c}
         /\ \A do : Unserved(do)' = IF do = c.do THEN Unserved(do) \cup {c} ELSE Unserved(do)
<1>1. asks' = asks \cup {c} BY DEF Send
<1>. QED BY <1>1 DEF Unserved, TypeOK

(* A request is answered.                                                  *)
LEMMA ServedIs ==
  ASSUME TypeOK, NEW a \in asks, NEW do, Sent(a, do), NEW x \in {"ok", "bad"}, Replied(a, x)
  PROVE  /\ a \in Unserved(do) /\ a \in Ask /\ a.do = do
         /\ asks' \subseteq Ask
         /\ \A b \in asks' : b \in asks \ {a} \/ /\ b.do = a.do /\ b.item = a.item
                                                 /\ b.mine = a.mine /\ b.answer = x
         /\ \A d : Unserved(d)' = Unserved(d) \ {a}
<1>1. a \in asks /\ a.do = do /\ a.answer = "none" /\ a \in Ask BY DEF Sent, TypeOK
<1>2. /\ asks' \subseteq Ask
      /\ \A b \in asks' : b \in asks \ {a} \/ /\ b.do = a.do /\ b.item = a.item
                                              /\ b.mine = a.mine /\ b.answer = x
      /\ \A b \in asks \ {a} : b \in asks'
  BY RepliedIs
<1>3. \A d : Unserved(d)' = Unserved(d) \ {a} BY <1>1, <1>2 DEF Unserved
<1>. QED BY <1>1, <1>2, <1>3 DEF Unserved

(* An answer to a request arrives.                                         *)
LEMMA DoneIs ==
  ASSUME TypeOK, NEW a \in asks, NEW do, Done(a, do)
  PROVE  /\ a.do = do /\ a.answer # "none" /\ a \in Ask
         /\ asks' \subseteq asks /\ asks' \subseteq Ask
         /\ \A d : Unserved(d)' = Unserved(d)
<1>1. a.do = do /\ a.answer # "none" /\ asks' = asks \ {a} BY DEF Done
<1>. QED BY <1>1 DEF Unserved, TypeOK

(* The page is left.                                                       *)
LEMMA UnservedLeft ==
  ASSUME TypeOK, asks' = {[a EXCEPT !.mine = FALSE] : a \in asks}
  PROVE  \A d : /\ \A b \in Unserved(d)' : \E a \in Unserved(d) : SameAsk(a, b) /\ b = [a EXCEPT !.mine = FALSE]
                /\ \A a \in Unserved(d) : \E b \in Unserved(d)' : SameAsk(a, b)
<1>1. /\ \A b \in asks' : \E a \in asks : SameAsk(a, b) /\ ~b.mine /\ b = [a EXCEPT !.mine = FALSE]
      /\ \A a \in asks : \E b \in asks' : SameAsk(a, b)
  BY AsksLeft
<1>2. \A a, b : SameAsk(a, b) => b.do = a.do /\ b.answer = a.answer BY DEF SameAsk
<1> HIDE DEF SameAsk
<1>3. ASSUME NEW d, NEW b \in Unserved(d)'
      PROVE  \E a \in Unserved(d) : SameAsk(a, b) /\ b = [a EXCEPT !.mine = FALSE]
  <2>1. b \in asks' /\ b.do = d /\ b.answer = "none" BY <1>3 DEF Unserved
  <2>2. PICK a \in asks : SameAsk(a, b) /\ b = [a EXCEPT !.mine = FALSE] BY <1>1, <2>1
  <2>3. a \in Unserved(d) BY <1>2, <2>1, <2>2 DEF Unserved
  <2>. QED BY <2>2, <2>3
<1>4. ASSUME NEW d, NEW a \in Unserved(d)
      PROVE  \E b \in Unserved(d)' : SameAsk(a, b)
  <2>1. a \in asks /\ a.do = d /\ a.answer = "none" BY <1>4 DEF Unserved
  <2>2. PICK b \in asks' : SameAsk(a, b) BY <1>1, <2>1
  <2>3. b \in Unserved(d)' BY <1>2, <2>1, <2>2 DEF Unserved
  <2>. QED BY <2>2, <2>3
<1>. QED BY <1>3, <1>4

----------------------------------------------------------------------------
(* The type of the state, step by step.                                    *)

TablesType ==
  /\ boards \in Seq(Board) /\ folders \in Seq(Folder)
  /\ inFolder \in [Folder -> SUBSET Board] /\ named \subseteq Folder /\ ever \subseteq Folder
PageType ==
  /\ here \in Key \cup {Away} /\ tour \subseteq {"boards", "folders", "open"} /\ visits \in 0 .. MaxVisits
  /\ ready \in BOOLEAN /\ title \in BOOLEAN /\ shown \subseteq Board \cup Folder /\ fresh \subseteq shown
QueryType == cache \in Caches /\ failed \subseteq Key /\ fetching \in Fetches
EditsType == put \subseteq Board /\ taken \subseteq Board /\ dirty \subseteq Folder
RestType == asks \subseteq Ask /\ wanted \in [Folder -> SUBSET Board] /\ odd \subseteq Reason

(* The type has five parts, ...                                            *)
LEMMA TypeParts ==
  ASSUME TypeOK PROVE TablesType /\ PageType /\ QueryType /\ EditsType /\ RestType
<1>1. TablesType BY DEF TypeOK, TablesType
<1>2. PageType BY DEF TypeOK, PageType
<1>3. QueryType BY TypeFacts DEF QueryType
<1>4. EditsType BY DEF TypeOK, EditsType
<1>5. RestType BY DEF TypeOK, RestType
<1>. QED BY <1>1, <1>2, <1>3, <1>4, <1>5

(* ... of which a step leaves most alone.                                  *)
LEMMA TypeNext ==
  ASSUME TypeOK,
         UNCHANGED tables \/ TablesType', UNCHANGED page \/ PageType', UNCHANGED query \/ QueryType',
         UNCHANGED edits \/ EditsType', RestType'
  PROVE  TypeOK'
<1>1. TablesType' BY TypeParts DEF TablesType, tables
<1>2. PageType' BY TypeParts DEF PageType, page
<1>3. QueryType' BY TypeParts DEF QueryType, query
<1>4. EditsType' BY TypeParts DEF EditsType, edits
<1>. QED BY <1>1, <1>2, <1>3, <1>4, TypeMade DEF TablesType, PageType, QueryType, EditsType, RestType

----------------------------------------------------------------------------
(* What the steps of the lists and of the folder page do.                  *)

(* The lists have no row twice, and no folder has a board that is gone.    *)
Rows ==
  /\ IsInjective(boards) /\ IsInjective(folders)
  /\ Range(folders) \subseteq ever
  /\ \A f \in Folder : inFolder[f] \subseteq Range(boards)

(* A request is about a board or about a folder; what is new is a folder.  *)
Items ==
  /\ \A a \in asks : IF a.do = "delete" THEN a.item \in Board ELSE a.item \in Folder
  /\ fresh \subseteq Folder

(* The request that a step sends.                                          *)
Sends(do, x, c) ==
  /\ c \in Ask /\ c.do = do /\ c.item = x /\ c.mine /\ c.answer = "none" /\ asks' = asks \cup {c}
  /\ \A d : Unserved(d)' = IF d = do THEN Unserved(d) \cup {c} ELSE Unserved(d)

(* A board is removed from the list.                                       *)
LEMMA RemoveBoardIs ==
  ASSUME LibraryAssumption, TypeOK, NEW b \in Board, RemoveBoard(b)
  PROVE  /\ TypeOK' /\ here.kind = "boards" /\ \E c : Sends("delete", b, c)
         /\ UNCHANGED <<tables, page, query, edits, wanted, odd>>
<1> DEFINE c == Request("delete", b)
<1>1. /\ here.kind = "boards" /\ Send(c) /\ UNCHANGED <<tables, page, query, edits, wanted, odd>>
  BY DEF RemoveBoard, InView
<1>2. c \in Ask /\ c.do = "delete" /\ c.item = b /\ c.mine /\ c.answer = "none" BY RequestIs
<1> HIDE DEF c
<1>3. Sends("delete", b, c) /\ asks' \subseteq Ask BY <1>1, <1>2, SendIs DEF Sends
<1>4. TypeOK' BY <1>1, <1>3, TypeParts, TypeNext DEF RestType
<1>. QED BY <1>1, <1>3, <1>4

(* A board goes.                                                           *)
LEMMA DropIs ==
  ASSUME TypeOK, Rows, NEW b, Drop(b)
  PROVE  /\ TablesType' /\ Rows' /\ UNCHANGED <<folders, named, ever>>
         /\ Range(boards') = Range(boards) \ {b}
         /\ \A f \in Folder : inFolder'[f] = inFolder[f] \ {b}
<1>1. /\ boards' = RemoveFirst(boards, b) /\ inFolder' = [f \in Folder |-> inFolder[f] \ {b}]
      /\ UNCHANGED <<folders, named, ever>>
  BY DEF Drop
<1>2. /\ boards' \in Seq(Board) /\ IsInjective(boards') /\ Range(boards') = Range(boards) \ {b}
  BY <1>1, TypeFacts, RemoveFirstIs DEF Rows
<1>3. \A f \in Folder : inFolder'[f] = inFolder[f] \ {b} BY <1>1
<1>4. TablesType' BY <1>1, <1>2, TypeParts DEF TablesType
<1>5. Rows' BY <1>1, <1>2, <1>3 DEF Rows
<1>. QED BY <1>1, <1>2, <1>3, <1>4, <1>5

(* The reasons so far stay.                                                *)
LEMMA FailedIs ==
  ASSUME TypeOK, Blame({"failed"})
  PROVE  odd' \subseteq Reason /\ odd \subseteq odd' /\ "failed" \in odd'
<1>1. {"failed"} \subseteq Reason BY DEF Reason
<1>. QED BY <1>1, BlameIs

(* The request that a step answers.                                        *)
Serves(a, do) ==
  /\ a \in Unserved(do) /\ a \in Ask /\ a.do = do
  /\ \A b \in asks' : b \in asks \ {a} \/ (b.do = a.do /\ b.item = a.item /\ b.mine = a.mine /\ b.answer # "none")
  /\ \A d : Unserved(d)' = Unserved(d) \ {a}

(* ... whatever it answers.                                                *)
LEMMA ServesIs ==
  ASSUME TypeOK, NEW a \in asks, NEW do, Sent(a, do), NEW x \in {"ok", "bad"}, Replied(a, x)
  PROVE  Serves(a, do) /\ asks' \subseteq Ask
BY ServedIs DEF Serves

(* A room is deleted, or not.                                              *)
LEMMA DeleteRoomIs ==
  ASSUME LibraryAssumption, TypeOK, Rows, NEW a \in asks, DeleteRoom(a)
  PROVE  /\ TypeOK' /\ Serves(a, "delete") /\ UNCHANGED <<page, query, edits, wanted>> /\ odd \subseteq odd'
         /\ \/ Drop(a.item) /\ UNCHANGED odd
            \/ UNCHANGED tables /\ "failed" \in odd'
<1>1. Sent(a, "delete") /\ UNCHANGED <<page, query, edits, wanted>> BY DEF DeleteRoom
<1>2. CASE Drop(a.item) /\ Replied(a, "ok") /\ UNCHANGED odd
  <2>1. Serves(a, "delete") /\ asks' \subseteq Ask BY <1>1, <1>2, ServesIs
  <2>2. TablesType' BY <1>2, DropIs
  <2>3. TypeOK' BY <1>1, <1>2, <2>1, <2>2, TypeParts, TypeNext DEF RestType
  <2>. QED BY <1>1, <1>2, <2>1, <2>3
<1>3. CASE Replied(a, "bad") /\ Blame({"failed"}) /\ UNCHANGED tables
  <2>1. Serves(a, "delete") /\ asks' \subseteq Ask BY <1>1, <1>3, ServesIs
  <2>2. odd' \subseteq Reason /\ odd \subseteq odd' /\ "failed" \in odd' BY <1>3, FailedIs
  <2>3. TypeOK' BY <1>1, <1>3, <2>1, <2>2, TypeParts, TypeNext DEF RestType
  <2>. QED BY <1>1, <1>3, <2>1, <2>2, <2>3
<1>. QED BY <1>2, <1>3 DEF DeleteRoom

(* The request whose answer arrives.                                       *)
Ends(a, do) ==
  /\ a.do = do /\ a.answer # "none" /\ a \in Ask /\ asks' \subseteq asks
  /\ \A d : Unserved(d)' = Unserved(d)

(* A board leaves the list.                                                *)
LEMMA BoardRemovedIs ==
  ASSUME LibraryAssumption, TypeOK, Items, NEW a \in asks, BoardRemoved(a)
  PROVE  /\ TypeOK' /\ Ends(a, "delete") /\ a.item \in Board
         /\ shown' = IF a.mine THEN shown \ {a.item} ELSE shown
         /\ UNCHANGED <<tables, here, tour, visits, ready, title, fresh, query, edits, wanted, odd>>
<1>1. /\ Done(a, "delete") /\ shown' = IF a.mine THEN shown \ {a.item} ELSE shown
      /\ UNCHANGED <<tables, here, tour, visits, ready, title, fresh, query, edits, wanted, odd>>
  BY DEF BoardRemoved
<1>2. Ends(a, "delete") /\ asks' \subseteq Ask BY <1>1, DoneIs DEF Ends
<1>3. a.item \in Board BY <1>2 DEF Items, Ends
<1>4. fresh \subseteq shown \ {a.item} BY <1>3, TypeFacts DEF Items, LibraryAssumption
<1>5. PageType' BY <1>1, <1>4, TypeParts DEF PageType
<1>6. TypeOK' BY <1>1, <1>2, <1>5, TypeParts, TypeNext DEF RestType
<1>. QED BY <1>1, <1>2, <1>3, <1>6

(* A folder is removed from the list.                                      *)
LEMMA RemoveFolderIs ==
  ASSUME LibraryAssumption, TypeOK, NEW f \in Folder, RemoveFolder(f)
  PROVE  /\ TypeOK' /\ here.kind = "folders" /\ f \in shown /\ \E c : Sends("remove", f, c)
         /\ shown' = shown \ (IF f \in fresh THEN fresh ELSE {f})
         /\ fresh' = IF f \in fresh THEN {} ELSE fresh
         /\ f \in fresh /\ fresh # {f} => "alike" \in odd'
         /\ odd \subseteq odd'
         /\ UNCHANGED <<tables, here, tour, visits, ready, title, query, edits, wanted>>
<1> DEFINE c == Request("remove", f)
           X == If("alike", f \in fresh /\ fresh # {f})
<1>1. /\ here.kind = "folders" /\ f \in shown /\ Send(c) /\ Blame(X)
      /\ shown' = shown \ (IF f \in fresh THEN fresh ELSE {f})
      /\ fresh' = IF f \in fresh THEN {} ELSE fresh
      /\ UNCHANGED <<tables, here, tour, visits, ready, title, query, edits, wanted>>
  BY DEF RemoveFolder, InView
<1>2. c \in Ask /\ c.do = "remove" /\ c.item = f /\ c.mine /\ c.answer = "none" BY RequestIs
<1> HIDE DEF c
<1>3. Sends("remove", f, c) /\ asks' \subseteq Ask BY <1>1, <1>2, SendIs DEF Sends
<1>4. X \subseteq Reason /\ (f \in fresh /\ fresh # {f} => "alike" \in X) BY DEF If, Reason
<1> HIDE DEF X
<1>5. odd' \subseteq Reason /\ odd \subseteq odd' /\ X \subseteq odd' BY <1>1, <1>4, BlameIs
<1>6. PageType' BY <1>1, TypeParts DEF PageType
<1>7. TypeOK' BY <1>1, <1>3, <1>5, <1>6, TypeParts, TypeNext DEF RestType
<1>. QED BY <1>1, <1>3, <1>4, <1>5, <1>7

(* A folder goes, or does not.                                             *)
LEMMA DeleteFolderIs ==
  ASSUME LibraryAssumption, TypeOK, Rows, Items, NEW a \in asks, DeleteFolder(a)
  PROVE  /\ TypeOK' /\ Rows' /\ Serves(a, "remove") /\ a.item \in Folder
         /\ UNCHANGED <<page, query, edits, boards, ever>> /\ odd \subseteq odd'
         /\ \/ /\ Range(folders') = Range(folders) \ {a.item} /\ named' = named \ {a.item}
               /\ \A f \in Folder : inFolder'[f] = IF f = a.item THEN {} ELSE inFolder[f]
               /\ \A f \in Folder : wanted'[f] = IF f = a.item THEN {} ELSE wanted[f]
               /\ UNCHANGED odd
            \/ UNCHANGED <<tables, wanted>> /\ "failed" \in odd'
<1>1. Sent(a, "remove") /\ UNCHANGED <<page, query, edits>> BY DEF DeleteFolder
<1>2. CASE /\ folders' = RemoveFirst(folders, a.item)
           /\ inFolder' = [inFolder EXCEPT ![a.item] = {}]
           /\ named' = named \ {a.item}
           /\ wanted' = [wanted EXCEPT ![a.item] = {}]
           /\ Replied(a, "ok")
           /\ UNCHANGED <<boards, ever, odd>>
  <2>1. Serves(a, "remove") /\ asks' \subseteq Ask BY <1>1, <1>2, ServesIs
  <2>2. a.item \in Folder BY <2>1 DEF Serves, Items
  <2>3. folders' \in Seq(Folder) /\ IsInjective(folders') /\ Range(folders') = Range(folders) \ {a.item}
    BY <1>2, TypeFacts, RemoveFirstIs DEF Rows
  <2>4. /\ \A f \in Folder : inFolder'[f] = IF f = a.item THEN {} ELSE inFolder[f]
        /\ \A f \in Folder : wanted'[f] = IF f = a.item THEN {} ELSE wanted[f]
        /\ inFolder' \in [Folder -> SUBSET Board] /\ wanted' \in [Folder -> SUBSET Board]
    BY <1>2, <2>2, TypeFacts
  <2>5. TablesType' BY <1>2, <2>3, <2>4, TypeParts DEF TablesType
  <2>6. RestType' BY <1>2, <2>1, <2>4, TypeParts DEF RestType
  <2>7. TypeOK' BY <1>1, <2>5, <2>6, TypeNext
  <2>8. Rows' BY <1>2, <2>3, <2>4 DEF Rows
  <2>. QED BY <1>1, <1>2, <2>1, <2>2, <2>3, <2>4, <2>7, <2>8
<1>3. CASE Replied(a, "bad") /\ Blame({"failed"}) /\ UNCHANGED <<tables, wanted>>
  <2>1. Serves(a, "remove") /\ asks' \subseteq Ask BY <1>1, <1>3, ServesIs
  <2>2. odd' \subseteq Reason /\ odd \subseteq odd' /\ "failed" \in odd' BY <1>3, FailedIs
  <2>3. TypeOK' BY <1>1, <1>3, <2>1, <2>2, TypeParts, TypeNext DEF RestType
  <2>4. UNCHANGED <<boards, folders, inFolder, named, ever>> BY <1>3 DEF tables
  <2>5. Rows' BY <2>4 DEF Rows
  <2>6. a.item \in Folder BY <2>1 DEF Serves, Items
  <2>. QED BY <1>1, <1>3, <2>1, <2>2, <2>3, <2>4, <2>5, <2>6
<1>. QED BY <1>2, <1>3 DEF DeleteFolder

(* A folder is asked for.                                                  *)
LEMMA CreateIs ==
  ASSUME LibraryAssumption, TypeOK, NEW f \in Folder, Create(f)
  PROVE  /\ TypeOK' /\ here.kind = "folders" /\ f \notin ever /\ (\A a \in asks : a.item # f)
         /\ \E c : Sends("create", f, c)
         /\ UNCHANGED <<tables, page, query, edits, wanted, odd>>
<1> DEFINE c == Request("create", f)
<1>1. /\ here.kind = "folders" /\ f \notin ever /\ (\A a \in asks : a.item # f) /\ Send(c)
      /\ UNCHANGED <<tables, page, query, edits, wanted, odd>>
  BY DEF Create, InView
<1>2. c \in Ask /\ c.do = "create" /\ c.item = f /\ c.mine /\ c.answer = "none" BY RequestIs
<1> HIDE DEF c
<1>3. Sends("create", f, c) /\ asks' \subseteq Ask BY <1>1, <1>2, SendIs DEF Sends
<1>4. TypeOK' BY <1>1, <1>3, TypeParts, TypeNext DEF RestType
<1>. QED BY <1>1, <1>3, <1>4

(* A folder comes.                                                         *)
LEMMA CreateFolderIs ==
  ASSUME LibraryAssumption, TypeOK, Rows, Items, NEW a \in asks, CreateFolder(a), a.item \notin ever
  PROVE  /\ TypeOK' /\ Rows' /\ Serves(a, "create") /\ a.item \in Folder
         /\ Range(folders') = Range(folders) \cup {a.item}
         /\ named' = named \cup {a.item} /\ ever' = ever \cup {a.item}
         /\ UNCHANGED <<boards, inFolder, page, query, edits, wanted, odd>>
<1>1. /\ Sent(a, "create") /\ folders' = <<a.item>> \o folders
      /\ named' = named \cup {a.item} /\ ever' = ever \cup {a.item} /\ Replied(a, "ok")
      /\ UNCHANGED <<boards, inFolder, page, query, edits, wanted, odd>>
  BY DEF CreateFolder
<1>2. Serves(a, "create") /\ asks' \subseteq Ask BY <1>1, ServesIs
<1>3. a.item \in Folder BY <1>2 DEF Serves, Items
<1>4. a.item \notin Range(folders) BY DEF Rows
<1>5. /\ folders' \in Seq(Folder) /\ IsInjective(folders')
      /\ Range(folders') = Range(folders) \cup {a.item}
  BY <1>1, <1>3, <1>4, TypeFacts, InFront DEF Rows
<1>6. TablesType' BY <1>1, <1>3, <1>5, TypeParts DEF TablesType
<1>7. TypeOK' BY <1>1, <1>2, <1>6, TypeParts, TypeNext DEF RestType
<1>8. Rows' BY <1>1, <1>5 DEF Rows
<1>. QED BY <1>1, <1>2, <1>3, <1>5, <1>7, <1>8

(* A folder joins the list.                                                *)
LEMMA FolderCreatedIs ==
  ASSUME LibraryAssumption, TypeOK, Items, NEW a \in asks, FolderCreated(a)
  PROVE  /\ TypeOK' /\ Ends(a, "create") /\ a.item \in Folder
         /\ IF a.mine THEN shown' = shown \cup {a.item} /\ fresh' = fresh \cup {a.item} ELSE UNCHANGED <<shown, fresh>>
         /\ UNCHANGED <<tables, here, tour, visits, ready, title, query, edits, wanted, odd>>
<1>1. /\ Done(a, "create")
      /\ IF a.mine THEN shown' = shown \cup {a.item} /\ fresh' = fresh \cup {a.item} ELSE UNCHANGED <<shown, fresh>>
      /\ UNCHANGED <<tables, here, tour, visits, ready, title, query, edits, wanted, odd>>
  BY DEF FolderCreated
<1>2. Ends(a, "create") /\ asks' \subseteq Ask BY <1>1, DoneIs DEF Ends
<1>3. a.item \in Folder BY <1>2 DEF Items, Ends
<1>4. PageType' BY <1>1, <1>3, TypeParts DEF PageType
<1>5. TypeOK' BY <1>1, <1>2, <1>4, TypeParts, TypeNext DEF RestType
<1>. QED BY <1>1, <1>2, <1>3, <1>5

(* A folder is gone, or saved.                                             *)
LEMMA OverIs ==
  ASSUME LibraryAssumption, TypeOK, NEW a \in asks, FolderRemoved(a) \/ Saved(a)
  PROVE  /\ TypeOK' /\ \E do \in {"remove", "save"} : Ends(a, do)
         /\ UNCHANGED <<tables, page, query, edits, wanted, odd>>
<1>1. \E do \in {"remove", "save"} : Done(a, do) /\ UNCHANGED <<tables, page, query, edits, wanted, odd>>
  BY DEF FolderRemoved, Saved
<1>2. PICK do \in {"remove", "save"} : Done(a, do) /\ UNCHANGED <<tables, page, query, edits, wanted, odd>>
  BY <1>1
<1>3. Ends(a, do) /\ asks' \subseteq Ask BY <1>2, DoneIs DEF Ends
<1>4. TypeOK' BY <1>2, <1>3, TypeParts, TypeNext DEF RestType
<1>. QED BY <1>2, <1>3, <1>4

(* An open folder shows boards, and its page is ready when it was read.    *)
Contents ==
  /\ here.kind = "open" => shown \subseteq Board /\ (ready => Known(here))
  /\ \A f \in Folder : /\ Known(Open(f)) => cache[Open(f)][1].items \subseteq Board
                       /\ Got(fetching, Open(f)) => News(fetching, Open(f)).items \subseteq Board

(* The page that is open is a key.                                         *)
LEMMA HereIs ==
  ASSUME LibraryAssumption, TypeOK, here.kind # "away"
  PROVE  /\ here \in Key
         /\ here.kind = "open" => here.f \in Folder /\ here = Open(here.f)
<1>1. here \in Key BY DEF TypeOK, Away
<1>. QED BY <1>1, KeyIs

(* A board is put into the folder, ...                                     *)
LEMMA PutIs ==
  ASSUME LibraryAssumption, TypeOK, NEW b \in Board, Put(b)
  PROVE  /\ TypeOK' /\ here.kind = "open" /\ b \notin shown
         /\ shown' = shown \cup {b} /\ put' = put \cup {b} /\ taken' = taken \ {b}
         /\ UNCHANGED <<tables, here, tour, visits, ready, title, fresh, query, asks, dirty, wanted, odd>>
<1>1. /\ here.kind = "open" /\ b \notin shown
      /\ shown' = shown \cup {b} /\ put' = put \cup {b} /\ taken' = taken \ {b}
      /\ UNCHANGED <<tables, here, tour, visits, ready, title, fresh, query, asks, dirty, wanted, odd>>
  BY DEF Put, InView
<1>2. PageType' BY <1>1, TypeParts DEF PageType
<1>3. EditsType' BY <1>1, TypeParts DEF EditsType
<1>4. RestType' BY <1>1, TypeParts DEF RestType
<1>. QED BY <1>1, <1>2, <1>3, <1>4, TypeNext

(* ... or taken out of it.                                                 *)
LEMMA TakeIs ==
  ASSUME LibraryAssumption, TypeOK, Items, NEW b \in Board, Take(b)
  PROVE  /\ TypeOK' /\ here.kind = "open"
         /\ shown' = shown \ {b} /\ put' = put \ {b} /\ taken' = taken \cup {b}
         /\ UNCHANGED <<tables, here, tour, visits, ready, title, fresh, query, asks, dirty, wanted, odd>>
<1>1. /\ here.kind = "open"
      /\ shown' = shown \ {b} /\ put' = put \ {b} /\ taken' = taken \cup {b}
      /\ UNCHANGED <<tables, here, tour, visits, ready, title, fresh, query, asks, dirty, wanted, odd>>
  BY DEF Take, InView
<1>2. fresh \subseteq shown \ {b} BY TypeFacts DEF Items, LibraryAssumption
<1>3. PageType' BY <1>1, <1>2, TypeParts DEF PageType
<1>4. EditsType' BY <1>1, TypeParts DEF EditsType
<1>5. RestType' BY <1>1, TypeParts DEF RestType
<1>. QED BY <1>1, <1>3, <1>4, <1>5, TypeNext

(* What a save asks for.                                                   *)
SaveOf(f, A, D, t) == [Request("save", f) EXCEPT !.add = A, !.drop = D, !.named = t]
LEMMA SaveAsks ==
  ASSUME NEW f \in Folder, NEW A, A \subseteq Board, NEW D, D \subseteq Board, NEW t \in BOOLEAN,
         NEW c, c = SaveOf(f, A, D, t)
  PROVE  /\ c \in Ask
         /\ c.do = "save" /\ c.item = f /\ c.mine /\ c.answer = "none"
         /\ c.add = A /\ c.drop = D /\ c.named = t
<1> DEFINE r == Request("save", f)
<1>1. r \in Ask /\ r.do = "save" /\ r.item = f /\ r.mine /\ r.answer = "none" BY RequestIs
<1> HIDE DEF r
<1>2. c = [r EXCEPT !.add = A, !.drop = D, !.named = t] BY DEF r, SaveOf
<1>3. c \in Ask BY <1>1, <1>2 DEF Ask
<1>4. c.do = r.do /\ c.item = r.item /\ c.mine = r.mine /\ c.answer = r.answer BY <1>1, <1>2 DEF Ask
<1>5. c.add = A /\ c.drop = D /\ c.named = t BY <1>1, <1>2 DEF Ask
<1>. QED BY <1>1, <1>3, <1>4, <1>5

(* The folder is saved.                                                    *)
LEMMA SaveIs ==
  ASSUME LibraryAssumption, TypeOK, Contents, Save
  PROVE  /\ TypeOK' /\ here.kind = "open" /\ here \in Key /\ here.f \in Folder /\ here = Open(here.f)
         /\ here \notin failed /\ Known(here)
         /\ \E c : /\ Sends("save", here.f, c) /\ c.add = shown \ cache[here][1].items
                   /\ c.drop = cache[here][1].items \ shown /\ c.named = title
         /\ \A f \in Folder : wanted'[f] = IF f = here.f THEN (wanted[f] \cup put) \ taken ELSE wanted[f]
         /\ put' = {} /\ taken' = {} /\ dirty' = dirty \cup {here.f}
         /\ On(fetching, here) => "blank" \in odd'
         /\ here.f \in dirty => "again" \in odd'
         /\ odd \subseteq odd' /\ UNCHANGED <<tables, page, query>>
<1> DEFINE X == If("blank", fetching[here] # <<>>) \cup If("again", here.f \in dirty)
           C == cache[here][1].items
           s == [Request("save", here.f) EXCEPT !.add = shown \ C, !.drop = C \ shown, !.named = title]
<1>1. /\ here.kind = "open" /\ ready /\ here \notin failed /\ Send(s) /\ Blame(X)
      /\ wanted' = [wanted EXCEPT ![here.f] = (@ \cup put) \ taken]
      /\ put' = {} /\ taken' = {} /\ dirty' = dirty \cup {here.f}
      /\ UNCHANGED <<tables, page, query>>
  BY DEF Save, InView
<1>2. here \in Key /\ here.f \in Folder /\ here = Open(here.f) BY <1>1, HereIs
<1>3. Known(here) /\ C \subseteq Board /\ shown \subseteq Board BY <1>1, <1>2 DEF Contents
<1>4. title \in BOOLEAN /\ put \subseteq Board /\ taken \subseteq Board /\ wanted \in [Folder -> SUBSET Board]
  BY TypeFacts
<1> HIDE DEF C
<1>5. PICK c : c = s OBVIOUS
<1>6. /\ c \in Ask /\ c.do = "save" /\ c.item = here.f /\ c.mine /\ c.answer = "none"
      /\ c.add = shown \ C /\ c.drop = C \ shown /\ c.named = title
  <2> DEFINE A == shown \ C
             D == C \ shown
  <2>1. A \subseteq Board /\ D \subseteq Board BY <1>3
  <2>2. c = SaveOf(here.f, A, D, title) BY <1>5 DEF SaveOf
  <2> HIDE DEF A, D
  <2>3. /\ c \in Ask /\ c.do = "save" /\ c.item = here.f /\ c.mine /\ c.answer = "none"
        /\ c.add = A /\ c.drop = D /\ c.named = title
    BY <1>2, <1>4, <2>1, <2>2, SaveAsks
  <2>. QED BY <2>3 DEF A, D
<1> HIDE DEF s
<1>7. Sends("save", here.f, c) /\ asks' \subseteq Ask
  <2>1. Send(c) BY <1>1, <1>5
  <2>. QED BY <1>6, <2>1, SendIs DEF Sends
<1>8. /\ X \subseteq Reason /\ (fetching[here] # <<>> => "blank" \in X)
      /\ here.f \in dirty => "again" \in X
  BY DEF If, Reason
<1> HIDE DEF X
<1>9. odd' \subseteq Reason /\ odd \subseteq odd' /\ X \subseteq odd' BY <1>1, <1>8, BlameIs
<1>10. /\ \A f \in Folder : wanted'[f] = IF f = here.f THEN (wanted[f] \cup put) \ taken ELSE wanted[f]
       /\ wanted' \in [Folder -> SUBSET Board]
  BY <1>1, <1>2, <1>4
<1>11. EditsType' BY <1>1, <1>2, TypeParts DEF EditsType
<1>12. TypeOK' BY <1>1, <1>7, <1>9, <1>10, <1>11, TypeNext DEF RestType
<1>13. /\ On(fetching, here) => "blank" \in odd'
       /\ here.f \in dirty => "again" \in odd'
  BY <1>8, <1>9 DEF On
<1>. QED BY <1>1, <1>2, <1>3, <1>6, <1>7, <1>9, <1>10, <1>12, <1>13 DEF C

(* A save succeeds.                                                        *)
LEMMA UpdateFolderIs ==
  ASSUME LibraryAssumption, TypeOK, Rows, Items, NEW a \in asks, UpdateFolder(a)
  PROVE  /\ TypeOK' /\ Rows' /\ Serves(a, "save")
         /\ a.item \in Folder /\ a.item \in Range(folders) /\ a.add \subseteq Range(boards)
         /\ a.named => named' = named \cup {a.item}
         /\ \A f \in Folder : inFolder'[f] = (IF f = a.item THEN inFolder[f] \cup a.add ELSE inFolder[f]) \ a.drop
         /\ (\E f \in Folder \ {a.item} : inFolder[f] \cap a.drop # {}) => "shared" \in odd'
         /\ Got(fetching, Open(a.item)) => "crossed" \in odd'
         /\ odd \subseteq odd' /\ UNCHANGED <<boards, folders, ever, page, query, edits, wanted>>
<1> DEFINE c == \E f \in Folder \ {a.item} : inFolder[f] \cap a.drop # {}
           d == fetching[Open(a.item)] # <<>> /\ fetching[Open(a.item)][1].answer # <<>>
           X == If("shared", c) \cup If("crossed", d)
<1>1. /\ Sent(a, "save") /\ a.item \in Range(folders) /\ a.add \subseteq Range(boards)
      /\ named' = Titled(a) /\ inFolder' = Dropped(a, Added(a)) /\ Replied(a, "ok") /\ Blame(X)
      /\ UNCHANGED <<boards, folders, ever, page, query, edits, wanted>>
  BY DEF UpdateFolder
<1>2. Serves(a, "save") /\ asks' \subseteq Ask BY <1>1, ServesIs
<1>3. a.item \in Folder /\ a \in Ask BY <1>2 DEF Serves, Items
<1> HIDE DEF c
<1>4. X \subseteq Reason /\ (c => "shared" \in X) /\ (d => "crossed" \in X) BY DEF If, Reason
<1> HIDE DEF X
<1>5. odd' \subseteq Reason /\ odd \subseteq odd' /\ X \subseteq odd' BY <1>1, <1>4, BlameIs
<1>6. (c => "shared" \in odd') /\ (Got(fetching, Open(a.item)) => "crossed" \in odd')
  BY <1>4, <1>5 DEF Got, On
<1>7. inFolder' = [f \in Folder |-> Added(a)[f] \ a.drop] BY <1>1 DEF Dropped
<1>8. \A f \in Folder : Added(a)[f] = IF f = a.item THEN inFolder[f] \cup a.add ELSE inFolder[f]
  BY <1>3, TypeFacts DEF Added
<1>9. \A f \in Folder : inFolder'[f] = (IF f = a.item THEN inFolder[f] \cup a.add ELSE inFolder[f]) \ a.drop
  BY <1>7, <1>8
<1>10. \A f \in Folder : inFolder'[f] \subseteq Range(boards) BY <1>1, <1>9 DEF Rows
<1>11. inFolder' \in [Folder -> SUBSET Board]
  <2>1. \A f \in Folder : inFolder'[f] \in SUBSET Board BY <1>10, TypeFacts
  <2>2. inFolder' = [f \in Folder |-> inFolder'[f]] BY <1>7
  <2>. QED BY <2>1, <2>2
<1>12. named' \subseteq Folder /\ (a.named => named' = named \cup {a.item})
  BY <1>1, <1>3, TypeFacts DEF Titled
<1>13. TablesType' BY <1>1, <1>11, <1>12, TypeParts DEF TablesType
<1>14. TypeOK' BY <1>1, <1>2, <1>5, <1>13, TypeParts, TypeNext DEF RestType
<1>15. Rows' BY <1>1, <1>10 DEF Rows
<1>. QED BY <1>1, <1>2, <1>3, <1>5, <1>6, <1>9, <1>12, <1>14, <1>15 DEF c

(* A save fails, wholly or in part.                                        *)
LEMMA UpdateFailsIs ==
  ASSUME LibraryAssumption, TypeOK, Rows, Items, NEW a \in asks, UpdateFails(a)
  PROVE  /\ TypeOK' /\ Rows' /\ Serves(a, "save") /\ "failed" \in odd' /\ odd \subseteq odd'
         /\ UNCHANGED <<boards, folders, ever, page, query, edits, wanted>>
<1>1. /\ Sent(a, "save") /\ Replied(a, "bad") /\ Blame({"failed"})
      /\ IF a.item \in Range(folders)
         THEN named' \in {named, Titled(a)} /\ inFolder' \in {inFolder, Dropped(a, inFolder)}
         ELSE UNCHANGED <<named, inFolder>>
      /\ UNCHANGED <<boards, folders, ever, page, query, edits, wanted>>
  BY DEF UpdateFails
<1>2. Serves(a, "save") /\ asks' \subseteq Ask BY <1>1, ServesIs
<1>3. a.item \in Folder BY <1>2 DEF Serves, Items
<1>4. odd' \subseteq Reason /\ odd \subseteq odd' /\ "failed" \in odd' BY <1>1, FailedIs
<1>5. named' \subseteq Folder BY <1>1, <1>3, TypeFacts DEF Titled
<1>6. inFolder' \in [Folder -> SUBSET Board] /\ \A f \in Folder : inFolder'[f] \subseteq inFolder[f]
  <2>1. CASE inFolder' = inFolder BY <2>1, TypeFacts
  <2>2. CASE inFolder' = Dropped(a, inFolder)
    <3>1. inFolder' = [f \in Folder |-> inFolder[f] \ a.drop] BY <2>2 DEF Dropped
    <3>. QED BY <3>1, TypeFacts
  <2>. QED BY <1>1, <2>1, <2>2
<1>7. TablesType' BY <1>1, <1>5, <1>6, TypeParts DEF TablesType
<1>8. TypeOK' BY <1>1, <1>2, <1>4, <1>7, TypeParts, TypeNext DEF RestType
<1>9. Rows'
  <2>1. \A f \in Folder : inFolder'[f] \subseteq Range(boards) BY <1>6 DEF Rows
  <2>. QED BY <1>1, <2>1 DEF Rows
<1>. QED BY <1>1, <1>2, <1>4, <1>8, <1>9

(* A save is refused.                                                      *)
LEMMA UpdateRefusedIs ==
  ASSUME LibraryAssumption, TypeOK, Rows, Items, NEW a \in asks, UpdateRefused(a)
  PROVE  /\ TypeOK' /\ Rows' /\ Serves(a, "save") /\ odd \subseteq odd'
         /\ "long" \in odd' \/ "failed" \in odd'
         /\ UNCHANGED <<tables, page, query, edits, wanted>>
<1>1. /\ Sent(a, "save") /\ UNCHANGED <<tables, page, query, edits, wanted>>
      /\ \E x \in {"ok", "bad"} : Replied(a, x)
      /\ Blame({"long"}) \/ Blame({"failed"})
  BY DEF UpdateRefused
<1>2. Serves(a, "save") /\ asks' \subseteq Ask BY <1>1, ServesIs
<1>3. {"long"} \subseteq Reason BY DEF Reason
<1>4. odd' \subseteq Reason /\ odd \subseteq odd' /\ ("long" \in odd' \/ "failed" \in odd')
  BY <1>1, <1>3, BlameIs, FailedIs
<1>5. TypeOK' BY <1>1, <1>2, <1>4, TypeParts, TypeNext DEF RestType
<1>6. Rows' BY <1>1 DEF Rows, tables
<1>. QED BY <1>1, <1>2, <1>4, <1>5, <1>6

(* A board goes elsewhere.                                                 *)
LEMMA BoardDeletedIs ==
  ASSUME LibraryAssumption, TypeOK, Rows, NEW b \in Board, BoardDeleted(b)
  PROVE  TypeOK' /\ Drop(b) /\ UNCHANGED <<page, query, asks, edits, wanted, odd>>
<1>1. Drop(b) /\ UNCHANGED <<page, query, asks, edits, wanted, odd>> BY DEF BoardDeleted
<1>2. TablesType' BY <1>1, DropIs
<1>. QED BY <1>1, <1>2, TypeParts, TypeNext DEF RestType

----------------------------------------------------------------------------
(* Whose fetches are under way.                                            *)

(* The steps of the queries.                                               *)
QueryStep(k) ==
  \/ Visit(k) \/ Refocus \/ Serve(k) \/ Answered(k) \/ FetchFails(k)
  \/ \E n \in 1 .. MaxPage : TurnPage(n)

(* Only on lists are there fetches of the page that are not of its key;    *)
(* the fetch of its key is the page's, or it was joined.                   *)
Mine ==
  \A k \in Key : On(fetching, k) =>
    /\ here.kind # "boards" /\ Own(fetching, k) => k = here
    /\ k = here => Own(fetching, k) \/ "joined" \in odd

(* Queries are left alone.                                                 *)
LEMMA MineFrame ==
  ASSUME Mine, UNCHANGED <<fetching, here>>, odd \subseteq odd'
  PROVE  Mine'
BY DEF Mine

(* Steps of the queries keep it.                                           *)
LEMMA MineStays ==
  ASSUME LibraryAssumption, TypeOK, Mine,
         NEW k \in Key, QueryStep(k)
  PROVE  Mine'
<1>1. CASE Visit(k)
  <2>1. /\ here' = k /\ (Own(fetching', k) \/ "joined" \in odd')
        /\ \A j \in Key : j # k => ~(On(fetching', j) /\ Own(fetching', j))
    BY <1>1, VisitIs
  <2>. QED BY <2>1 DEF Mine
<1>2. CASE Refocus
  <2>1. here \in Key /\ UNCHANGED <<page, odd>> BY <1>2, RefocusIs
  <2>2. UNCHANGED <<here, odd>> BY <2>1 DEF page
  <2>3. \A j \in Key : /\ On(fetching, j) => On(fetching', j) /\ Own(fetching', j) = Own(fetching, j)
                       /\ ~On(fetching, j) /\ j # here => ~On(fetching', j)
                       /\ ~On(fetching, j) /\ j = here => Own(fetching', j)
    BY <1>2, RefocusIs DEF Same
  <2>. QED BY <2>2, <2>3 DEF Mine
<1>3. CASE Serve(k)
  <2>1. UNCHANGED <<page, odd>> BY <1>3, ServeIs
  <2>2. UNCHANGED <<here, odd>> BY <2>1 DEF page
  <2>3. \A j \in Key : On(fetching', j) => On(fetching, j) /\ Own(fetching', j) = Own(fetching, j)
    BY <1>3, ServeIs DEF Same
  <2>. QED BY <2>2, <2>3 DEF Mine
<1>4. CASE Answered(k)
  <2>1. here' = here /\ odd \subseteq odd' BY <1>4, AnsweredIs
  <2>2. ~On(fetching', k) BY <1>4, AnsweredIs
  <2>3. \A j \in Key \ {k} :
          /\ On(fetching, j) => On(fetching', j) /\ Own(fetching', j) = Own(fetching, j)
          /\ ~On(fetching, j) /\ On(fetching', j) => j = Boards(1) /\ here.kind = "open" /\ ~Own(fetching', j)
    BY <1>4, AnsweredIs DEF Same
  <2>4. here.kind = "open" => here # Boards(1) BY DEF Boards
  <2>5. ASSUME NEW j \in Key, On(fetching', j)
        PROVE  /\ here.kind # "boards" /\ Own(fetching', j) => j = here
               /\ j = here => Own(fetching', j) \/ "joined" \in odd'
    <3>1. j \in Key \ {k} BY <2>2, <2>5
    <3>2. CASE On(fetching, j)
      <4>1. Own(fetching', j) = Own(fetching, j) BY <2>3, <3>1, <3>2
      <4>. QED BY <2>1, <3>2, <4>1 DEF Mine
    <3>3. CASE ~On(fetching, j) BY <2>3, <2>4, <2>5, <3>1, <3>3
    <3>. QED BY <3>2, <3>3
  <2>. QED BY <2>1, <2>5 DEF Mine
<1>5. CASE FetchFails(k)
  <2>1. UNCHANGED <<page, odd>> BY <1>5, FetchFailsIs
  <2>2. UNCHANGED <<here, odd>> BY <2>1 DEF page
  <2>3. \A j \in Key : On(fetching', j) => On(fetching, j) /\ Own(fetching', j) = Own(fetching, j)
    BY <1>5, FetchFailsIs DEF Same
  <2>. QED BY <2>2, <2>3 DEF Mine
<1>6. ASSUME NEW n \in 1 .. MaxPage, TurnPage(n) PROVE Mine'
  <2>1. here' = Boards(n) /\ odd \subseteq odd' /\ Boards(n) \in Key BY <1>6, TurnPageIs, FirstPage
  <2>2. here'.kind = "boards" BY <2>1 DEF Boards
  <2>3. On(fetching, Boards(n)) => /\ Own(fetching, Boards(n)) \/ "joined" \in odd'
                                   /\ Own(fetching', Boards(n)) = Own(fetching, Boards(n))
    BY <1>6, <2>1, TurnPageIs DEF Same
  <2>4. ~On(fetching, Boards(n)) => Own(fetching', Boards(n)) BY <1>6, <2>1, TurnPageIs
  <2>. QED BY <2>1, <2>2, <2>3, <2>4 DEF Mine
<1>. QED BY <1>1, <1>2, <1>3, <1>4, <1>5, <1>6 DEF QueryStep

----------------------------------------------------------------------------
(* What folders show, and what of them is known.                           *)

(* An open folder is left alone, or it loses or gets boards.               *)
LEMMA ContentsFrame ==
  ASSUME Contents, UNCHANGED <<here, ready, cache, fetching>>, here.kind = "open" => shown' \subseteq Board
  PROVE  Contents'
BY DEF Contents, Known

(* Steps of the queries keep it.                                           *)
LEMMA ContentsStay ==
  ASSUME LibraryAssumption, TypeOK, Contents, Mine,
         NEW k \in Key, QueryStep(k)
  PROVE  Contents'
<1>1. CASE Visit(k)
  <2>1. here' = k /\ ready' = Ready(cache, k) /\ shown' = {} /\ cache' = cache BY <1>1, VisitIs
  <2>2. \A j \in Key : Got(fetching', j) => Got(fetching, j) /\ News(fetching', j) = News(fetching, j)
    BY <1>1, VisitIs
  <2>3. Ready(cache, k) => Known(k) BY DEF Ready, Known
  <2>. QED BY <2>1, <2>2, <2>3, OpenIs DEF Contents, Known
<1>2. CASE Refocus
  <2>1. UNCHANGED <<page, cache>> BY <1>2, RefocusIs
  <2>2. UNCHANGED <<here, ready, shown, cache>> BY <2>1 DEF page
  <2>3. \A j \in Key : Got(fetching', j) => Got(fetching, j) /\ News(fetching', j) = News(fetching, j)
    BY <1>2, RefocusIs DEF Same, Got
  <2>. QED BY <2>2, <2>3, OpenIs DEF Contents, Known
<1>3. CASE Serve(k)
  <2>1. UNCHANGED <<page, cache>> BY <1>3, ServeIs
  <2>2. UNCHANGED <<here, ready, shown, cache>> BY <2>1 DEF page
  <2>3. \A j \in Key \ {k} : Got(fetching', j) => Got(fetching, j) /\ News(fetching', j) = News(fetching, j)
    BY <1>3, ServeIs DEF Same
  <2>4. News(fetching', k) = Answer(k) BY <1>3, ServeIs
  <2>5. \A f \in Folder : Open(f) = k => Answer(k).items \subseteq Board
    <3> TAKE f \in Folder
    <3>1. Open(f) = k => Answer(k) = [items |-> inFolder[k.f], named |-> k.f \in named] /\ k.f = f
      BY OpenIs, AnswerIs
    <3>. QED BY <3>1, TypeFacts
  <2>. QED BY <2>2, <2>3, <2>4, <2>5, OpenIs DEF Contents, Known
<1>4. CASE Answered(k)
  <2>1. /\ here' = here /\ Got(fetching, k) /\ cache' = [cache EXCEPT ![k] = <<News(fetching, k)>>]
        /\ ~On(fetching', k) /\ (ready' => ready \/ (here # Away /\ Ready(cache', here)))
    BY <1>4, AnsweredIs
  <2>2. \A j \in Key : Got(fetching', j) => Got(fetching, j) /\ News(fetching', j) = News(fetching, j)
    BY <1>4, AnsweredIs DEF Same, Got
  <2>3. \A j \in Key : cache'[j] = IF j = k THEN <<News(fetching, k)>> ELSE cache[j]
    BY <2>1, TypeFacts DEF Caches
  <2>4. IF Own(fetching, k) THEN shown' = News(fetching, k).items ELSE shown' = shown BY <1>4, AnsweredIs
  <2>5. here.kind = "open" => here \in Key /\ here.f \in Folder /\ here = Open(here.f) BY HereIs
  <2>6. here.kind = "open" => shown' \subseteq Board
    <3>1. here.kind = "open" /\ Own(fetching, k) => k = here BY <2>1 DEF Mine, Got
    <3>. QED BY <2>1, <2>4, <2>5, <3>1 DEF Contents
  <2>7. here.kind = "open" /\ ready' => cache'[here] # <<>>
    <3>1. Ready(cache', here) => cache'[here] # <<>> BY DEF Ready
    <3>2. here.kind = "open" /\ ready => cache[here] # <<>> BY DEF Contents, Known
    <3>. QED BY <2>1, <2>3, <2>5, <3>1, <3>2
  <2>8. ASSUME NEW f \in Folder
        PROVE  /\ cache'[Open(f)] # <<>> => cache'[Open(f)][1].items \subseteq Board
               /\ Got(fetching', Open(f)) => News(fetching', Open(f)).items \subseteq Board
    <3>1. Open(f) \in Key BY OpenIs
    <3>2. CASE Open(f) = k
      <4>1. cache'[Open(f)][1] = News(fetching, Open(f)) BY <2>3, <3>1, <3>2
      <4>. QED BY <2>1, <2>2, <3>1, <3>2, <4>1 DEF Contents
    <3>3. CASE Open(f) # k
      <4>1. cache'[Open(f)] = cache[Open(f)] BY <2>3, <3>1, <3>3
      <4>. QED BY <2>2, <3>1, <4>1 DEF Contents, Known
    <3>. QED BY <3>2, <3>3
  <2>. QED BY <2>1, <2>6, <2>7, <2>8 DEF Contents, Known
<1>5. CASE FetchFails(k)
  <2>1. UNCHANGED <<page, cache>> BY <1>5, FetchFailsIs
  <2>2. UNCHANGED <<here, ready, shown, cache>> BY <2>1 DEF page
  <2>3. \A j \in Key : Got(fetching', j) => Got(fetching, j) /\ News(fetching', j) = News(fetching, j)
    BY <1>5, FetchFailsIs DEF Same
  <2>. QED BY <2>2, <2>3, OpenIs DEF Contents, Known
<1>6. ASSUME NEW n \in 1 .. MaxPage, TurnPage(n) PROVE Contents'
  <2>1. here' = Boards(n) /\ cache' = cache BY <1>6, TurnPageIs
  <2>2. here'.kind = "boards" BY <2>1 DEF Boards
  <2>3. \A j \in Key : Got(fetching', j) => Got(fetching, j) /\ News(fetching', j) = News(fetching, j)
    BY <1>6, TurnPageIs DEF Same, Got
  <2>. QED BY <2>1, <2>2, <2>3, OpenIs DEF Contents, Known
<1>. QED BY <1>1, <1>2, <1>3, <1>4, <1>5, <1>6 DEF QueryStep

----------------------------------------------------------------------------
(* The requests.                                                           *)

PageOf(do) == CASE do = "delete" -> "boards" [] do = "save" -> "open" [] OTHER -> "folders"

(* Requests of the page are those that its kind has; a folder that is      *)
(* asked for is new; a board whose removal was answered is gone.           *)
Asked ==
  /\ \A a \in asks : a.mine => here.kind = PageOf(a.do)
  /\ \A a \in Unserved("create") : a.item \notin ever
  /\ \A a, b \in Unserved("create") : a.item = b.item => a = b
  /\ \A a \in asks : a.do = "delete" /\ a.answer # "none" => a.item \notin Range(boards) \/ "failed" \in odd

(* No request is new.                                                      *)
LEMMA AskedFewer ==
  ASSUME Asked, Items, asks' \subseteq asks, here'.kind = here.kind, UNCHANGED ever,
         Range(boards') \subseteq Range(boards), odd \subseteq odd', fresh' \subseteq Folder
  PROVE  Asked' /\ Items'
<1>1. Unserved("create")' \subseteq Unserved("create") BY DEF Unserved
<1>2. Items' BY DEF Items
<1>3. /\ \A a \in asks' : a.mine => here'.kind = PageOf(a.do)
      /\ \A a \in asks' : a.do = "delete" /\ a.answer # "none" => a.item \notin Range(boards') \/ "failed" \in odd'
  BY DEF Asked
<1>4. /\ \A a \in Unserved("create")' : a.item \notin ever'
      /\ \A a, b \in Unserved("create")' : a.item = b.item => a = b
  BY <1>1 DEF Asked
<1>. QED BY <1>2, <1>3, <1>4 DEF Asked

(* One is sent.                                                            *)
LEMMA AskedMore ==
  ASSUME Asked, Items, UNCHANGED <<here, ever, boards>>, odd \subseteq odd', fresh' \subseteq Folder,
         NEW do, NEW x, NEW c, Sends(do, x, c), here.kind = PageOf(do),
         IF do = "delete" THEN x \in Board ELSE x \in Folder,
         do = "create" => x \notin ever /\ \A a \in asks : a.item # x
  PROVE  Asked' /\ Items'
<1>1. /\ c.do = do /\ c.item = x /\ c.answer = "none" /\ asks' = asks \cup {c}
      /\ Unserved("create")' = IF "create" = do THEN Unserved("create") \cup {c} ELSE Unserved("create")
  BY DEF Sends
<1>2. Items' BY <1>1 DEF Items
<1>3. /\ \A a \in asks' : a.mine => here'.kind = PageOf(a.do)
      /\ \A a \in asks' : a.do = "delete" /\ a.answer # "none" => a.item \notin Range(boards') \/ "failed" \in odd'
  BY <1>1 DEF Asked
<1>4. Unserved("create") \subseteq asks BY DEF Unserved
<1>5. /\ \A a \in Unserved("create")' : a.item \notin ever'
      /\ \A a, b \in Unserved("create")' : a.item = b.item => a = b
  BY <1>1, <1>4 DEF Asked
<1>. QED BY <1>2, <1>3, <1>5 DEF Asked

(* One is answered.                                                        *)
LEMMA AskedServed ==
  ASSUME Asked, Items, UNCHANGED <<here, fresh>>, odd \subseteq odd', Range(boards') \subseteq Range(boards),
         NEW a \in asks, NEW do, Serves(a, do),
         ever' = ever \/ (do = "create" /\ ever' = ever \cup {a.item}),
         do = "delete" => a.item \notin Range(boards') \/ "failed" \in odd'
  PROVE  Asked' /\ Items'
<1>1. /\ a \in Unserved(do) /\ a.do = do
      /\ \A b \in asks' : b \in asks \ {a} \/ (b.do = a.do /\ b.item = a.item /\ b.mine = a.mine /\ b.answer # "none")
      /\ Unserved("create")' = Unserved("create") \ {a}
  BY DEF Serves
<1>2. Items' BY <1>1 DEF Items
<1>3. /\ \A b \in asks' : b.mine => here'.kind = PageOf(b.do)
      /\ \A b \in asks' : b.do = "delete" /\ b.answer # "none" => b.item \notin Range(boards') \/ "failed" \in odd'
  BY <1>1 DEF Asked
<1>4. \A b \in Unserved("create")' : b.item \notin ever'
  <2>1. \A b \in Unserved("create")' : b.item \notin ever BY <1>1 DEF Asked
  <2>2. do = "create" => \A b \in Unserved("create")' : b.item # a.item BY <1>1 DEF Asked
  <2>. QED BY <2>1, <2>2
<1>5. \A b, c \in Unserved("create")' : b.item = c.item => b = c BY <1>1 DEF Asked
<1>. QED BY <1>2, <1>3, <1>4, <1>5 DEF Asked

(* The page is left: all are nobody's.                                     *)
LEMMA AskedLeft ==
  ASSUME TypeOK, Asked, Items, asks' = {[a EXCEPT !.mine = FALSE] : a \in asks}, fresh' = {},
         UNCHANGED <<ever, boards>>, odd \subseteq odd'
  PROVE  Asked' /\ Items'
<1>1. \A b \in asks' : \E a \in asks : SameAsk(a, b) /\ ~b.mine BY AsksLeft
<1>2. \A b \in Unserved("create")' : \E a \in Unserved("create") : SameAsk(a, b) /\ b = [a EXCEPT !.mine = FALSE]
  BY UnservedLeft
<1>3. Items' BY <1>1 DEF Items, SameAsk
<1>4. /\ \A a \in asks' : a.mine => here'.kind = PageOf(a.do)
      /\ \A a \in asks' : a.do = "delete" /\ a.answer # "none" => a.item \notin Range(boards') \/ "failed" \in odd'
  BY <1>1 DEF Asked, SameAsk
<1>5. \A a \in Unserved("create")' : a.item \notin ever' BY <1>2 DEF Asked, SameAsk
<1>6. ASSUME NEW b \in Unserved("create")', NEW c \in Unserved("create")', b.item = c.item PROVE b = c
  <2>1. PICK a \in Unserved("create") : a.item = b.item /\ b = [a EXCEPT !.mine = FALSE] BY <1>2 DEF SameAsk
  <2>2. PICK d \in Unserved("create") : d.item = c.item /\ c = [d EXCEPT !.mine = FALSE] BY <1>2 DEF SameAsk
  <2>3. a = d BY <1>6, <2>1, <2>2 DEF Asked
  <2>. QED BY <2>1, <2>2, <2>3
<1>. QED BY <1>3, <1>4, <1>5, <1>6 DEF Asked

----------------------------------------------------------------------------
(* The folders there have been.                                            *)

(* What is known of folders is of folders that there have been, ...        *)
Seen ==
  \A k \in Key : /\ Known(k) => cache[k][1].items \cap Folder \subseteq ever
                 /\ Got(fetching, k) => News(fetching, k).items \cap Folder \subseteq ever

(* ... and nothing is done with others.                                    *)
Unborn ==
  \A f \in Folder \ ever : /\ ~On(fetching, Open(f)) /\ here # Open(f)
                           /\ \A a \in asks : a.do = "save" => a.item # f

(* Queries are left alone.                                                 *)
LEMMA SeenFrame == ASSUME Seen, UNCHANGED <<cache, fetching>>, ever \subseteq ever' PROVE Seen'
BY DEF Seen, Known

(* Steps of the queries keep it.                                           *)
LEMMA SeenStays ==
  ASSUME LibraryAssumption, TypeOK, Rows, Seen,
         NEW k \in Key, QueryStep(k)
  PROVE  Seen'
<1>1. CASE Visit(k) \/ Refocus \/ FetchFails(k) \/ \E n \in 1 .. MaxPage : TurnPage(n)
  <2>1. UNCHANGED tables /\ cache' = cache BY <1>1, VisitIs, RefocusIs, FetchFailsIs, TurnPageIs
  <2>2. UNCHANGED ever BY <2>1 DEF tables
  <2>3. \A j \in Key : Got(fetching', j) => Got(fetching, j) /\ News(fetching', j) = News(fetching, j)
    <3>1. CASE Visit(k) BY <3>1, VisitIs
    <3>2. CASE Refocus BY <3>2, RefocusIs DEF Same, Got
    <3>3. CASE FetchFails(k) BY <3>3, FetchFailsIs DEF Same
    <3>4. CASE \E n \in 1 .. MaxPage : TurnPage(n) BY <3>4, TurnPageIs DEF Same, Got
    <3>. QED BY <1>1, <3>1, <3>2, <3>3, <3>4
  <2>. QED BY <2>1, <2>2, <2>3 DEF Seen, Known
<1>2. CASE Serve(k)
  <2>1. UNCHANGED tables /\ cache' = cache BY <1>2, ServeIs
  <2>2. UNCHANGED ever BY <2>1 DEF tables
  <2>3. \A j \in Key \ {k} : Got(fetching', j) => Got(fetching, j) /\ News(fetching', j) = News(fetching, j)
    BY <1>2, ServeIs DEF Same
  <2>4. News(fetching', k) = Answer(k) BY <1>2, ServeIs
  <2>5. Answer(k).items \cap Folder \subseteq ever BY AnswerIs DEF Rows
  <2>. QED BY <2>1, <2>2, <2>3, <2>4, <2>5 DEF Seen, Known
<1>3. CASE Answered(k)
  <2>1. UNCHANGED tables /\ cache' = [cache EXCEPT ![k] = <<News(fetching, k)>>] /\ Got(fetching, k)
    BY <1>3, AnsweredIs
  <2>2. UNCHANGED ever BY <2>1 DEF tables
  <2>3. \A j \in Key : Got(fetching', j) => Got(fetching, j) /\ News(fetching', j) = News(fetching, j)
    BY <1>3, AnsweredIs DEF Same, Got
  <2>4. \A j \in Key : cache'[j] = IF j = k THEN <<News(fetching, k)>> ELSE cache[j]
    BY <2>1, TypeFacts DEF Caches
  <2>5. \A j \in Key : cache'[j] # <<>> => cache'[j][1].items \cap Folder \subseteq ever
    BY <2>1, <2>4 DEF Seen, Known
  <2>. QED BY <2>2, <2>3, <2>5 DEF Seen, Known
<1>. QED BY <1>1, <1>2, <1>3 DEF QueryStep

(* A folder comes, nothing is fetched, no other folder is saved.           *)
LEMMA UnbornFrame ==
  ASSUME Unborn, UNCHANGED <<fetching, here>>, ever \subseteq ever',
         \A b \in asks' : b.do = "save" => b.item \in ever' \/ \E a \in asks : a.do = "save" /\ a.item = b.item
  PROVE  Unborn'
BY DEF Unborn

(* Steps of the queries keep it.                                           *)
LEMMA UnbornStays ==
  ASSUME LibraryAssumption, TypeOK, Rows, Unborn,
         NEW k \in Key, QueryStep(k)
  PROVE  Unborn'
<1>1. CASE Visit(k)
  <2>1. /\ here' = k /\ UNCHANGED tables /\ asks' = {[a EXCEPT !.mine = FALSE] : a \in asks}
        /\ k.kind = "open" => k.f \in Range(folders)
        /\ \A j \in Key : On(fetching', j) => On(fetching, j) \/ j = k \/ j = Boards(1)
    BY <1>1, VisitIs
  <2>2. UNCHANGED ever BY <2>1 DEF tables
  <2>3. \A b \in asks' : \E a \in asks : a.do = b.do /\ a.item = b.item BY <2>1, AsksLeft DEF SameAsk
  <2>4. ASSUME NEW f \in Folder \ ever PROVE Open(f) # k /\ Open(f) # Boards(1) /\ Open(f) \in Key
    <3>1. Open(f).kind = "open" /\ Open(f).f = f /\ Open(f) \in Key BY OpenIs
    <3>2. Boards(1).kind # "open" BY DEF Boards
    <3>. QED BY <2>1, <3>1, <3>2 DEF Rows
  <2>. QED BY <2>1, <2>2, <2>3, <2>4 DEF Unborn
<1>2. CASE Refocus \/ Serve(k) \/ Answered(k) \/ FetchFails(k)
  <2>1. UNCHANGED tables /\ here' = here /\ asks' = asks
    BY <1>2, RefocusIs, ServeIs, AnsweredIs, FetchFailsIs DEF page
  <2>2. UNCHANGED ever BY <2>1 DEF tables
  <2>3. \A j \in Key : On(fetching', j) => On(fetching, j) \/ j = here \/ j = Boards(1)
    <3>1. CASE Refocus BY <3>1, RefocusIs
    <3>2. CASE Serve(k) BY <3>2, ServeIs DEF Same
    <3>3. CASE Answered(k) BY <3>3, AnsweredIs
    <3>4. CASE FetchFails(k) BY <3>4, FetchFailsIs DEF Same
    <3>. QED BY <1>2, <3>1, <3>2, <3>3, <3>4
  <2>4. ASSUME NEW f \in Folder \ ever PROVE Open(f) # Boards(1) /\ Open(f) \in Key
    BY OpenIs DEF Boards, Open
  <2>. QED BY <2>1, <2>2, <2>3, <2>4 DEF Unborn
<1>3. ASSUME NEW n \in 1 .. MaxPage, TurnPage(n) PROVE Unborn'
  <2>1. UNCHANGED tables /\ here' = Boards(n) /\ asks' = asks BY <1>3, TurnPageIs
  <2>2. UNCHANGED ever BY <2>1 DEF tables
  <2>3. \A j \in Key : On(fetching', j) => On(fetching, j) \/ j = Boards(n) BY <1>3, TurnPageIs
  <2>4. ASSUME NEW f \in Folder \ ever PROVE Open(f) # Boards(n) /\ Open(f) \in Key
    BY OpenIs DEF Boards, Open
  <2>. QED BY <2>1, <2>2, <2>3, <2>4 DEF Unborn
<1>. QED BY <1>1, <1>2, <1>3 DEF QueryStep

----------------------------------------------------------------------------
(* The parts so far, together.                                             *)

Sound == TypeOK /\ Rows /\ Items /\ Contents /\ Mine /\ Asked /\ Seen /\ Unborn

(* ... hold at first.                                                      *)
LEMMA SoundInit == ASSUME LibraryAssumption, Init PROVE Sound
<1>1. TypeOK BY TypeInit
<1>2. PICK s \in Starts : boards = s.boards /\ folders = s.folders BY DEF Init
<1>3. /\ ever = Range(folders) /\ inFolder = [f \in Folder |-> {}] /\ here = Away /\ asks = {} /\ fresh = {}
      /\ cache = [k \in Key |-> <<>>] /\ fetching = [k \in Key |-> <<>>]
  BY DEF Init
<1>4. Rows BY <1>2, <1>3 DEF Rows, LibraryAssumption
<1>5. \A k \in Key : ~On(fetching, k) /\ ~Got(fetching, k) /\ ~Known(k) BY <1>3 DEF On, Got, Known
<1>6. \A f \in Folder : Open(f) \in Key /\ Open(f) # Away BY DEF Open, Away, Key
<1>7. Items BY <1>3 DEF Items
<1>8. Contents BY <1>3, <1>5, <1>6 DEF Contents, Away
<1>9. Mine BY <1>5 DEF Mine
<1>10. Asked BY <1>3 DEF Asked, Unserved
<1>11. Seen BY <1>5 DEF Seen
<1>12. Unborn BY <1>3, <1>5, <1>6 DEF Unborn
<1>. QED BY <1>1, <1>4, <1>7, <1>8, <1>9, <1>10, <1>11, <1>12 DEF Sound

(* ... and are kept by the steps of the queries, ...                       *)
LEMMA SoundQueries ==
  ASSUME LibraryAssumption, Sound,
         NEW k \in Key, QueryStep(k)
  PROVE  Sound'
<1>1. TypeOK /\ Rows /\ Items /\ Contents /\ Mine /\ Asked /\ Seen /\ Unborn BY DEF Sound
<1>2. TypeOK' /\ UNCHANGED tables /\ odd \subseteq odd'
  BY <1>1, VisitIs, RefocusIs, ServeIs, AnsweredIs, FetchFailsIs, TurnPageIs DEF QueryStep
<1>3. UNCHANGED <<boards, folders, inFolder, named, ever>> BY <1>2 DEF tables
<1>4. Rows' BY <1>1, <1>3 DEF Rows
<1>5. Asked' /\ Items'
  <2>1. CASE Visit(k)
    <3>1. asks' = {[a EXCEPT !.mine = FALSE] : a \in asks} /\ fresh' = {} BY <1>1, <2>1, VisitIs
    <3>. QED BY <1>1, <1>2, <1>3, <3>1, AskedLeft
  <2>2. CASE Refocus \/ Serve(k) \/ FetchFails(k)
    <3>1. UNCHANGED <<page, asks>> BY <1>1, <2>2, RefocusIs, ServeIs, FetchFailsIs
    <3>2. UNCHANGED <<here, fresh, asks>> BY <3>1 DEF page
    <3>. QED BY <1>1, <1>2, <1>3, <3>2, AskedFewer DEF Items
  <2>3. CASE Answered(k)
    <3>1. UNCHANGED <<here, asks>> /\ (fresh' = {} \/ fresh' = fresh) BY <1>1, <2>3, AnsweredIs
    <3>. QED BY <1>1, <1>2, <1>3, <3>1, AskedFewer DEF Items
  <2>4. ASSUME NEW n \in 1 .. MaxPage, TurnPage(n) PROVE Asked' /\ Items'
    <3>1. UNCHANGED <<asks, fresh>> /\ here.kind = "boards" /\ here' = Boards(n) BY <1>1, <2>4, TurnPageIs
    <3>2. here'.kind = here.kind BY <3>1 DEF Boards
    <3>. QED BY <1>1, <1>2, <1>3, <3>1, <3>2, AskedFewer DEF Items
  <2>. QED BY <2>1, <2>2, <2>3, <2>4 DEF QueryStep
<1>6. Contents' /\ Mine' BY <1>1, ContentsStay, MineStays
<1>7. Seen' /\ Unborn' BY <1>1, SeenStays, UnbornStays
<1>. QED BY <1>2, <1>4, <1>5, <1>6, <1>7 DEF Sound

(* The steps of the lists.                                                 *)
ListStep ==
  \/ \E b \in Board : RemoveBoard(b) \/ BoardDeleted(b)
  \/ \E f \in Folder : RemoveFolder(f) \/ Create(f)
  \/ \E a \in asks : \/ DeleteRoom(a) \/ BoardRemoved(a) \/ DeleteFolder(a) \/ FolderRemoved(a)
                     \/ CreateFolder(a) \/ FolderCreated(a)

(* ... of the lists, ...                                                   *)
LEMMA SoundLists ==
  ASSUME LibraryAssumption, Sound,
         ListStep
  PROVE  Sound'
<1>1. TypeOK /\ Rows /\ Items /\ Contents /\ Mine /\ Asked /\ Seen /\ Unborn BY DEF Sound
<1>2. fresh \subseteq Folder BY <1>1 DEF Items
<1>3. ASSUME NEW b \in Board, RemoveBoard(b) PROVE Sound'
  <2>1. /\ TypeOK' /\ here.kind = "boards" /\ UNCHANGED <<tables, page, query, edits, wanted, odd>>
        /\ \E c : Sends("delete", b, c)
    BY <1>1, <1>3, RemoveBoardIs
  <2>2. PICK c : Sends("delete", b, c) BY <2>1
  <2>3. /\ UNCHANGED <<boards, folders, inFolder, named, ever, here, ready, shown, fresh, cache, fetching, odd>>
    BY <2>1 DEF tables, page, query
  <2>4. Rows' BY <1>1, <2>3 DEF Rows
  <2>5. Asked' /\ Items'
    <3>1. PageOf("delete") = "boards" BY DEF PageOf
    <3>. QED BY <1>1, <1>2, <2>1, <2>2, <2>3, <3>1, AskedMore
  <2>6. Mine' /\ Contents' BY <1>1, <2>1, <2>3, MineFrame, ContentsFrame DEF Contents
  <2>7. Seen' BY <1>1, <2>3, SeenFrame
  <2>8. Unborn'
    <3>1. \A a \in asks' : a.do = "save" => a \in asks BY <2>2 DEF Sends
    <3>. QED BY <1>1, <2>3, <3>1, UnbornFrame
  <2>. QED BY <2>1, <2>4, <2>5, <2>6, <2>7, <2>8 DEF Sound
<1>4. ASSUME NEW b \in Board, BoardDeleted(b) PROVE Sound'
  <2>1. TypeOK' /\ Drop(b) /\ UNCHANGED <<page, query, asks, edits, wanted, odd>> BY <1>1, <1>4, BoardDeletedIs
  <2>2. Rows' /\ UNCHANGED <<folders, named, ever>> /\ Range(boards') = Range(boards) \ {b}
    BY <1>1, <2>1, DropIs
  <2>3. UNCHANGED <<here, ready, shown, fresh, cache, fetching, odd, asks>> BY <2>1 DEF page, query
  <2>4. Asked' /\ Items' BY <1>1, <1>2, <2>2, <2>3, AskedFewer
  <2>5. Mine' /\ Contents' BY <1>1, <2>3, MineFrame, ContentsFrame DEF Contents
  <2>6. Seen' BY <1>1, <2>2, <2>3, SeenFrame
  <2>7. Unborn' BY <1>1, <2>2, <2>3, UnbornFrame
  <2>. QED BY <2>1, <2>2, <2>4, <2>5, <2>6, <2>7 DEF Sound
<1>5. ASSUME NEW f \in Folder, RemoveFolder(f) PROVE Sound'
  <2>1. /\ TypeOK' /\ here.kind = "folders" /\ odd \subseteq odd'
        /\ UNCHANGED <<tables, here, tour, visits, ready, title, query, edits, wanted>>
        /\ fresh' \subseteq fresh
        /\ \E c : Sends("remove", f, c)
    BY <1>1, <1>5, RemoveFolderIs
  <2>2. PICK c : Sends("remove", f, c) BY <2>1
  <2>3. UNCHANGED <<boards, folders, inFolder, named, ever, here, ready, cache, fetching>> BY <2>1 DEF tables, query
  <2>4. Rows' BY <1>1, <2>3 DEF Rows
  <2>5. Asked' /\ Items'
    <3>1. PageOf("remove") = "folders" BY DEF PageOf
    <3>. QED BY <1>1, <1>2, <2>1, <2>2, <2>3, <3>1, AskedMore
  <2>6. Mine' /\ Contents' BY <1>1, <2>1, <2>3, MineFrame, ContentsFrame
  <2>7. Seen' BY <1>1, <2>3, SeenFrame
  <2>8. Unborn'
    <3>1. \A a \in asks' : a.do = "save" => a \in asks BY <2>2 DEF Sends
    <3>. QED BY <1>1, <2>3, <3>1, UnbornFrame
  <2>. QED BY <2>1, <2>4, <2>5, <2>6, <2>7, <2>8 DEF Sound
<1>6. ASSUME NEW f \in Folder, Create(f) PROVE Sound'
  <2>1. /\ TypeOK' /\ here.kind = "folders" /\ UNCHANGED <<tables, page, query, edits, wanted, odd>>
        /\ f \notin ever /\ (\A a \in asks : a.item # f)
        /\ \E c : Sends("create", f, c)
    BY <1>1, <1>6, CreateIs
  <2>2. PICK c : Sends("create", f, c) BY <2>1
  <2>3. UNCHANGED <<boards, folders, inFolder, named, ever, here, ready, shown, fresh, cache, fetching, odd>>
    BY <2>1 DEF tables, page, query
  <2>4. Rows' BY <1>1, <2>3 DEF Rows
  <2>5. Asked' /\ Items'
    <3>1. PageOf("create") = "folders" BY DEF PageOf
    <3>. QED BY <1>1, <1>2, <2>1, <2>2, <2>3, <3>1, AskedMore
  <2>6. Mine' /\ Contents' BY <1>1, <2>1, <2>3, MineFrame, ContentsFrame DEF Contents
  <2>7. Seen' BY <1>1, <2>3, SeenFrame
  <2>8. Unborn'
    <3>1. \A a \in asks' : a.do = "save" => a \in asks BY <2>2 DEF Sends
    <3>. QED BY <1>1, <2>3, <3>1, UnbornFrame
  <2>. QED BY <2>1, <2>4, <2>5, <2>6, <2>7, <2>8 DEF Sound
<1>7. ASSUME NEW a \in asks, DeleteRoom(a) PROVE Sound'
  <2>1. /\ TypeOK' /\ Serves(a, "delete") /\ UNCHANGED <<page, query>> /\ odd \subseteq odd'
        /\ \/ Drop(a.item) /\ UNCHANGED odd
           \/ UNCHANGED tables /\ "failed" \in odd'
    BY <1>1, <1>7, DeleteRoomIs
  <2>2. UNCHANGED <<here, ready, shown, fresh, cache, fetching>> BY <2>1 DEF page, query
  <2>3. /\ Rows' /\ UNCHANGED ever /\ Range(boards') \subseteq Range(boards)
        /\ a.item \notin Range(boards') \/ "failed" \in odd'
    <3>1. CASE Drop(a.item) BY <1>1, <3>1, DropIs
    <3>2. CASE UNCHANGED tables /\ "failed" \in odd'
      <4>1. UNCHANGED <<boards, folders, inFolder, named, ever>> BY <3>2 DEF tables
      <4>2. Rows' BY <1>1, <4>1 DEF Rows
      <4>. QED BY <3>2, <4>1, <4>2
    <3>. QED BY <2>1, <3>1, <3>2
  <2>4. Asked' /\ Items' BY <1>1, <2>1, <2>2, <2>3, AskedServed
  <2>5. Mine' /\ Contents' BY <1>1, <2>1, <2>2, MineFrame, ContentsFrame DEF Contents
  <2>6. Seen' BY <1>1, <2>2, <2>3, SeenFrame
  <2>7. Unborn'
    <3>1. \A b \in asks' : b.do = "save" => b \in asks BY <2>1 DEF Serves
    <3>. QED BY <1>1, <2>2, <2>3, <3>1, UnbornFrame
  <2>. QED BY <2>1, <2>3, <2>4, <2>5, <2>6, <2>7 DEF Sound
<1>8. ASSUME NEW a \in asks, BoardRemoved(a) PROVE Sound'
  <2>1. /\ TypeOK' /\ Ends(a, "delete") /\ shown' \subseteq shown
        /\ UNCHANGED <<tables, here, ready, fresh, query, odd>>
    BY <1>1, <1>8, BoardRemovedIs
  <2>2. UNCHANGED <<boards, folders, inFolder, named, ever, cache, fetching>> BY <2>1 DEF tables, query
  <2>3. Rows' BY <1>1, <2>2 DEF Rows
  <2>4. asks' \subseteq asks BY <2>1 DEF Ends
  <2>5. Asked' /\ Items' BY <1>1, <1>2, <2>1, <2>2, <2>4, AskedFewer
  <2>6. Mine' /\ Contents' BY <1>1, <2>1, <2>2, MineFrame, ContentsFrame DEF Contents
  <2>7. Seen' /\ Unborn' BY <1>1, <2>1, <2>2, <2>4, SeenFrame, UnbornFrame
  <2>. QED BY <2>1, <2>3, <2>5, <2>6, <2>7 DEF Sound
<1>9. ASSUME NEW a \in asks, DeleteFolder(a) PROVE Sound'
  <2>1. /\ TypeOK' /\ Rows' /\ Serves(a, "remove") /\ UNCHANGED <<page, query, boards, ever>>
        /\ odd \subseteq odd'
    BY <1>1, <1>9, DeleteFolderIs
  <2>2. UNCHANGED <<here, ready, shown, fresh, cache, fetching>> BY <2>1 DEF page, query
  <2>3. Asked' /\ Items' BY <1>1, <2>1, <2>2, AskedServed
  <2>4. Mine' /\ Contents' BY <1>1, <2>1, <2>2, MineFrame, ContentsFrame DEF Contents
  <2>5. Seen' BY <1>1, <2>1, <2>2, SeenFrame
  <2>6. Unborn'
    <3>1. \A b \in asks' : b.do = "save" => b \in asks BY <2>1 DEF Serves
    <3>. QED BY <1>1, <2>1, <2>2, <3>1, UnbornFrame
  <2>. QED BY <2>1, <2>3, <2>4, <2>5, <2>6 DEF Sound
<1>10. ASSUME NEW a \in asks, FolderRemoved(a) PROVE Sound'
  <2>1. /\ TypeOK' /\ (\E do \in {"remove", "save"} : Ends(a, do))
        /\ UNCHANGED <<tables, page, query, edits, wanted, odd>>
    BY <1>1, <1>10, OverIs
  <2>2. UNCHANGED <<boards, folders, inFolder, named, ever, here, ready, shown, fresh, cache, fetching, odd>>
    BY <2>1 DEF tables, page, query
  <2>3. Rows' BY <1>1, <2>2 DEF Rows
  <2>4. asks' \subseteq asks BY <2>1 DEF Ends
  <2>5. Asked' /\ Items' BY <1>1, <1>2, <2>2, <2>4, AskedFewer
  <2>6. Mine' /\ Contents' BY <1>1, <2>2, MineFrame, ContentsFrame DEF Contents
  <2>7. Seen' /\ Unborn' BY <1>1, <2>2, <2>4, SeenFrame, UnbornFrame
  <2>. QED BY <2>1, <2>3, <2>5, <2>6, <2>7 DEF Sound
<1>11. ASSUME NEW a \in asks, CreateFolder(a) PROVE Sound'
  <2>1. a.item \notin ever
    <3>1. a \in Unserved("create") BY <1>11 DEF CreateFolder, Sent, Unserved
    <3>. QED BY <1>1, <3>1 DEF Asked
  <2>2. /\ TypeOK' /\ Rows' /\ Serves(a, "create") /\ ever' = ever \cup {a.item}
        /\ UNCHANGED <<boards, page, query, odd>>
    BY <1>1, <1>11, <2>1, CreateFolderIs
  <2>3. UNCHANGED <<here, ready, shown, fresh, cache, fetching>> BY <2>2 DEF page, query
  <2>4. Asked' /\ Items' BY <1>1, <2>2, <2>3, AskedServed
  <2>5. Mine' /\ Contents' BY <1>1, <2>2, <2>3, MineFrame, ContentsFrame DEF Contents
  <2>6. Seen' BY <1>1, <2>2, <2>3, SeenFrame
  <2>7. Unborn'
    <3>1. \A b \in asks' : b.do = "save" => b \in asks BY <2>2 DEF Serves
    <3>. QED BY <1>1, <2>2, <2>3, <3>1, UnbornFrame
  <2>. QED BY <2>2, <2>4, <2>5, <2>6, <2>7 DEF Sound
<1>12. ASSUME NEW a \in asks, FolderCreated(a) PROVE Sound'
  <2>1. /\ TypeOK' /\ Ends(a, "create") /\ a.item \in Folder
        /\ IF a.mine THEN shown' = shown \cup {a.item} /\ fresh' = fresh \cup {a.item} ELSE UNCHANGED <<shown, fresh>>
        /\ UNCHANGED <<tables, here, ready, query, odd>>
    BY <1>1, <1>12, FolderCreatedIs
  <2>2. UNCHANGED <<boards, folders, inFolder, named, ever, cache, fetching>> BY <2>1 DEF tables, query
  <2>3. Rows' BY <1>1, <2>2 DEF Rows
  <2>4. asks' \subseteq asks /\ a.do = "create" BY <2>1 DEF Ends
  <2>5. fresh' \subseteq Folder BY <1>2, <2>1
  <2>6. Asked' /\ Items' BY <1>1, <2>1, <2>2, <2>4, <2>5, AskedFewer
  <2>7. here.kind = "open" => shown' = shown
    <3>1. PageOf("create") = "folders" BY DEF PageOf
    <3>. QED BY <1>1, <2>1, <2>4, <3>1 DEF Asked
  <2>8. Mine' /\ Contents' BY <1>1, <2>1, <2>2, <2>7, MineFrame, ContentsFrame DEF Contents
  <2>9. Seen' /\ Unborn' BY <1>1, <2>1, <2>2, <2>4, SeenFrame, UnbornFrame
  <2>. QED BY <2>1, <2>3, <2>6, <2>8, <2>9 DEF Sound
<1>. QED BY <1>3, <1>4, <1>5, <1>6, <1>7, <1>8, <1>9, <1>10, <1>11, <1>12 DEF ListStep

(* The steps of the folder page.                                           *)
FolderStep ==
  \/ \E b \in Board : Put(b) \/ Take(b)
  \/ Save
  \/ \E a \in asks : UpdateFolder(a) \/ UpdateFails(a) \/ UpdateRefused(a) \/ Saved(a)

(* ... and of the folder page.                                             *)
LEMMA SoundFolders ==
  ASSUME LibraryAssumption, Sound, FolderStep
  PROVE  Sound'
<1>1. TypeOK /\ Rows /\ Items /\ Contents /\ Mine /\ Asked /\ Seen /\ Unborn BY DEF Sound
<1>2. fresh \subseteq Folder BY <1>1 DEF Items
<1>3. ASSUME NEW b \in Board, Put(b) \/ Take(b) PROVE Sound'
  <2>1. /\ TypeOK' /\ here.kind = "open" /\ (shown' = shown \cup {b} \/ shown' = shown \ {b})
        /\ UNCHANGED <<tables, here, ready, fresh, query, asks, odd>>
    BY <1>1, <1>3, PutIs, TakeIs
  <2>2. UNCHANGED <<boards, folders, inFolder, named, ever, cache, fetching>> BY <2>1 DEF tables, query
  <2>3. Rows' BY <1>1, <2>2 DEF Rows
  <2>4. Asked' /\ Items' BY <1>1, <1>2, <2>1, <2>2, AskedFewer
  <2>5. shown' \subseteq Board BY <1>1, <2>1 DEF Contents
  <2>6. Mine' /\ Contents' BY <1>1, <2>1, <2>2, <2>5, MineFrame, ContentsFrame
  <2>7. Seen' /\ Unborn' BY <1>1, <2>1, <2>2, SeenFrame, UnbornFrame
  <2>. QED BY <2>1, <2>3, <2>4, <2>6, <2>7 DEF Sound
<1>4. CASE Save
  <2>1. /\ TypeOK' /\ here.kind = "open" /\ here.f \in Folder /\ here = Open(here.f)
        /\ odd \subseteq odd' /\ UNCHANGED <<tables, page, query>>
        /\ \E c : Sends("save", here.f, c)
    BY <1>1, <1>4, SaveIs
  <2>2. PICK c : Sends("save", here.f, c) BY <2>1
  <2>3. UNCHANGED <<boards, folders, inFolder, named, ever, here, ready, shown, fresh, cache, fetching>>
    BY <2>1 DEF tables, page, query
  <2>4. Rows' BY <1>1, <2>3 DEF Rows
  <2>5. Asked' /\ Items'
    <3>1. PageOf("save") = "open" BY DEF PageOf
    <3>. QED BY <1>1, <1>2, <2>1, <2>2, <2>3, <3>1, AskedMore
  <2>6. Mine' /\ Contents' BY <1>1, <2>1, <2>3, MineFrame, ContentsFrame DEF Contents
  <2>7. Seen' BY <1>1, <2>3, SeenFrame
  <2>8. Unborn'
    <3>1. here.f \in ever BY <1>1, <2>1 DEF Unborn
    <3>2. \A a \in asks' : a \in asks \/ a.item = here.f BY <2>2 DEF Sends
    <3>. QED BY <1>1, <2>3, <3>1, <3>2, UnbornFrame
  <2>. QED BY <2>1, <2>4, <2>5, <2>6, <2>7, <2>8 DEF Sound
<1>5. ASSUME NEW a \in asks, UpdateFolder(a) \/ UpdateFails(a) \/ UpdateRefused(a) PROVE Sound'
  <2>1. /\ TypeOK' /\ Rows' /\ Serves(a, "save") /\ odd \subseteq odd'
        /\ UNCHANGED <<boards, folders, ever, page, query>>
    BY <1>1, <1>5, UpdateFolderIs, UpdateFailsIs, UpdateRefusedIs DEF tables
  <2>2. UNCHANGED <<here, ready, shown, fresh, cache, fetching>> BY <2>1 DEF page, query
  <2>3. Asked' /\ Items' BY <1>1, <2>1, <2>2, AskedServed
  <2>4. Mine' /\ Contents' BY <1>1, <2>1, <2>2, MineFrame, ContentsFrame DEF Contents
  <2>5. Seen' BY <1>1, <2>1, <2>2, SeenFrame
  <2>6. Unborn'
    <3>1. \A b \in asks' : b \in asks \/ (b.do = a.do /\ b.item = a.item) BY <2>1 DEF Serves
    <3>. QED BY <1>1, <2>1, <2>2, <3>1, UnbornFrame
  <2>. QED BY <2>1, <2>3, <2>4, <2>5, <2>6 DEF Sound
<1>6. ASSUME NEW a \in asks, Saved(a) PROVE Sound'
  <2>1. /\ TypeOK' /\ (\E do \in {"remove", "save"} : Ends(a, do))
        /\ UNCHANGED <<tables, page, query, edits, wanted, odd>>
    BY <1>1, <1>6, OverIs
  <2>2. UNCHANGED <<boards, folders, inFolder, named, ever, here, ready, shown, fresh, cache, fetching, odd>>
    BY <2>1 DEF tables, page, query
  <2>3. Rows' BY <1>1, <2>2 DEF Rows
  <2>4. asks' \subseteq asks BY <2>1 DEF Ends
  <2>5. Asked' /\ Items' BY <1>1, <1>2, <2>2, <2>4, AskedFewer
  <2>6. Mine' /\ Contents' BY <1>1, <2>2, MineFrame, ContentsFrame DEF Contents
  <2>7. Seen' /\ Unborn' BY <1>1, <2>2, <2>4, SeenFrame, UnbornFrame
  <2>. QED BY <2>1, <2>3, <2>5, <2>6, <2>7 DEF Sound
<1>. QED BY <1>3, <1>4, <1>5, <1>6 DEF FolderStep

(* These are all the steps.                                                *)
LEMMA Steps ==
  ASSUME Next PROVE (\E k \in Key : QueryStep(k)) \/ ListStep \/ FolderStep
<1>1. Folders \in Key BY DEF Key
<1>2. QueryStep(Folders) \/ ~(Refocus \/ \E n \in 1 .. MaxPage : TurnPage(n)) BY DEF QueryStep
<1>. QED BY <1>1, <1>2 DEF Next, QueryStep, ListStep, FolderStep

(* Nothing happens.                                                        *)
LEMMA Idle ==
  ASSUME UNCHANGED vars
  PROVE  /\ UNCHANGED <<boards, folders, inFolder, named, ever, here, tour, visits, ready, shown, title, fresh>>
         /\ UNCHANGED <<cache, failed, fetching, asks, put, taken, dirty, wanted, odd>>
BY DEF vars, tables, page, query, edits

(* The parts are kept.                                                     *)
LEMMA SoundStays ==
  ASSUME LibraryAssumption, Sound, [Next]_vars PROVE Sound'
<1>1. CASE Next BY <1>1, Steps, SoundQueries, SoundLists, SoundFolders
<1>2. CASE UNCHANGED vars
  <2>1. /\ UNCHANGED <<boards, folders, inFolder, named, ever, here, tour, visits, ready, shown, title, fresh>>
        /\ UNCHANGED <<cache, failed, fetching, asks, put, taken, dirty, wanted, odd>>
    BY <1>2, Idle
  <2>2. TypeOK /\ Rows /\ Items /\ Contents /\ Mine /\ Asked /\ Seen /\ Unborn BY DEF Sound
  <2>3. TypeOK' BY <2>1, <2>2 DEF TypeOK
  <2>4. Rows' BY <2>1, <2>2 DEF Rows
  <2>5. Asked' /\ Items' BY <2>1, <2>2, AskedFewer DEF Items
  <2>6. Mine' /\ Contents' BY <2>1, <2>2, MineFrame, ContentsFrame DEF Contents
  <2>7. Seen' /\ Unborn' BY <2>1, <2>2, SeenFrame, UnbornFrame
  <2>. QED BY <2>3, <2>4, <2>5, <2>6, <2>7 DEF Sound
<1>. QED BY <1>1, <1>2

(* The parts hold always.                                                  *)
LEMMA AlwaysSound == Spec => []Sound
<1>1. Init => Sound BY SoundInit, LibraryAssumption
<1>2. Sound /\ [Next]_vars => Sound' BY SoundStays, LibraryAssumption
<1>. QED BY <1>1, <1>2, PTL DEF Spec

(* The state has its type: a step never leaves it, whatever is answered    *)
(* late, removed or saved meanwhile.                                       *)
THEOREM TypeCorrect == Spec => []TypeOK
<1>1. Sound => TypeOK BY DEF Sound
<1>. QED BY <1>1, AlwaysSound, PTL

----------------------------------------------------------------------------
(* The pages of a list.                                                    *)

(* A product of naturals is one, ...                                       *)
LEMMA ProductIs == ASSUME NEW a \in Nat, NEW b \in Nat PROVE a * b \in Nat
OBVIOUS

(* ... and grows with its factor.                                          *)
LEMMA ProductGrows ==
  ASSUME NEW a \in Nat, NEW b \in Nat, a <= b, NEW s \in Nat
  PROVE  a * s <= b * s
<1>1. PICK d \in Nat : b = a + d
  <2>1. b - a \in Nat /\ b = a + (b - a) OBVIOUS
  <2>. QED BY <2>1
<1>2. d * s \in Nat /\ a * s \in Nat BY ProductIs
<1>3. b * s = a * s + d * s BY <1>1
<1>. QED BY <1>2, <1>3

(* What the quotient of a division is.                                     *)
LEMMA QuotientIs ==
  ASSUME NEW a \in Nat, NEW s \in Nat \ {0}
  PROVE  /\ a \div s \in Nat /\ (a \div s) * s <= a
         /\ a < (a \div s + 1) * s
OBVIOUS

(* A list has each row on a page, and pages share none while two pages     *)
(* have room for all.                                                      *)
LEMMA PagesAre ==
  ASSUME LibraryAssumption, TypeOK, Rows
  PROVE  PagesCover
<1> DEFINE L == Len(boards)
           P == L \div Size
<1>1. Size \in Nat \ {0} /\ Size \in Nat /\ L \in Nat /\ DOMAIN boards = 1 .. L
  BY TypeFacts DEF LibraryAssumption
<1>2. P \in Nat /\ P * Size <= L /\ L < (P + 1) * Size BY <1>1, QuotientIs
<1>3. LastPage(L) = P + 1 BY DEF LastPage
<1> HIDE DEF P
<1>4. ASSUME NEW b \in Range(boards) PROVE \E n \in 1 .. P + 1 : b \in OnPage(boards, n)
  <2>1. PICK i \in 1 .. L : b = boards[i] BY <1>1 DEF Range
  <2>2. i - 1 \in Nat /\ i \in Nat /\ i <= L BY <1>1
  <2>3. PICK q \in Nat : q * Size <= i - 1 /\ i - 1 < (q + 1) * Size BY <1>1, <2>2, QuotientIs
  <2>4. q * Size \in Nat /\ (q + 1) * Size \in Nat /\ (P + 1) * Size \in Nat
    <3>1. q + 1 \in Nat /\ P + 1 \in Nat BY <1>2
    <3>. QED BY <1>1, <3>1, ProductIs
  <2>5. q < P + 1
    <3>1. CASE P + 1 <= q
      <4>1. (P + 1) * Size <= q * Size
        <5>1. P + 1 \in Nat BY <1>2
        <5>. QED BY <1>1, <3>1, <5>1, ProductGrows
      <4>. QED BY <1>1, <1>2, <2>2, <2>3, <2>4, <4>1
    <3>. QED BY <1>2, <3>1
  <2>6. PICK n \in 1 .. P + 1 : n = q + 1 BY <1>2, <2>5
  <2>7. (n - 1) * Size = q * Size /\ n * Size = (q + 1) * Size
    <3>1. n - 1 = q BY <2>6
    <3>. QED BY <2>6, <3>1
  <2>8. (n - 1) * Size < i /\ i <= (n - 1) * Size + n * Size
    <3>1. q * Size < i /\ i <= q * Size + (q + 1) * Size BY <2>2, <2>3, <2>4
    <3>. QED BY <2>7, <3>1
  <2>. QED BY <1>1, <2>1, <2>8 DEF OnPage
<1>5. ASSUME L <= 2 * Size, NEW n \in 1 .. P + 1, NEW m \in 1 .. P + 1, n < m,
             NEW x \in OnPage(boards, n), x \in OnPage(boards, m)
      PROVE  FALSE
  <2>1. PICK i \in 1 .. L : x = boards[i] /\ i <= (n - 1) * Size + n * Size BY <1>1 DEF OnPage
  <2>2. PICK j \in 1 .. L : x = boards[j] /\ (m - 1) * Size < j BY <1>1, <1>5 DEF OnPage
  <2>3. i = j BY <1>1, <2>1, <2>2 DEF Rows, IsInjective
  <2>4. n \in Nat /\ m \in Nat /\ m - 1 \in Nat /\ 1 <= n /\ n <= m - 1 BY <1>2, <1>5
  <2>5. (m - 1) * Size < 2 * Size
    <3>1. (m - 1) * Size \in Nat BY <1>1, <2>4, ProductIs
    <3>. QED BY <1>1, <1>5, <2>2, <3>1
  <2>6. m - 1 = 1
    <3>1. CASE 2 <= m - 1
      <4>1. 2 * Size <= (m - 1) * Size BY <1>1, <2>4, <3>1, ProductGrows
      <4>2. (m - 1) * Size \in Nat BY <1>1, <2>4, ProductIs
      <4>. QED BY <1>1, <2>5, <4>1, <4>2
    <3>. QED BY <2>4, <3>1
  <2>7. n = 1 BY <2>4, <2>6
  <2>8. i <= 0 * Size + 1 * Size /\ 1 * Size < i
    <3>1. n - 1 = 0 BY <2>7
    <3>. QED BY <2>1, <2>2, <2>3, <2>6, <2>7, <3>1
  <2>. QED BY <1>1, <2>8
<1>6. L <= 2 * Size => \A n, m \in 1 .. P + 1 : n # m => OnPage(boards, n) \cap OnPage(boards, m) = {}
  <2> SUFFICES ASSUME L <= 2 * Size, NEW n \in 1 .. P + 1, NEW m \in 1 .. P + 1, n # m,
                      NEW x \in OnPage(boards, n), x \in OnPage(boards, m)
               PROVE  FALSE
    OBVIOUS
  <2>1. n < m \/ m < n BY <1>2
  <2>. QED BY <1>5, <2>1
<1>. QED BY <1>3, <1>4, <1>6 DEF PagesCover

(* Every board is on some page of the list, and on one only while two      *)
(* pages have room for all, whatever boards go meanwhile.                  *)
THEOREM PagesHold == Spec => []PagesCover
<1>1. Sound => PagesCover BY LibraryAssumption, PagesAre DEF Sound
<1>. QED BY <1>1, AlwaysSound, PTL

----------------------------------------------------------------------------
(* What lists show.                                                        *)

Plain == odd \cap {"late", "joined", "failed", "alike"} = {}

Removing(x) == \E a \in Unserved("remove") : a.item = x

(* A list that is not being fetched shows what was fetched for it, but for *)
(* what is gone and what is about to go.                                   *)
Listed ==
  Plain /\ here.kind \in {"boards", "folders"} /\ here \notin failed /\ ~On(fetching, here) =>
    /\ Known(here) /\ shown \subseteq cache[here][1].items \cup fresh
    /\ \A x \in (cache[here][1].items \ shown) \cap (Range(boards) \cup Range(folders)) : Removing(x)

(* What was odd stays so.                                                  *)
LEMMA PlainBefore == ASSUME odd \subseteq odd', Plain' PROVE Plain
BY DEF Plain

(* The page shows the same; what goes, and what need not go, goes.         *)
LEMMA ListedFrame ==
  ASSUME Listed, odd \subseteq odd', UNCHANGED <<here, cache, shown, fresh>>,
         here \notin failed' => here \notin failed, On(fetching, here) => On(fetching', here) \/ here \in failed',
         Range(boards') \subseteq Range(boards), Range(folders') \subseteq Range(folders),
         \A x \in Range(boards') \cup Range(folders') : Removing(x) => Removing(x)'
  PROVE  Listed'
<1> SUFFICES ASSUME Plain', here.kind \in {"boards", "folders"}, here \notin failed', ~On(fetching', here)
             PROVE  /\ Known(here)' /\ shown \subseteq cache[here][1].items \cup fresh
                    /\ \A x \in (cache[here][1].items \ shown) \cap (Range(boards') \cup Range(folders')) : Removing(x)'
  BY DEF Listed
<1>1. Plain BY PlainBefore
<1>. QED BY <1>1 DEF Listed, Known

(* ... or it is of another kind.                                           *)
LEMMA ListedElse == ASSUME here'.kind = "open" PROVE Listed'
BY DEF Listed

(* Steps of the queries keep it.                                           *)
LEMMA ListedQueries ==
  ASSUME LibraryAssumption, Sound, Listed, NEW k \in Key, QueryStep(k)
  PROVE  Listed'
<1>1. TypeOK /\ Mine BY DEF Sound
<1>2. here.kind \in {"boards", "folders"} => here \in Key BY <1>1, HereIs
<1>3. CASE Visit(k)
  <2>1. here' = k /\ On(fetching', k) BY <1>1, <1>3, VisitIs
  <2>. QED BY <2>1 DEF Listed
<1>4. CASE Refocus
  <2>1. here \in Key /\ UNCHANGED page /\ On(fetching', here) BY <1>1, <1>4, RefocusIs DEF Same
  <2>2. here' = here BY <2>1 DEF page
  <2>. QED BY <2>1, <2>2 DEF Listed
<1>5. CASE Serve(k)
  <2>1. UNCHANGED <<tables, page, cache, failed, asks, odd>> BY <1>1, <1>5, ServeIs
  <2>2. UNCHANGED <<boards, folders, here, shown, fresh>> BY <2>1 DEF tables, page
  <2>3. here \in Key => (On(fetching, here) => On(fetching', here)) BY <1>1, <1>5, ServeIs DEF Same
  <2>4. CASE here.kind \in {"boards", "folders"}
    <3>1. \A x : Removing(x) => Removing(x)' BY <2>1 DEF Removing, Unserved
    <3>. QED BY <1>2, <2>1, <2>2, <2>3, <2>4, <3>1, ListedFrame
  <2>5. CASE here.kind \notin {"boards", "folders"} BY <2>2, <2>5 DEF Listed
  <2>. QED BY <2>4, <2>5
<1>6. CASE Answered(k)
  <2>1. /\ UNCHANGED <<tables, here, asks>> /\ odd \subseteq odd' /\ Got(fetching, k)
        /\ failed' = failed \ {k} /\ cache' = [cache EXCEPT ![k] = <<News(fetching, k)>>]
        /\ IF Own(fetching, k)
           THEN shown' = News(fetching, k).items /\ fresh' = {} /\ (k # here => "late" \in odd')
           ELSE UNCHANGED <<shown, fresh>>
    BY <1>1, <1>6, AnsweredIs
  <2>2. UNCHANGED <<boards, folders>> BY <2>1 DEF tables
  <2>3. \A j \in Key : cache'[j] = IF j = k THEN <<News(fetching, k)>> ELSE cache[j]
    BY <1>1, <2>1, TypeFacts DEF Caches
  <2>4. On(fetching, k) BY <2>1 DEF Got
  <2>5. CASE here.kind \notin {"boards", "folders"} BY <2>1, <2>5 DEF Listed
  <2>6. CASE here.kind \in {"boards", "folders"} /\ k = here
    <3>1. Own(fetching, k) \/ ~Plain' BY <1>1, <2>1, <2>4, <2>6 DEF Mine, Plain
    <3>2. CASE ~Plain' BY <3>2 DEF Listed
    <3>3. CASE Own(fetching, k)
      <4>1. /\ cache'[here'] # <<>> /\ shown' = cache'[here'][1].items
        BY <2>1, <2>3, <2>6, <3>3
      <4>. QED BY <4>1 DEF Listed, Known
    <3>. QED BY <3>1, <3>2, <3>3
  <2>7. CASE here.kind \in {"boards", "folders"} /\ k # here
    <3>1. CASE Own(fetching, k)
      <4>1. ~Plain' BY <2>1, <2>7, <3>1 DEF Plain
      <4>. QED BY <4>1 DEF Listed
    <3>2. CASE ~Own(fetching, k)
      <4>1. here \in Key /\ cache'[here] = cache[here] BY <1>2, <2>3, <2>7
      <4>2. On(fetching, here) => On(fetching', here) BY <1>1, <1>6, <2>7, <4>1, AnsweredIs DEF Same
      <4>3. here \notin failed' => here \notin failed BY <2>1, <2>7
      <4>4. \A x : Removing(x) => Removing(x)' BY <2>1 DEF Removing, Unserved
      <4>5. UNCHANGED <<here, shown, fresh, boards, folders>> BY <2>1, <2>2, <3>2
      <4> SUFFICES ASSUME Plain', here \notin failed', ~On(fetching', here)
                   PROVE  /\ cache[here] # <<>> /\ shown \subseteq cache[here][1].items \cup fresh
                          /\ \A x \in (cache[here][1].items \ shown) \cap (Range(boards) \cup Range(folders)) : Removing(x)'
        BY <4>1, <4>5 DEF Listed, Known
      <4>6. Plain BY <2>1, PlainBefore
      <4>. QED BY <2>7, <4>2, <4>3, <4>4, <4>6 DEF Listed, Known
    <3>. QED BY <3>1, <3>2
  <2>. QED BY <2>5, <2>6, <2>7
<1>7. CASE FetchFails(k)
  <2>1. UNCHANGED <<tables, page, cache, asks, odd>> /\ failed' = failed \cup {k} BY <1>1, <1>7, FetchFailsIs
  <2>2. UNCHANGED <<boards, folders, here, shown, fresh>> BY <2>1 DEF tables, page
  <2>3. here \in Key \ {k} => (On(fetching, here) => On(fetching', here)) BY <1>1, <1>7, FetchFailsIs DEF Same
  <2>4. CASE here.kind \in {"boards", "folders"}
    <3>1. \A x : Removing(x) => Removing(x)' BY <2>1 DEF Removing, Unserved
    <3>2. On(fetching, here) => On(fetching', here) \/ here \in failed' BY <1>2, <2>1, <2>3, <2>4
    <3>. QED BY <2>1, <2>2, <2>4, <3>1, <3>2, ListedFrame
  <2>5. CASE here.kind \notin {"boards", "folders"} BY <2>2, <2>5 DEF Listed
  <2>. QED BY <2>4, <2>5
<1>8. ASSUME NEW n \in 1 .. MaxPage, TurnPage(n) PROVE Listed'
  <2>1. here' = Boards(n) /\ Boards(n) \in Key BY <1>1, <1>8, TurnPageIs, FirstPage
  <2>2. On(fetching', Boards(n)) BY <1>1, <1>8, <2>1, TurnPageIs DEF Same
  <2>. QED BY <2>1, <2>2 DEF Listed
<1>. QED BY <1>3, <1>4, <1>5, <1>6, <1>7, <1>8 DEF QueryStep

(* Steps of the lists keep it.                                             *)
LEMMA ListedLists ==
  ASSUME LibraryAssumption, Sound, Listed, ListStep
  PROVE  Listed'
<1>1. TypeOK /\ Rows /\ Items /\ Asked /\ Seen BY DEF Sound
<1>2. Board \cap Folder = {} /\ Range(boards) \subseteq Board /\ Range(folders) \subseteq Folder
  BY <1>1, TypeFacts DEF LibraryAssumption
<1>3. ASSUME NEW b \in Board, RemoveBoard(b) PROVE Listed'
  <2>1. UNCHANGED <<tables, page, query, odd>> /\ \E c : Sends("delete", b, c) BY <1>1, <1>3, RemoveBoardIs
  <2>2. UNCHANGED <<boards, folders, here, shown, fresh, cache, failed, fetching>> BY <2>1 DEF tables, page, query
  <2>3. \A x : Removing(x) => Removing(x)' BY <2>1 DEF Removing, Sends
  <2>. QED BY <2>1, <2>2, <2>3, ListedFrame
<1>4. ASSUME NEW b \in Board, BoardDeleted(b) PROVE Listed'
  <2>1. Drop(b) /\ UNCHANGED <<page, query, asks, odd>> BY <1>1, <1>4, BoardDeletedIs
  <2>2. UNCHANGED folders /\ Range(boards') \subseteq Range(boards) BY <1>1, <2>1, DropIs
  <2>3. UNCHANGED <<here, shown, fresh, cache, failed, fetching>> BY <2>1 DEF page, query
  <2>4. \A x : Removing(x) => Removing(x)' BY <2>1 DEF Removing, Unserved
  <2>. QED BY <2>1, <2>2, <2>3, <2>4, ListedFrame
<1>5. ASSUME NEW f \in Folder, RemoveFolder(f) PROVE Listed'
  <2>1. /\ UNCHANGED <<tables, here, query>> /\ odd \subseteq odd'
        /\ shown' = shown \ (IF f \in fresh THEN fresh ELSE {f})
        /\ fresh' = IF f \in fresh THEN {} ELSE fresh
        /\ f \in fresh /\ fresh # {f} => "alike" \in odd'
        /\ \E c : Sends("remove", f, c)
    BY <1>1, <1>5, RemoveFolderIs
  <2>2. UNCHANGED <<boards, folders, cache, failed, fetching>> BY <2>1 DEF tables, query
  <2>3. (\A x : Removing(x) => Removing(x)') /\ Removing(f)'
    <3>1. PICK c : Sends("remove", f, c) BY <2>1
    <3>2. Unserved("remove")' = Unserved("remove") \cup {c} /\ c.item = f BY <3>1 DEF Sends
    <3>. QED BY <3>2 DEF Removing
  <2> SUFFICES ASSUME Plain', here.kind \in {"boards", "folders"}, here \notin failed, ~On(fetching, here)
               PROVE  /\ Known(here) /\ shown' \subseteq cache[here][1].items \cup fresh'
                      /\ \A x \in (cache[here][1].items \ shown') \cap (Range(boards) \cup Range(folders)) : Removing(x)'
    BY <2>1, <2>2 DEF Listed, Known
  <2>4. Plain BY <2>1, PlainBefore
  <2>5. f \in fresh => fresh = {f} BY <2>1 DEF Plain
  <2>6. shown' = shown \ {f} /\ fresh \subseteq fresh' \cup {f} BY <2>1, <2>5
  <2>. QED BY <2>3, <2>4, <2>6 DEF Listed
<1>6. ASSUME NEW f \in Folder, Create(f) PROVE Listed'
  <2>1. UNCHANGED <<tables, page, query, odd>> /\ \E c : Sends("create", f, c) BY <1>1, <1>6, CreateIs
  <2>2. UNCHANGED <<boards, folders, here, shown, fresh, cache, failed, fetching>> BY <2>1 DEF tables, page, query
  <2>3. \A x : Removing(x) => Removing(x)' BY <2>1 DEF Removing, Sends
  <2>. QED BY <2>1, <2>2, <2>3, ListedFrame
<1>7. ASSUME NEW a \in asks, DeleteRoom(a) PROVE Listed'
  <2>1. /\ Serves(a, "delete") /\ UNCHANGED <<page, query>> /\ odd \subseteq odd'
        /\ \/ Drop(a.item)
           \/ UNCHANGED tables
    BY <1>1, <1>7, DeleteRoomIs
  <2>2. UNCHANGED folders /\ Range(boards') \subseteq Range(boards) BY <1>1, <2>1, DropIs DEF tables
  <2>3. UNCHANGED <<here, shown, fresh, cache, failed, fetching>> BY <2>1 DEF page, query
  <2>4. \A x : Removing(x) => Removing(x)' BY <2>1 DEF Removing, Serves, Unserved
  <2>. QED BY <2>1, <2>2, <2>3, <2>4, ListedFrame
<1>8. ASSUME NEW a \in asks, BoardRemoved(a) PROVE Listed'
  <2>1. /\ Ends(a, "delete") /\ a.item \in Board /\ UNCHANGED <<tables, here, fresh, query, odd>>
        /\ shown' = IF a.mine THEN shown \ {a.item} ELSE shown
    BY <1>1, <1>8, BoardRemovedIs
  <2>2. UNCHANGED <<boards, folders, cache, failed, fetching>> BY <2>1 DEF tables, query
  <2>3. \A x : Removing(x) => Removing(x)' BY <2>1 DEF Removing, Ends
  <2>4. a.item \notin Range(boards) \cup Range(folders) \/ ~Plain
    BY <1>1, <1>2, <2>1 DEF Asked, Ends, Plain
  <2> SUFFICES ASSUME Plain', here.kind \in {"boards", "folders"}, here \notin failed, ~On(fetching, here)
               PROVE  /\ Known(here) /\ shown' \subseteq cache[here][1].items \cup fresh
                      /\ \A x \in (cache[here][1].items \ shown') \cap (Range(boards) \cup Range(folders)) : Removing(x)'
    BY <2>1, <2>2 DEF Listed, Known
  <2>5. Plain BY <2>1, PlainBefore
  <2>. QED BY <2>1, <2>3, <2>4, <2>5 DEF Listed
<1>9. ASSUME NEW a \in asks, DeleteFolder(a) PROVE Listed'
  <2>1. /\ Serves(a, "remove") /\ a.item \in Folder /\ UNCHANGED <<page, query, boards>> /\ odd \subseteq odd'
        /\ Range(folders') = Range(folders) \ {a.item} \/ (UNCHANGED tables /\ "failed" \in odd')
    BY <1>1, <1>9, DeleteFolderIs
  <2>2. UNCHANGED <<here, shown, fresh, cache, failed, fetching>> BY <2>1 DEF page, query
  <2>3. CASE "failed" \in odd' BY <2>3 DEF Listed, Plain
  <2>4. CASE Range(folders') = Range(folders) \ {a.item}
    <3>1. \A x \in Range(boards') \cup Range(folders') : x # a.item BY <1>2, <2>1, <2>4
    <3>2. \A x : x # a.item /\ Removing(x) => Removing(x)' BY <2>1 DEF Removing, Serves
    <3>. QED BY <2>1, <2>2, <2>4, <3>1, <3>2, ListedFrame
  <2>. QED BY <2>1, <2>3, <2>4
<1>10. ASSUME NEW a \in asks, FolderRemoved(a) PROVE Listed'
  <2>1. (\E do \in {"remove", "save"} : Ends(a, do)) /\ UNCHANGED <<tables, page, query, odd>>
    BY <1>1, <1>10, OverIs
  <2>2. UNCHANGED <<boards, folders, here, shown, fresh, cache, failed, fetching>> BY <2>1 DEF tables, page, query
  <2>3. \A x : Removing(x) => Removing(x)' BY <2>1 DEF Removing, Ends
  <2>. QED BY <2>1, <2>2, <2>3, ListedFrame
<1>11. ASSUME NEW a \in asks, CreateFolder(a) PROVE Listed'
  <2>1. a.item \notin ever
    <3>1. a \in Unserved("create") BY <1>11 DEF CreateFolder, Sent, Unserved
    <3>. QED BY <1>1, <3>1 DEF Asked
  <2>2. /\ Serves(a, "create") /\ a.item \in Folder /\ Range(folders') = Range(folders) \cup {a.item}
        /\ UNCHANGED <<boards, page, query, odd>>
    BY <1>1, <1>11, <2>1, CreateFolderIs
  <2>3. UNCHANGED <<here, shown, fresh, cache, failed, fetching>> BY <2>2 DEF page, query
  <2>4. \A x : Removing(x) => Removing(x)' BY <2>2 DEF Removing, Serves, Unserved
  <2> SUFFICES ASSUME Plain, here.kind \in {"boards", "folders"}, here \notin failed, ~On(fetching, here)
               PROVE  /\ Known(here) /\ shown \subseteq cache[here][1].items \cup fresh
                      /\ \A x \in (cache[here][1].items \ shown) \cap (Range(boards) \cup Range(folders')) : Removing(x)'
    BY <2>2, <2>3 DEF Listed, Known, Plain
  <2>5. Known(here) /\ here \in Key BY <1>1, HereIs DEF Listed
  <2>6. a.item \notin cache[here][1].items BY <1>1, <2>1, <2>2, <2>5 DEF Seen
  <2>. QED BY <2>2, <2>4, <2>5, <2>6 DEF Listed
<1>12. ASSUME NEW a \in asks, FolderCreated(a) PROVE Listed'
  <2>1. /\ Ends(a, "create") /\ UNCHANGED <<tables, here, query, odd>>
        /\ IF a.mine THEN shown' = shown \cup {a.item} /\ fresh' = fresh \cup {a.item} ELSE UNCHANGED <<shown, fresh>>
    BY <1>1, <1>12, FolderCreatedIs
  <2>2. UNCHANGED <<boards, folders, cache, failed, fetching>> BY <2>1 DEF tables, query
  <2>3. \A x : Removing(x) => Removing(x)' BY <2>1 DEF Removing, Ends
  <2> SUFFICES ASSUME Plain, here.kind \in {"boards", "folders"}, here \notin failed, ~On(fetching, here)
               PROVE  /\ Known(here) /\ shown' \subseteq cache[here][1].items \cup fresh'
                      /\ \A x \in (cache[here][1].items \ shown') \cap (Range(boards) \cup Range(folders)) : Removing(x)'
    BY <2>1, <2>2 DEF Listed, Known, Plain
  <2>. QED BY <2>1, <2>3 DEF Listed
<1>. QED BY <1>3, <1>4, <1>5, <1>6, <1>7, <1>8, <1>9, <1>10, <1>11, <1>12 DEF ListStep

(* Steps of the folder page keep it.                                       *)
LEMMA ListedFolders ==
  ASSUME LibraryAssumption, Sound, Listed, FolderStep
  PROVE  Listed'
<1>1. TypeOK /\ Rows /\ Items /\ Contents BY DEF Sound
<1>2. ASSUME NEW b \in Board, Put(b) \/ Take(b) PROVE Listed'
  <2>1. here.kind = "open" /\ here' = here BY <1>1, <1>2, PutIs, TakeIs
  <2>. QED BY <2>1, ListedElse
<1>3. CASE Save
  <2>1. here.kind = "open" /\ UNCHANGED page BY <1>1, <1>3, SaveIs
  <2>. QED BY <2>1, ListedElse DEF page
<1>4. ASSUME NEW a \in asks, UpdateFolder(a) \/ UpdateFails(a) \/ UpdateRefused(a) PROVE Listed'
  <2>1. Serves(a, "save") /\ odd \subseteq odd' /\ UNCHANGED <<boards, folders, page, query>>
    BY <1>1, <1>4, UpdateFolderIs, UpdateFailsIs, UpdateRefusedIs DEF tables
  <2>2. UNCHANGED <<here, shown, fresh, cache, failed, fetching>> BY <2>1 DEF page, query
  <2>3. \A x : Removing(x) => Removing(x)' BY <2>1 DEF Removing, Serves, Unserved
  <2>. QED BY <2>1, <2>2, <2>3, ListedFrame
<1>5. ASSUME NEW a \in asks, Saved(a) PROVE Listed'
  <2>1. (\E do \in {"remove", "save"} : Ends(a, do)) /\ UNCHANGED <<tables, page, query, odd>>
    BY <1>1, <1>5, OverIs
  <2>2. UNCHANGED <<boards, folders, here, shown, fresh, cache, failed, fetching>> BY <2>1 DEF tables, page, query
  <2>3. \A x : Removing(x) => Removing(x)' BY <2>1 DEF Removing, Ends
  <2>. QED BY <2>1, <2>2, <2>3, ListedFrame
<1>. QED BY <1>2, <1>3, <1>4, <1>5 DEF FolderStep

(* Every step keeps it.                                                    *)
LEMMA ListedStays ==
  ASSUME LibraryAssumption, Sound, Listed, [Next]_vars PROVE Listed'
<1>1. ASSUME NEW k \in Key, QueryStep(k) PROVE Listed' BY <1>1, ListedQueries
<1>2. CASE ListStep BY <1>2, ListedLists
<1>3. CASE FolderStep BY <1>3, ListedFolders
<1>4. CASE Next BY <1>1, <1>2, <1>3, <1>4, Steps
<1>5. CASE UNCHANGED vars
  <2>1. UNCHANGED <<boards, folders, here, shown, fresh, cache, failed, fetching, asks, odd>> BY <1>5, Idle
  <2>2. \A x : Removing(x) => Removing(x)' BY <2>1 DEF Removing, Unserved
  <2>. QED BY <2>1, <2>2, ListedFrame
<1>. QED BY <1>4, <1>5

(* It holds always.                                                        *)
LEMMA AlwaysListed == Spec => []Listed
<1>1. Init => Listed BY DEF Init, Listed, Away
<1>2. Sound /\ Listed /\ [Next]_vars => Listed' BY LibraryAssumption, ListedStays
<1>. QED BY <1>1, <1>2, AlwaysSound, PTL DEF Spec

(* When everything is answered, a list shows what was fetched for its page *)
(* and not removed since, unless an answer came late, a fetch of an        *)
(* earlier visit was joined, or two new folders went together.             *)
THEOREM ListHolds == Spec => []ListShown
<1>1. Sound /\ Listed => ListShown
  <2> SUFFICES ASSUME Sound, Listed, here.kind \in {"boards", "folders"}, here \notin failed, asks = {},
                      \A k \in Key : fetching[k] = <<>>,
                      odd \cap {"late", "joined", "failed", "alike"} = {}
               PROVE  /\ shown \subseteq cache[here][1].items \cup fresh
                      /\ (cache[here][1].items \ shown) \cap (Range(boards) \cup Range(folders)) = {}
    BY DEF ListShown
  <2>1. here \in Key BY LibraryAssumption, HereIs DEF Sound
  <2>2. ~On(fetching, here) BY <2>1 DEF On
  <2>3. \A x : ~Removing(x) BY DEF Removing, Unserved
  <2>. QED BY <2>2, <2>3 DEF Listed, Plain
<1>. QED BY <1>1, AlwaysSound, AlwaysListed, PTL

----------------------------------------------------------------------------
(* What folders have.                                                      *)

Fair == odd \cap {"again", "blank", "unread", "shared", "failed", "crossed", "joined", "long"} = {}

(* A folder that is not being saved has what the user has put into it.     *)
InPlace == \A f \in Folder : Saving(f) = {} => inFolder[f] = wanted[f] \cap Range(boards)

(* A save makes it so; there is one of a folder, and it keeps the title.   *)
OnTheWay ==
  /\ \A a \in Unserved("save") : a.item \in Range(folders) =>
       /\ a.named
       /\ a.add \subseteq Range(boards) =>
            (inFolder[a.item] \cup a.add) \ a.drop = wanted[a.item] \cap Range(boards)
  /\ \A a, b \in Unserved("save") : a.item = b.item => a = b

Titles == Range(folders) \subseteq named

(* An answer that the page waits for is what the folder has.               *)
Answers ==
  \A f \in Folder : f \in Range(folders) /\ Got(fetching, Open(f)) /\ Own(fetching, Open(f)) =>
    /\ News(fetching, Open(f)).items \cap Range(boards) = inFolder[f]
    /\ News(fetching, Open(f)).named

(* A folder that was read and not saved shows what it had then and the     *)
(* edits since, and has it still.                                          *)
Reading ==
  here.kind = "open" /\ here \notin failed /\ ~On(fetching, here) =>
    /\ Known(here)
    /\ here.f \notin dirty => shown = (cache[here][1].items \cup put) \ taken /\ Saving(here.f) = {}
    /\ here.f \in Range(folders) =>
         /\ title
         /\ here.f \notin dirty => cache[here][1].items \cap Range(boards) = inFolder[here.f]

Kept == Fair => InPlace /\ OnTheWay /\ Titles /\ Answers /\ Reading

(* What was odd stays so.                                                  *)
LEMMA FairBefore == ASSUME odd \subseteq odd', Fair' PROVE Fair
BY DEF Fair

(* Rows and saves are left alone.                                          *)
LEMMA SavesFrame ==
  ASSUME InPlace, OnTheWay, Titles, UNCHANGED <<boards, folders, inFolder, named, wanted>>,
         Unserved("save")' = Unserved("save")
  PROVE  InPlace' /\ OnTheWay' /\ Titles'
<1>1. \A f : Saving(f)' = Saving(f) BY DEF Saving
<1>2. InPlace' BY <1>1 DEF InPlace
<1>3. OnTheWay' BY DEF OnTheWay
<1>4. Titles' BY DEF Titles
<1>. QED BY <1>2, <1>3, <1>4

(* No answer is new.                                                       *)
LEMMA AnswersFrame ==
  ASSUME Answers, UNCHANGED <<boards, folders, inFolder>>,
         \A f \in Folder : f \in Range(folders) /\ Got(fetching', Open(f)) /\ Own(fetching', Open(f)) =>
           Got(fetching, Open(f)) /\ Own(fetching, Open(f)) /\ News(fetching', Open(f)) = News(fetching, Open(f))
  PROVE  Answers'
BY DEF Answers

(* The folder page is left alone.                                          *)
LEMMA ReadingFrame ==
  ASSUME Reading, UNCHANGED <<boards, folders, inFolder, here, shown, title, cache, put, taken, dirty>>,
         here \notin failed' => here \notin failed, On(fetching, here) => On(fetching', here) \/ here \in failed',
         Unserved("save")' = Unserved("save")
  PROVE  Reading'
<1>1. \A f : Saving(f)' = Saving(f) BY DEF Saving
<1>. QED BY <1>1 DEF Reading, Known

(* ... or it is not open.                                                  *)
LEMMA ReadingElse == ASSUME here'.kind # "open" \/ On(fetching', here') PROVE Reading'
BY DEF Reading

(* Steps of the queries keep it.                                           *)
LEMMA KeptQueries ==
  ASSUME LibraryAssumption, Sound, Kept, NEW k \in Key, QueryStep(k)
  PROVE  Kept'
<1>1. TypeOK /\ Rows /\ Mine BY DEF Sound
<1>2. odd \subseteq odd' /\ UNCHANGED tables
  BY <1>1, VisitIs, RefocusIs, ServeIs, AnsweredIs, FetchFailsIs, TurnPageIs DEF QueryStep
<1> SUFFICES ASSUME Fair' PROVE InPlace' /\ OnTheWay' /\ Titles' /\ Answers' /\ Reading'
  BY DEF Kept
<1>3. Fair BY <1>2, FairBefore
<1>4. InPlace /\ OnTheWay /\ Titles /\ Answers /\ Reading BY <1>3 DEF Kept
<1>5. UNCHANGED <<boards, folders, inFolder, named, ever>> BY <1>2 DEF tables
<1>6. here.kind = "open" => here \in Key /\ here.f \in Folder /\ here = Open(here.f) BY <1>1, HereIs
<1>7. CASE Visit(k)
  <2>1. /\ here' = k /\ On(fetching', k) /\ wanted' = wanted
        /\ asks' = {[a EXCEPT !.mine = FALSE] : a \in asks}
        /\ \A j \in Key : ~(Own(fetching', j) /\ Got(fetching', j))
    BY <1>1, <1>7, VisitIs DEF Got
  <2>2. /\ \A b \in Unserved("save")' : \E a \in Unserved("save") : SameAsk(a, b) /\ b = [a EXCEPT !.mine = FALSE]
        /\ \A a \in Unserved("save") : \E b \in Unserved("save")' : SameAsk(a, b)
    BY <1>1, <2>1, UnservedLeft
  <2>3. InPlace'
    <3>1. \A f \in Folder : Saving(f)' = {} => Saving(f) = {} BY <2>2 DEF Saving, SameAsk
    <3>. QED BY <1>4, <1>5, <2>1, <3>1 DEF InPlace
  <2>4. OnTheWay'
    <3>1. ASSUME NEW b \in Unserved("save")', b.item \in Range(folders)
          PROVE  /\ b.named
                 /\ b.add \subseteq Range(boards) =>
                      (inFolder[b.item] \cup b.add) \ b.drop = wanted[b.item] \cap Range(boards)
      <4>1. PICK a \in Unserved("save") : SameAsk(a, b) BY <2>2
      <4>. QED BY <1>4, <3>1, <4>1 DEF OnTheWay, SameAsk
    <3>2. ASSUME NEW b \in Unserved("save")', NEW c \in Unserved("save")', b.item = c.item PROVE b = c
      <4>1. PICK a \in Unserved("save") : a.item = b.item /\ b = [a EXCEPT !.mine = FALSE] BY <2>2 DEF SameAsk
      <4>2. PICK d \in Unserved("save") : d.item = c.item /\ c = [d EXCEPT !.mine = FALSE] BY <2>2 DEF SameAsk
      <4>3. a = d BY <1>4, <3>2, <4>1, <4>2 DEF OnTheWay
      <4>. QED BY <4>1, <4>2, <4>3
    <3>. QED BY <1>5, <2>1, <3>1, <3>2 DEF OnTheWay
  <2>5. Titles' BY <1>4, <1>5 DEF Titles
  <2>6. Answers' BY <2>1, OpenIs DEF Answers
  <2>. QED BY <2>1, <2>3, <2>4, <2>5, <2>6, ReadingElse
<1>8. ASSUME UNCHANGED <<wanted, asks>> PROVE InPlace' /\ OnTheWay' /\ Titles'
  <2>1. Unserved("save")' = Unserved("save") BY <1>8 DEF Unserved
  <2>. QED BY <1>4, <1>5, <1>8, <2>1, SavesFrame
<1>9. CASE Refocus
  <2>1. here \in Key /\ UNCHANGED <<page, wanted, asks>> /\ On(fetching', here) BY <1>1, <1>9, RefocusIs DEF Same
  <2>2. here' = here BY <2>1 DEF page
  <2>3. \A j \in Key : Got(fetching', j) => Got(fetching, j) /\ Own(fetching', j) = Own(fetching, j)
                                            /\ News(fetching', j) = News(fetching, j)
    BY <1>1, <1>9, RefocusIs DEF Same, Got
  <2>4. Answers' BY <1>4, <1>5, <2>3, OpenIs, AnswersFrame
  <2>. QED BY <1>8, <2>1, <2>2, <2>4, ReadingElse
<1>10. ASSUME NEW n \in 1 .. MaxPage, TurnPage(n) PROVE InPlace' /\ OnTheWay' /\ Titles' /\ Answers' /\ Reading'
  <2>1. here' = Boards(n) /\ UNCHANGED <<wanted, asks>> BY <1>1, <1>10, TurnPageIs
  <2>2. here'.kind # "open" BY <2>1 DEF Boards
  <2>3. \A j \in Key : Got(fetching', j) => Got(fetching, j) /\ Own(fetching', j) = Own(fetching, j)
                                            /\ News(fetching', j) = News(fetching, j)
    BY <1>1, <1>10, TurnPageIs DEF Same, Got
  <2>4. Answers' BY <1>4, <1>5, <2>3, OpenIs, AnswersFrame
  <2>. QED BY <1>8, <2>1, <2>2, <2>4, ReadingElse
<1>11. CASE Serve(k)
  <2>1. UNCHANGED <<page, cache, failed, asks, edits, wanted>> BY <1>1, <1>11, ServeIs
  <2>2. UNCHANGED <<here, shown, title, put, taken, dirty>> BY <2>1 DEF page, edits
  <2>3. \A j \in Key : On(fetching, j) => On(fetching', j) BY <1>1, <1>11, ServeIs DEF Same
  <2>4. ASSUME NEW f \in Folder, f \in Range(folders), Got(fetching', Open(f)), Own(fetching', Open(f))
        PROVE  /\ News(fetching', Open(f)).items \cap Range(boards) = inFolder[f]
               /\ News(fetching', Open(f)).named
    <3>1. Open(f) \in Key /\ Open(f).kind = "open" /\ Open(f).f = f BY OpenIs
    <3>2. CASE Open(f) = k
      <4>1. News(fetching', Open(f)) = [items |-> inFolder[f], named |-> f \in named]
        BY <1>1, <1>11, <3>1, <3>2, ServeIs, AnswerIs
      <4>2. inFolder[f] \subseteq Range(boards) /\ f \in named BY <1>1, <1>4, <2>4 DEF Rows, Titles
      <4>3. News(fetching', Open(f)).items = inFolder[f] /\ News(fetching', Open(f)).named = (f \in named) BY <4>1
      <4>. QED BY <4>2, <4>3
    <3>3. CASE Open(f) # k
      <4>1. Same(fetching, fetching', Open(f)) BY <1>1, <1>11, <3>1, <3>3, ServeIs
      <4>. QED BY <1>4, <2>4, <4>1 DEF Same, Answers
    <3>. QED BY <3>2, <3>3
  <2>5. Answers' BY <1>5, <2>4 DEF Answers
  <2>6. Reading'
    <3>1. CASE here.kind = "open"
      <4>1. Unserved("save")' = Unserved("save") BY <2>1 DEF Unserved
      <4>. QED BY <1>4, <1>5, <1>6, <2>1, <2>2, <2>3, <3>1, <4>1, ReadingFrame
    <3>2. CASE here.kind # "open" BY <2>2, <3>2, ReadingElse
    <3>. QED BY <3>1, <3>2
  <2>. QED BY <1>8, <2>1, <2>5, <2>6
<1>12. CASE FetchFails(k)
  <2>1. UNCHANGED <<page, cache, asks, edits, wanted>> /\ failed' = failed \cup {k} BY <1>1, <1>12, FetchFailsIs
  <2>2. UNCHANGED <<here, shown, title, put, taken, dirty>> BY <2>1 DEF page, edits
  <2>3. \A j \in Key : On(fetching, j) => On(fetching', j) \/ j \in failed'
    BY <1>1, <1>12, <2>1, FetchFailsIs DEF Same
  <2>4. \A j \in Key : Got(fetching', j) => Got(fetching, j) /\ Own(fetching', j) = Own(fetching, j)
                                            /\ News(fetching', j) = News(fetching, j)
    BY <1>1, <1>12, FetchFailsIs DEF Same
  <2>5. Answers' BY <1>4, <1>5, <2>4, OpenIs, AnswersFrame
  <2>6. Reading'
    <3>1. CASE here.kind = "open"
      <4>1. Unserved("save")' = Unserved("save") BY <2>1 DEF Unserved
      <4>. QED BY <1>4, <1>5, <1>6, <2>1, <2>2, <2>3, <3>1, <4>1, ReadingFrame
    <3>2. CASE here.kind # "open" BY <2>2, <3>2, ReadingElse
    <3>. QED BY <3>1, <3>2
  <2>. QED BY <1>8, <2>1, <2>5, <2>6
<1>13. CASE Answered(k)
  <2>1. /\ UNCHANGED <<here, asks, put, taken, wanted>> /\ Got(fetching, k)
        /\ failed' = failed \ {k} /\ cache' = [cache EXCEPT ![k] = <<News(fetching, k)>>]
        /\ dirty' = dirty \ {k.f}
        /\ IF Own(fetching, k)
           THEN /\ shown' = News(fetching, k).items /\ title' = News(fetching, k).named
                /\ put \cup taken # {} => "unread" \in odd'
                /\ (\E a \in asks : a.do = "save" /\ a.answer = "none" /\ Open(a.item) = k) => "crossed" \in odd'
           ELSE UNCHANGED <<shown, title>>
    BY <1>1, <1>13, AnsweredIs
  <2>2. On(fetching, k) BY <2>1 DEF Got
  <2>3. \A j \in Key : cache'[j] = IF j = k THEN <<News(fetching, k)>> ELSE cache[j]
    BY <1>1, <2>1, TypeFacts DEF Caches
  <2>4. \A j \in Key : Got(fetching', j) => Got(fetching, j) /\ Own(fetching', j) = Own(fetching, j)
                                            /\ News(fetching', j) = News(fetching, j)
    BY <1>1, <1>13, AnsweredIs DEF Same, Got
  <2>5. Answers' BY <1>4, <1>5, <2>4, OpenIs, AnswersFrame
  <2>6. CASE here.kind # "open" BY <1>8, <2>1, <2>5, <2>6, ReadingElse
  <2>7. CASE here.kind = "open" /\ k = here
    <3>1. Own(fetching, k) BY <1>1, <1>3, <2>2, <2>7 DEF Mine, Fair
    <3>2. put = {} /\ taken = {} BY <2>1, <3>1 DEF Fair
    <3>3. Saving(here.f)' = {}
      <4>1. \A a \in asks : ~(a.do = "save" /\ a.answer = "none" /\ Open(a.item) = k) BY <2>1, <3>1 DEF Fair
      <4>. QED BY <1>6, <2>1, <2>7, <4>1 DEF Saving, Unserved
    <3>4. cache'[here] = <<News(fetching, k)>> /\ cache'[here] # <<>> /\ cache'[here][1] = News(fetching, k)
      BY <1>6, <2>3, <2>7
    <3>5. here.f \in Range(folders) => /\ News(fetching, k).items \cap Range(boards) = inFolder[here.f]
                                       /\ News(fetching, k).named
      BY <1>4, <1>6, <2>1, <2>7, <3>1 DEF Answers
    <3>6. shown' = News(fetching, k).items /\ title' = News(fetching, k).named BY <2>1, <3>1
    <3>7. Reading' BY <1>5, <2>1, <3>2, <3>3, <3>4, <3>5, <3>6 DEF Reading, Known
    <3>. QED BY <1>8, <2>1, <2>5, <3>7
  <2>8. CASE here.kind = "open" /\ k # here
    <3>1. ~Own(fetching, k) BY <1>1, <2>2, <2>8 DEF Mine
    <3>2. here.f # k.f
      <4>1. k.kind = "open" => k = Open(k.f) BY KeyIs
      <4>2. k.kind # "open" => k.f \notin Folder BY KeyIs DEF LibraryAssumption
      <4>. QED BY <1>6, <2>8, <4>1, <4>2
    <3>3. cache'[here] = cache[here] BY <1>6, <2>3, <2>8
    <3>4. On(fetching, here) => On(fetching', here) BY <1>1, <1>6, <1>13, <2>8, AnsweredIs DEF Same
    <3>5. UNCHANGED <<shown, title>> /\ (here \notin failed' => here \notin failed)
          /\ (here.f \in dirty' <=> here.f \in dirty)
      BY <2>1, <2>8, <3>1, <3>2
    <3>6. \A f : Saving(f)' = Saving(f) BY <2>1 DEF Saving, Unserved
    <3>7. Reading' BY <1>4, <1>5, <2>1, <3>3, <3>4, <3>5, <3>6 DEF Reading, Known
    <3>. QED BY <1>8, <2>1, <2>5, <3>7
  <2>. QED BY <2>6, <2>7, <2>8
<1>. QED BY <1>7, <1>9, <1>10, <1>11, <1>12, <1>13 DEF QueryStep

(* Folders, what is fetched and an open folder are left alone.             *)
LEMMA KeptSame ==
  ASSUME Kept, odd \subseteq odd', UNCHANGED <<tables, here, title, query, edits, wanted>>,
         here.kind = "open" => shown' = shown, Unserved("save")' = Unserved("save")
  PROVE  Kept'
<1> SUFFICES ASSUME Fair' PROVE InPlace' /\ OnTheWay' /\ Titles' /\ Answers' /\ Reading'
  BY DEF Kept
<1>1. Fair BY FairBefore
<1>2. InPlace /\ OnTheWay /\ Titles /\ Answers /\ Reading BY <1>1 DEF Kept
<1>3. UNCHANGED <<boards, folders, inFolder, named, cache, failed, fetching, put, taken, dirty>>
  BY DEF tables, query, edits
<1>4. InPlace' /\ OnTheWay' /\ Titles' BY <1>2, <1>3, SavesFrame
<1>5. Answers' BY <1>2, <1>3, AnswersFrame
<1>6. CASE here.kind = "open" BY <1>2, <1>3, <1>4, <1>5, <1>6, ReadingFrame
<1>7. CASE here.kind # "open" BY <1>4, <1>5, <1>7, ReadingElse
<1>. QED BY <1>6, <1>7

(* A board goes: from the folders too, and nobody has it any more.         *)
LEMMA KeptDrop ==
  ASSUME LibraryAssumption, TypeOK, Rows, Kept, odd \subseteq odd', NEW b, Drop(b),
         UNCHANGED <<page, query, edits, wanted>>, Unserved("save")' = Unserved("save")
  PROVE  Kept'
<1> SUFFICES ASSUME Fair' PROVE InPlace' /\ OnTheWay' /\ Titles' /\ Answers' /\ Reading'
  BY DEF Kept
<1>1. Fair BY FairBefore
<1>2. InPlace /\ OnTheWay /\ Titles /\ Answers /\ Reading BY <1>1 DEF Kept
<1>3. UNCHANGED <<here, shown, title, cache, failed, fetching, put, taken, dirty>>
  BY DEF page, query, edits
<1>4. /\ UNCHANGED <<folders, named>> /\ Range(boards') = Range(boards) \ {b}
      /\ \A f \in Folder : inFolder'[f] = inFolder[f] \ {b}
  BY DropIs
<1>5. \A f : Saving(f)' = Saving(f) BY DEF Saving
<1>6. InPlace'
  <2> SUFFICES ASSUME NEW f \in Folder, Saving(f) = {} PROVE inFolder'[f] = wanted[f] \cap Range(boards')
    BY <1>5 DEF InPlace
  <2>1. inFolder[f] = wanted[f] \cap Range(boards) BY <1>2 DEF InPlace
  <2>. QED BY <1>4, <2>1
<1>7. OnTheWay'
  <2>1. ASSUME NEW a \in Unserved("save"), a.item \in Range(folders)
        PROVE  /\ a.named
               /\ a.add \subseteq Range(boards') =>
                    (inFolder'[a.item] \cup a.add) \ a.drop = wanted[a.item] \cap Range(boards')
    <3>1. a.item \in Folder BY <2>1, TypeFacts
    <3>2. a.named BY <1>2, <2>1 DEF OnTheWay
    <3>3. ASSUME a.add \subseteq Range(boards')
          PROVE  (inFolder'[a.item] \cup a.add) \ a.drop = wanted[a.item] \cap Range(boards')
      <4>1. a.add \subseteq Range(boards) /\ b \notin a.add BY <1>4, <3>3
      <4>2. (inFolder[a.item] \cup a.add) \ a.drop = wanted[a.item] \cap Range(boards)
        BY <1>2, <2>1, <4>1 DEF OnTheWay
      <4>3. inFolder'[a.item] = inFolder[a.item] \ {b} BY <1>4, <3>1
      <4>. QED BY <1>4, <4>1, <4>2, <4>3
    <3>. QED BY <3>2, <3>3
  <2>2. \A a, c \in Unserved("save") : a.item = c.item => a = c BY <1>2 DEF OnTheWay
  <2>. QED BY <1>4, <2>1, <2>2 DEF OnTheWay
<1>8. Titles' BY <1>2, <1>4 DEF Titles
<1>9. Answers'
  <2> SUFFICES ASSUME NEW f \in Folder, f \in Range(folders), Got(fetching, Open(f)), Own(fetching, Open(f))
               PROVE  /\ News(fetching, Open(f)).items \cap Range(boards') = inFolder'[f]
                      /\ News(fetching, Open(f)).named
    BY <1>3, <1>4 DEF Answers
  <2>1. /\ News(fetching, Open(f)).items \cap Range(boards) = inFolder[f]
        /\ News(fetching, Open(f)).named
    BY <1>2 DEF Answers
  <2>. QED BY <1>4, <2>1
<1>10. Reading'
  <2> SUFFICES ASSUME here.kind = "open", here \notin failed, ~On(fetching, here)
               PROVE  /\ cache[here] # <<>>
                      /\ here.f \notin dirty =>
                           shown = (cache[here][1].items \cup put) \ taken /\ Saving(here.f) = {}
                      /\ here.f \in Range(folders) =>
                           /\ title
                           /\ here.f \notin dirty => cache[here][1].items \cap Range(boards') = inFolder'[here.f]
    BY <1>3, <1>4, <1>5 DEF Reading, Known
  <2>1. here.f \in Folder BY HereIs
  <2>2. inFolder'[here.f] = inFolder[here.f] \ {b} BY <1>4, <2>1
  <2>. QED BY <1>2, <1>4, <2>2 DEF Reading, Known
<1>. QED BY <1>6, <1>7, <1>8, <1>9, <1>10

(* Steps of the lists keep it.                                             *)
LEMMA KeptLists ==
  ASSUME LibraryAssumption, Sound, Kept, ListStep
  PROVE  Kept'
<1>1. TypeOK /\ Rows /\ Items /\ Asked /\ Unborn BY DEF Sound
<1>2. ASSUME NEW b \in Board, RemoveBoard(b) PROVE Kept'
  <2>1. UNCHANGED <<tables, page, query, edits, wanted, odd>> /\ \E c : Sends("delete", b, c)
    BY <1>1, <1>2, RemoveBoardIs
  <2>2. UNCHANGED <<here, title, shown>> BY <2>1 DEF page
  <2>3. Unserved("save")' = Unserved("save") BY <2>1 DEF Sends
  <2>. QED BY <2>1, <2>2, <2>3, KeptSame
<1>3. ASSUME NEW b \in Board, BoardDeleted(b) PROVE Kept'
  <2>1. Drop(b) /\ UNCHANGED <<page, query, asks, edits, wanted, odd>> BY <1>1, <1>3, BoardDeletedIs
  <2>2. Unserved("save")' = Unserved("save") BY <2>1 DEF Unserved
  <2>. QED BY <1>1, <2>1, <2>2, KeptDrop
<1>4. ASSUME NEW f \in Folder, RemoveFolder(f) PROVE Kept'
  <2>1. /\ here.kind = "folders" /\ UNCHANGED <<tables, here, title, query, edits, wanted>> /\ odd \subseteq odd'
        /\ \E c : Sends("remove", f, c)
    BY <1>1, <1>4, RemoveFolderIs
  <2>2. Unserved("save")' = Unserved("save") BY <2>1 DEF Sends
  <2>. QED BY <2>1, <2>2, KeptSame
<1>5. ASSUME NEW f \in Folder, Create(f) PROVE Kept'
  <2>1. UNCHANGED <<tables, page, query, edits, wanted, odd>> /\ \E c : Sends("create", f, c)
    BY <1>1, <1>5, CreateIs
  <2>2. UNCHANGED <<here, title, shown>> BY <2>1 DEF page
  <2>3. Unserved("save")' = Unserved("save") BY <2>1 DEF Sends
  <2>. QED BY <2>1, <2>2, <2>3, KeptSame
<1>6. ASSUME NEW a \in asks, DeleteRoom(a) PROVE Kept'
  <2>1. /\ Serves(a, "delete") /\ UNCHANGED <<page, query, edits, wanted>> /\ odd \subseteq odd'
        /\ Drop(a.item) \/ UNCHANGED tables
    BY <1>1, <1>6, DeleteRoomIs
  <2>2. Unserved("save")' = Unserved("save") BY <2>1 DEF Serves, Unserved
  <2>3. UNCHANGED <<here, title, shown>> BY <2>1 DEF page
  <2>. QED BY <1>1, <2>1, <2>2, <2>3, KeptDrop, KeptSame
<1>7. ASSUME NEW a \in asks, BoardRemoved(a) PROVE Kept'
  <2>1. /\ Ends(a, "delete") /\ UNCHANGED <<tables, here, title, query, edits, wanted, odd>>
        /\ shown' = IF a.mine THEN shown \ {a.item} ELSE shown
    BY <1>1, <1>7, BoardRemovedIs
  <2>2. Unserved("save")' = Unserved("save") /\ a.do = "delete" BY <2>1 DEF Ends
  <2>3. here.kind = "open" => shown' = shown
    <3>1. PageOf("delete") = "boards" BY DEF PageOf
    <3>. QED BY <1>1, <2>1, <2>2, <3>1 DEF Asked
  <2>. QED BY <2>1, <2>2, <2>3, KeptSame
<1>8. ASSUME NEW a \in asks, FolderCreated(a) PROVE Kept'
  <2>1. /\ Ends(a, "create") /\ UNCHANGED <<tables, here, title, query, edits, wanted, odd>>
        /\ ~a.mine => shown' = shown
    BY <1>1, <1>8, FolderCreatedIs
  <2>2. Unserved("save")' = Unserved("save") /\ a.do = "create" BY <2>1 DEF Ends
  <2>3. here.kind = "open" => shown' = shown
    <3>1. PageOf("create") = "folders" BY DEF PageOf
    <3>. QED BY <1>1, <2>1, <2>2, <3>1 DEF Asked
  <2>. QED BY <2>1, <2>2, <2>3, KeptSame
<1>9. ASSUME NEW a \in asks, FolderRemoved(a) PROVE Kept'
  <2>1. (\E do \in {"remove", "save"} : Ends(a, do)) /\ UNCHANGED <<tables, page, query, edits, wanted, odd>>
    BY <1>1, <1>9, OverIs
  <2>2. Unserved("save")' = Unserved("save") BY <2>1 DEF Ends
  <2>3. UNCHANGED <<here, title, shown>> BY <2>1 DEF page
  <2>. QED BY <2>1, <2>2, <2>3, KeptSame
<1>10. ASSUME NEW a \in asks, DeleteFolder(a) PROVE Kept'
  <2>1. /\ Serves(a, "remove") /\ a.item \in Folder /\ UNCHANGED <<page, query, edits, boards>> /\ odd \subseteq odd'
        /\ \/ /\ Range(folders') = Range(folders) \ {a.item} /\ named' = named \ {a.item}
              /\ \A f \in Folder : inFolder'[f] = IF f = a.item THEN {} ELSE inFolder[f]
              /\ \A f \in Folder : wanted'[f] = IF f = a.item THEN {} ELSE wanted[f]
           \/ UNCHANGED tables /\ "failed" \in odd'
    BY <1>1, <1>10, DeleteFolderIs
  <2>2. CASE "failed" \in odd' BY <2>2 DEF Kept, Fair
  <2>3. CASE /\ Range(folders') = Range(folders) \ {a.item} /\ named' = named \ {a.item}
             /\ \A f \in Folder : inFolder'[f] = IF f = a.item THEN {} ELSE inFolder[f]
             /\ \A f \in Folder : wanted'[f] = IF f = a.item THEN {} ELSE wanted[f]
    <3> SUFFICES ASSUME Fair' PROVE InPlace' /\ OnTheWay' /\ Titles' /\ Answers' /\ Reading'
      BY DEF Kept
    <3>1. Fair BY <2>1, FairBefore
    <3>2. InPlace /\ OnTheWay /\ Titles /\ Answers /\ Reading BY <3>1 DEF Kept
    <3>3. UNCHANGED <<here, shown, title, cache, failed, fetching, put, taken, dirty>>
      BY <2>1 DEF page, query, edits
    <3>4. Unserved("save")' = Unserved("save") BY <2>1 DEF Serves, Unserved
    <3>5. \A f : Saving(f)' = Saving(f) BY <3>4 DEF Saving
    <3>6. InPlace'
      <4> SUFFICES ASSUME NEW f \in Folder, Saving(f) = {} PROVE inFolder'[f] = wanted'[f] \cap Range(boards)
        BY <2>1, <3>5 DEF InPlace
      <4>. QED BY <2>3, <3>2 DEF InPlace
    <3>7. OnTheWay'
      <4>1. ASSUME NEW c \in Unserved("save"), c.item \in Range(folders')
            PROVE  /\ c.item \in Range(folders) /\ inFolder'[c.item] = inFolder[c.item]
                   /\ wanted'[c.item] = wanted[c.item]
        <5>1. c.item \in Folder /\ c.item # a.item BY <1>1, <2>3, <4>1, TypeFacts
        <5>. QED BY <2>3, <4>1, <5>1
      <4>. QED BY <2>1, <3>2, <3>4, <4>1 DEF OnTheWay
    <3>8. Titles' BY <2>3, <3>2 DEF Titles
    <3>9. Answers' BY <2>1, <2>3, <3>2, <3>3 DEF Answers
    <3>10. Reading'
      <4>1. here.kind = "open" => here.f \in Folder BY <1>1, HereIs
      <4>2. here.kind = "open" /\ here.f \in Range(folders') =>
              here.f \in Range(folders) /\ inFolder'[here.f] = inFolder[here.f]
        BY <2>3, <4>1
      <4>. QED BY <2>1, <3>2, <3>3, <3>5, <4>2 DEF Reading, Known
    <3>. QED BY <3>6, <3>7, <3>8, <3>9, <3>10
  <2>. QED BY <2>1, <2>2, <2>3
<1>11. ASSUME NEW a \in asks, CreateFolder(a) PROVE Kept'
  <2>1. a.item \notin ever
    <3>1. a \in Unserved("create") BY <1>11 DEF CreateFolder, Sent, Unserved
    <3>. QED BY <1>1, <3>1 DEF Asked
  <2>2. /\ Serves(a, "create") /\ a.item \in Folder /\ Range(folders') = Range(folders) \cup {a.item}
        /\ named' = named \cup {a.item} /\ UNCHANGED <<boards, inFolder, page, query, edits, wanted, odd>>
    BY <1>1, <1>11, <2>1, CreateFolderIs
  <2> SUFFICES ASSUME Fair' PROVE InPlace' /\ OnTheWay' /\ Titles' /\ Answers' /\ Reading'
    BY DEF Kept
  <2>3. Fair BY <2>2 DEF Fair
  <2>4. InPlace /\ OnTheWay /\ Titles /\ Answers /\ Reading BY <2>3 DEF Kept
  <2>5. UNCHANGED <<here, shown, title, cache, failed, fetching, put, taken, dirty>>
    BY <2>2 DEF page, query, edits
  <2>6. Unserved("save")' = Unserved("save") BY <2>2 DEF Serves, Unserved
  <2>7. \A f : Saving(f)' = Saving(f) BY <2>6 DEF Saving
  <2>8. InPlace' BY <2>2, <2>4, <2>7 DEF InPlace
  <2>9. OnTheWay'
    <3>1. \A c \in Unserved("save") : c.item # a.item BY <1>1, <2>1, <2>2 DEF Unborn, Unserved
    <3>. QED BY <2>2, <2>4, <2>6, <3>1 DEF OnTheWay
  <2>10. Titles' BY <2>2, <2>4 DEF Titles
  <2>11. Answers'
    <3>1. ~Got(fetching, Open(a.item)) BY <1>1, <2>1, <2>2 DEF Unborn, Got
    <3>. QED BY <2>2, <2>4, <2>5, <3>1 DEF Answers
  <2>12. Reading'
    <3>1. here.kind = "open" => here.f # a.item BY <1>1, <2>1, <2>2, HereIs DEF Unborn
    <3>. QED BY <2>2, <2>4, <2>5, <2>7, <3>1 DEF Reading, Known
  <2>. QED BY <2>8, <2>9, <2>10, <2>11, <2>12
<1>. QED BY <1>2, <1>3, <1>4, <1>5, <1>6, <1>7, <1>8, <1>9, <1>10, <1>11 DEF ListStep

(* What a save that was compared with what the folder has does to it.      *)
LEMMA SaveMakes ==
  ASSUME NEW W, NEW R, NEW F, NEW C, NEW P, NEW T, NEW A, NEW D,
         F = W \cap R, C \cap R = F,
         A = ((C \cup P) \ T) \ C, D = C \ ((C \cup P) \ T), A \subseteq R
  PROVE  (F \cup A) \ D = ((W \cup P) \ T) \cap R
<1>1. ASSUME NEW x PROVE x \in (F \cup A) \ D <=> x \in ((W \cup P) \ T) \cap R
  OBVIOUS
<1>. QED BY <1>1

(* A save of a folder that was read and not saved since.                   *)
LEMMA KeptSave ==
  ASSUME LibraryAssumption, Sound, Kept, Save
  PROVE  Kept'
<1>1. TypeOK /\ Contents BY DEF Sound
<1>2. /\ here.kind = "open" /\ here \in Key /\ here.f \in Folder /\ here = Open(here.f)
      /\ here \notin failed /\ Known(here)
      /\ \A f \in Folder : wanted'[f] = IF f = here.f THEN (wanted[f] \cup put) \ taken ELSE wanted[f]
      /\ put' = {} /\ taken' = {} /\ dirty' = dirty \cup {here.f}
      /\ On(fetching, here) => "blank" \in odd'
      /\ here.f \in dirty => "again" \in odd'
      /\ odd \subseteq odd' /\ UNCHANGED <<tables, page, query>>
  BY <1>1, SaveIs
<1>3. PICK c : /\ Sends("save", here.f, c) /\ c.add = shown \ cache[here][1].items
               /\ c.drop = cache[here][1].items \ shown /\ c.named = title
  BY <1>1, SaveIs
<1> SUFFICES ASSUME Fair' PROVE InPlace' /\ OnTheWay' /\ Titles' /\ Answers' /\ Reading'
  BY DEF Kept
<1>4. Fair BY <1>2, FairBefore
<1>5. InPlace /\ OnTheWay /\ Titles /\ Answers /\ Reading BY <1>4 DEF Kept
<1>6. /\ UNCHANGED <<boards, folders, inFolder, named, here, shown, title, cache, failed, fetching>>
  BY <1>2 DEF tables, page, query
<1>7. ~On(fetching, here) /\ here.f \notin dirty BY <1>2 DEF Fair
<1>8. c \in Ask /\ c.item = here.f /\ Unserved("save")' = Unserved("save") \cup {c} BY <1>3 DEF Sends
<1>9. /\ shown = (cache[here][1].items \cup put) \ taken /\ Saving(here.f) = {}
      /\ here.f \in Range(folders) => title /\ cache[here][1].items \cap Range(boards) = inFolder[here.f]
  BY <1>2, <1>5, <1>7 DEF Reading
<1>10. InPlace'
  <2>1. ASSUME NEW f \in Folder, Saving(f)' = {} PROVE f # here.f /\ Saving(f) = {}
    BY <1>8, <2>1 DEF Saving
  <2>. QED BY <1>2, <1>5, <1>6, <2>1 DEF InPlace
<1>11. OnTheWay'
  <2>1. \A a \in Unserved("save") : a.item # here.f BY <1>9 DEF Saving
  <2>2. ASSUME NEW a \in Unserved("save"), a.item \in Range(folders)
        PROVE  /\ a.named
               /\ a.add \subseteq Range(boards) =>
                    (inFolder[a.item] \cup a.add) \ a.drop = wanted'[a.item] \cap Range(boards)
    <3>1. a.item \in Folder BY <1>1, <2>2, TypeFacts
    <3>2. wanted'[a.item] = wanted[a.item] BY <1>2, <2>1, <3>1
    <3>. QED BY <1>5, <2>2, <3>2 DEF OnTheWay
  <2>3. ASSUME here.f \in Range(folders), c.add \subseteq Range(boards)
        PROVE  (inFolder[here.f] \cup c.add) \ c.drop = wanted'[here.f] \cap Range(boards)
    <3>1. inFolder[here.f] = wanted[here.f] \cap Range(boards) BY <1>2, <1>5, <1>9 DEF InPlace
    <3>2. cache[here][1].items \cap Range(boards) = inFolder[here.f] BY <1>9, <2>3
    <3>3. /\ c.add = ((cache[here][1].items \cup put) \ taken) \ cache[here][1].items
          /\ c.drop = cache[here][1].items \ ((cache[here][1].items \cup put) \ taken)
      BY <1>3, <1>9
    <3>4. wanted'[here.f] = (wanted[here.f] \cup put) \ taken BY <1>2
    <3>. QED BY <2>3, <3>1, <3>2, <3>3, <3>4, SaveMakes
  <2>4. here.f \in Range(folders) => c.named BY <1>3, <1>9
  <2>5. \A a, b \in Unserved("save") \cup {c} : a.item = b.item => a = b
    BY <1>5, <1>8, <2>1 DEF OnTheWay
  <2>6. \A a \in Unserved("save") \cup {c} : a.item \in Range(folders) =>
          /\ a.named
          /\ a.add \subseteq Range(boards) =>
               (inFolder[a.item] \cup a.add) \ a.drop = wanted'[a.item] \cap Range(boards)
    BY <1>8, <2>2, <2>3, <2>4
  <2>. QED BY <1>6, <1>8, <2>5, <2>6 DEF OnTheWay
<1>12. Titles' BY <1>5, <1>6 DEF Titles
<1>13. Answers' BY <1>5, <1>6 DEF Answers
<1>14. Reading' BY <1>2, <1>5, <1>6, <1>7 DEF Reading, Known
<1>. QED BY <1>10, <1>11, <1>12, <1>13, <1>14

(* Steps of the folder page keep it.                                       *)
LEMMA KeptFolders ==
  ASSUME LibraryAssumption, Sound, Kept, FolderStep
  PROVE  Kept'
<1>1. TypeOK /\ Rows /\ Items /\ Contents /\ Unborn BY DEF Sound
<1>2. ASSUME NEW b \in Board, Put(b) \/ Take(b) PROVE Kept'
  <2>1. /\ UNCHANGED <<tables, here, title, query, asks, dirty, wanted, odd>>
        /\ \/ b \notin shown /\ shown' = shown \cup {b} /\ put' = put \cup {b} /\ taken' = taken \ {b}
           \/ shown' = shown \ {b} /\ put' = put \ {b} /\ taken' = taken \cup {b}
    BY <1>1, <1>2, PutIs, TakeIs
  <2> SUFFICES ASSUME Fair' PROVE InPlace' /\ OnTheWay' /\ Titles' /\ Answers' /\ Reading'
    BY DEF Kept
  <2>2. Fair BY <2>1 DEF Fair
  <2>3. InPlace /\ OnTheWay /\ Titles /\ Answers /\ Reading BY <2>2 DEF Kept
  <2>4. UNCHANGED <<boards, folders, inFolder, named, cache, failed, fetching>> BY <2>1 DEF tables, query
  <2>5. Unserved("save")' = Unserved("save") BY <2>1 DEF Unserved
  <2>6. InPlace' /\ OnTheWay' /\ Titles' BY <2>1, <2>3, <2>4, <2>5, SavesFrame
  <2>7. Answers' BY <2>3, <2>4, AnswersFrame
  <2>8. \A f : Saving(f)' = Saving(f) BY <2>5 DEF Saving
  <2>9. \A C : shown = (C \cup put) \ taken => shown' = (C \cup put') \ taken'
    <3> SUFFICES ASSUME NEW C, shown = (C \cup put) \ taken PROVE shown' = (C \cup put') \ taken'
      OBVIOUS
    <3>1. CASE b \notin shown /\ shown' = shown \cup {b} /\ put' = put \cup {b} /\ taken' = taken \ {b}
      BY <3>1
    <3>2. CASE shown' = shown \ {b} /\ put' = put \ {b} /\ taken' = taken \cup {b} BY <3>2
    <3>. QED BY <2>1, <3>1, <3>2
  <2>10. Reading' BY <2>1, <2>3, <2>4, <2>8, <2>9 DEF Reading, Known
  <2>. QED BY <2>6, <2>7, <2>10
<1>3. CASE Save BY <1>3, KeptSave
<1>4. ASSUME NEW a \in asks, UpdateFails(a) \/ UpdateRefused(a) PROVE Kept'
  <2>1. "failed" \in odd' \/ "long" \in odd' BY <1>1, <1>4, UpdateFailsIs, UpdateRefusedIs
  <2>. QED BY <2>1 DEF Kept, Fair
<1>5. ASSUME NEW a \in asks, Saved(a) PROVE Kept'
  <2>1. (\E do \in {"remove", "save"} : Ends(a, do)) /\ UNCHANGED <<tables, page, query, edits, wanted, odd>>
    BY <1>1, <1>5, OverIs
  <2>2. Unserved("save")' = Unserved("save") BY <2>1 DEF Ends
  <2>3. UNCHANGED <<here, title, shown>> BY <2>1 DEF page
  <2>. QED BY <2>1, <2>2, <2>3, KeptSame
<1>6. ASSUME NEW a \in asks, UpdateFolder(a) PROVE Kept'
  <2>1. /\ Serves(a, "save") /\ a.item \in Folder /\ a.item \in Range(folders) /\ a.add \subseteq Range(boards)
        /\ a.named => named' = named \cup {a.item}
        /\ \A f \in Folder : inFolder'[f] = (IF f = a.item THEN inFolder[f] \cup a.add ELSE inFolder[f]) \ a.drop
        /\ (\E f \in Folder \ {a.item} : inFolder[f] \cap a.drop # {}) => "shared" \in odd'
        /\ Got(fetching, Open(a.item)) => "crossed" \in odd'
        /\ odd \subseteq odd' /\ UNCHANGED <<boards, folders, page, query, edits, wanted>>
    BY <1>1, <1>6, UpdateFolderIs
  <2> SUFFICES ASSUME Fair' PROVE InPlace' /\ OnTheWay' /\ Titles' /\ Answers' /\ Reading'
    BY DEF Kept
  <2>2. Fair BY <2>1, FairBefore
  <2>3. InPlace /\ OnTheWay /\ Titles /\ Answers /\ Reading BY <2>2 DEF Kept
  <2>4. UNCHANGED <<here, shown, title, cache, failed, fetching, put, taken, dirty>>
    BY <2>1 DEF page, query, edits
  <2>5. /\ a \in Unserved("save") /\ Unserved("save")' = Unserved("save") \ {a} BY <2>1 DEF Serves
  <2>6. /\ a.named /\ (inFolder[a.item] \cup a.add) \ a.drop = wanted[a.item] \cap Range(boards)
        /\ \A c \in Unserved("save") : c.item = a.item => c = a
    BY <2>1, <2>3, <2>5 DEF OnTheWay
  <2>7. \A f \in Folder : f # a.item => inFolder'[f] = inFolder[f]
    <3> SUFFICES ASSUME NEW f \in Folder, f # a.item PROVE inFolder'[f] = inFolder[f]
      OBVIOUS
    <3>1. inFolder[f] \cap a.drop = {} BY <2>1 DEF Fair
    <3>2. inFolder'[f] = inFolder[f] \ a.drop BY <2>1
    <3>. QED BY <3>1, <3>2
  <2>8. inFolder'[a.item] = wanted[a.item] \cap Range(boards) BY <2>1, <2>6
  <2>9. \A f : f # a.item => Saving(f)' = Saving(f) BY <2>5 DEF Saving
  <2>10. InPlace' BY <2>1, <2>3, <2>7, <2>8, <2>9 DEF InPlace
  <2>11. OnTheWay'
    <3>1. ASSUME NEW c \in Unserved("save") \ {a}, c.item \in Range(folders)
          PROVE  inFolder'[c.item] = inFolder[c.item]
      <4>1. c.item \in Folder /\ c.item # a.item BY <1>1, <2>6, <3>1, TypeFacts
      <4>. QED BY <2>7, <4>1
    <3>. QED BY <2>1, <2>3, <2>5, <3>1 DEF OnTheWay
  <2>12. Titles' BY <2>1, <2>3, <2>6 DEF Titles
  <2>13. Answers'
    <3>1. ~Got(fetching, Open(a.item)) BY <2>1 DEF Fair
    <3>. QED BY <2>1, <2>3, <2>4, <2>7, <3>1 DEF Answers
  <2>14. Reading'
    <3>1. here.kind = "open" => here.f \in Folder BY <1>1, HereIs
    <3>2. Saving(a.item) # {} BY <2>5 DEF Saving
    <3>. QED BY <2>1, <2>3, <2>4, <2>7, <2>9, <3>1, <3>2 DEF Reading, Known
  <2>. QED BY <2>10, <2>11, <2>12, <2>13, <2>14
<1>. QED BY <1>2, <1>3, <1>4, <1>5, <1>6 DEF FolderStep

(* Every step keeps it.                                                    *)
LEMMA KeptStays ==
  ASSUME LibraryAssumption, Sound, Kept, [Next]_vars PROVE Kept'
<1>1. ASSUME NEW k \in Key, QueryStep(k) PROVE Kept' BY <1>1, KeptQueries
<1>2. CASE ListStep BY <1>2, KeptLists
<1>3. CASE FolderStep BY <1>3, KeptFolders
<1>4. CASE Next BY <1>1, <1>2, <1>3, <1>4, Steps
<1>5. CASE UNCHANGED vars
  <2>1. /\ UNCHANGED <<boards, folders, inFolder, named, ever, here, shown, title>>
        /\ UNCHANGED <<cache, failed, fetching, asks, put, taken, dirty, wanted, odd>>
    BY <1>5, Idle
  <2>2. Unserved("save")' = Unserved("save") BY <2>1 DEF Unserved
  <2>. QED BY <2>1, <2>2, KeptSame DEF tables, query, edits
<1>. QED BY <1>4, <1>5

(* It holds always.                                                        *)
LEMMA AlwaysKept == Spec => []Kept
<1>1. Init => Kept
  <2> SUFFICES ASSUME Init PROVE InPlace /\ OnTheWay /\ Titles /\ Answers /\ Reading
    BY DEF Kept
  <2>1. /\ named = Range(folders) /\ inFolder = [f \in Folder |-> {}] /\ wanted = inFolder
        /\ here = Away /\ asks = {} /\ fetching = [k \in Key |-> <<>>]
    BY DEF Init
  <2>2. InPlace BY <2>1 DEF InPlace
  <2>3. OnTheWay BY <2>1 DEF OnTheWay, Unserved
  <2>4. Answers BY <2>1, OpenIs DEF Answers, Got, On
  <2>. QED BY <2>1, <2>2, <2>3, <2>4 DEF Titles, Reading, Away
<1>2. Sound /\ Kept /\ [Next]_vars => Kept' BY LibraryAssumption, KeptStays
<1>. QED BY <1>1, <1>2, AlwaysSound, PTL DEF Spec

(* A folder whose saves are done has the boards the user has put into it,  *)
(* those that there still are, and its title, whatever came between        *)
(* reading and saving, unless one of the reasons listed there was met.     *)
THEOREM FoldersHold == Spec => []FoldersAsSaved
<1>1. Kept => FoldersAsSaved
  <2> SUFFICES ASSUME Kept, Fair, NEW f \in Folder, \A a \in asks : a.item # f
               PROVE  /\ inFolder[f] = wanted[f] \cap Range(boards)
                      /\ f \in Range(folders) => f \in named
    BY DEF FoldersAsSaved, Fair
  <2>1. Saving(f) = {} BY DEF Saving, Unserved
  <2>. QED BY <2>1 DEF Kept, InPlace, Titles
<1>. QED BY <1>1, AlwaysKept, PTL
=============================================================================
