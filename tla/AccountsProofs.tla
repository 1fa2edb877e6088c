--------------------------- MODULE AccountsProofs ---------------------------
(***************************************************************************)
(* For every set of browsers and logins and any number of requests under   *)
(* way: the state stays well typed; a login is that of one row as long as  *)
(* no two requests for one login were being checked at the same time; and  *)
(* a browser is what it was last told to be, whatever comes in what order. *)
(***************************************************************************)
EXTENDS Accounts, FiniteSetTheorems, TLAPS

Names == Login \cup {NoLogin}

(* Who asks for a login names one, and who may write a row has a token of  *)
(* its user; nor is a token rotated that is none.                          *)
Named(a) == a.do \in {"login", "create", "update"} => a.arg \in Login
Allowed(a) ==
  /\ a.at = "checked" =>
       a.do \in {"create", "update"} /\ (a.do = "update" => a.with.refresh # NoToken)
  /\ a.at \in {"expiring", "rotating"} => a.with.refresh # NoToken
AsksTyped == \A a \in asks : Named(a) /\ Allowed(a)

(* The row that a request which has passed its check may write.            *)
RowOf(a) == IF a.do = "create" THEN 0 ELSE a.with.refresh.user

(* Nobody else has the login that a checked request is about to write, and *)
(* nobody else is about to write it.                                       *)
Reserved(a) ==
  /\ \A u \in Id : users[u] = a.arg => u = RowOf(a)
  /\ \A c \in asks : c.at = "checked" /\ c.arg = a.arg => c = a

OneRowEach == \A u, v \in Id : users[u] = users[v] /\ users[u] # NoLogin => u = v

Exclusive ==
  "twice" \notin odd =>
    /\ OneRowEach
    /\ \A a \in asks : a.at = "checked" => Reserved(a)

AccountsInv == TypeOK /\ AsksTyped /\ Exclusive

----------------------------------------------------------------------------
(* The values that requests and answers are made of.                       *)

LEMMA BlankTokens ==
  /\ NoToken \in Token /\ NoCookies \in Cookies
BY DEF Token, NoToken, Cookies, NoCookies

LEMMA TokenFields ==
  ASSUME NEW t \in Token
  PROVE  /\ t.login \in Names
         /\ t # NoToken => t.user \in Id /\ t.login \in Login
BY DEF Token, NoToken, Names

LEMMA AskFields ==
  ASSUME NEW a \in Ask
  PROVE  /\ a.b \in Browser /\ a.arg \in Names /\ a.login \in Names
         /\ a.with.access \in Token /\ a.with.refresh \in Token
         /\ a.set # <<>> => a.set[1] \in Cookies
<1>1. ASSUME a.set # <<>> PROVE a.set[1] \in Cookies
  <2>1. a.set \in {<<>>} \cup {<<c>> : c \in Cookies} BY DEF Ask
  <2>2. PICK c \in Cookies : a.set = <<c>> BY <1>1, <2>1
  <2>. QED BY <2>2
<1>2. a.with \in Cookies BY DEF Ask
<1>. QED BY <1>1, <1>2 DEF Ask, Cookies, Names

LEMMA RequestType ==
  ASSUME TypeOK, NEW b \in Browser, NEW arg \in Names, NEW cookies \in Cookies,
         NEW do \in {"private", "list", "login", "logout", "create", "update", "delete"}
  PROVE  /\ Request(b, do, arg, cookies) \in Ask
         /\ Request(b, do, arg, cookies).at = "sent"
         /\ Request(b, do, arg, cookies).do = do
         /\ Request(b, do, arg, cookies).arg = arg
BY DEF Request, Ask, TypeOK, Names

LEMMA StageType ==
  ASSUME NEW a \in Ask, NEW s \in {"sent", "checked", "expiring", "rotating", "done"}
  PROVE  /\ [a EXCEPT !.at = s] \in Ask
         /\ [a EXCEPT !.at = s].at = s /\ [a EXCEPT !.at = s].do = a.do
         /\ [a EXCEPT !.at = s].arg = a.arg /\ [a EXCEPT !.at = s].with = a.with
BY DEF Ask

LEMMA AnswerType ==
  ASSUME NEW a \in Ask, NEW ok \in BOOLEAN
  PROVE  /\ Answer(a, ok) \in Ask /\ Answer(a, ok).at = "done"
         /\ Answer(a, ok).do = a.do /\ Answer(a, ok).arg = a.arg
         /\ Answer(a, ok).with = a.with
BY DEF Ask, Answer

LEMMA WithType ==
  ASSUME NEW a \in Ask, NEW c \in Cookies
  PROVE  /\ With(a, c) \in Ask /\ With(a, c).at = a.at
         /\ With(a, c).do = a.do /\ With(a, c).arg = a.arg
<1>1. <<c>> \in {<<>>} \cup {<<x>> : x \in Cookies} OBVIOUS
<1>. QED BY <1>1 DEF Ask, With

(* What is counted.                                                        *)
Counted ==
  /\ made \in [rows : 0 .. MaxUser, tokens : 0 .. MaxToken, second : 0 .. MaxToken]
  /\ made.second <= made.tokens

(* New tokens are a pair for the row; odd remembers if they were known.    *)
LEMMA IssueIs ==
  ASSUME AccountsAssumption, TypeOK, NEW a, NEW c, NEW u \in Id, NEW l \in Login, NEW reasons,
         Issue(a, c, u, l, reasons)
  PROVE  /\ Counted' /\ made'.rows = made.rows
         /\ odd \subseteq odd' /\ reasons \subseteq odd'
         /\ odd' \subseteq odd \cup reasons \cup {"alike"}
         /\ \E k \in Cookies :
              /\ Becomes(a, With(c, k))
              /\ k.refresh.user = u /\ k.refresh.login = l /\ k.access.user = u /\ k.access.login = l
              /\ k.refresh # NoToken
              /\ "alike" \notin odd' => k.refresh \notin Known
<1>1. PICK n \in {made.second, made.second + 1} :
        /\ made.tokens < MaxToken
        /\ made' = [made EXCEPT !.tokens = @ + 1, !.second = n]
        /\ Becomes(a, With(c, Tokens(u, l, n)))
        /\ odd' = odd \cup (reasons \cup If("alike", Tokens(u, l, n).refresh \in Known))
  BY DEF Issue, Blame
<1>2. /\ made \in [rows : 0 .. MaxUser, tokens : 0 .. MaxToken, second : 0 .. MaxToken]
      /\ made.second <= made.tokens /\ MaxToken \in Nat
  BY DEF TypeOK, AccountsAssumption
<1>3. /\ made'.tokens = made.tokens + 1 /\ made'.second = n /\ made'.rows = made.rows
      /\ made' = [rows |-> made.rows, tokens |-> made.tokens + 1, second |-> n]
  BY <1>1, <1>2
<1>4. /\ made.tokens + 1 \in 0 .. MaxToken /\ n \in 0 .. MaxToken /\ n <= made.tokens + 1
      /\ made.rows \in 0 .. MaxUser
  BY <1>1, <1>2
<1>5. Counted' BY <1>3, <1>4 DEF Counted
<1> DEFINE k == Tokens(u, l, n)
<1>6. k \in Cookies /\ k.refresh = [user |-> u, login |-> l, n |-> n]
      /\ k.access = [user |-> u, login |-> l, n |-> 0]
  <2>1. 0 \in 0 .. MaxToken BY <1>2
  <2>. QED BY <1>4, <2>1 DEF Tokens, Cookies, Token
<1>7. NoToken.login = NoLogin /\ l # NoLogin BY DEF NoToken, AccountsAssumption
<1>8. k.refresh # NoToken BY <1>6, <1>7
<1>9. "alike" \notin odd' => k.refresh \notin Known BY <1>1 DEF If
<1> HIDE DEF k
<1>10. Becomes(a, With(c, k)) BY <1>1 DEF k
<1>11. k.refresh.user = u /\ k.refresh.login = l /\ k.access.user = u /\ k.access.login = l
  BY <1>6
<1>12. /\ odd \subseteq odd' /\ reasons \subseteq odd'
       /\ odd' \subseteq odd \cup reasons \cup {"alike"}
  BY <1>1 DEF If
<1>. QED BY <1>3, <1>5, <1>6, <1>8, <1>9, <1>10, <1>11, <1>12

----------------------------------------------------------------------------
(* How the set of requests may change.                                     *)

(* One is replaced by what it has become.                                  *)
LEMMA ReplaceTyped ==
  ASSUME TypeOK, AsksTyped, NEW a \in asks, NEW c \in Ask, Named(c), Allowed(c),
         asks' = (asks \ {a}) \cup {c}
  PROVE  asks' \subseteq Ask /\ AsksTyped'
BY DEF TypeOK, AsksTyped, Named, Allowed

(* A new one is sent.                                                      *)
LEMMA SendTyped ==
  ASSUME TypeOK, AsksTyped, NEW b \in Browser, NEW arg \in Names,
         NEW do \in {"private", "list", "login", "logout", "create", "update", "delete"},
         do \in {"login", "create", "update"} => arg \in Login, Send(b, do, arg)
  PROVE  asks' \subseteq Ask /\ AsksTyped' /\ odd' \subseteq Reason
<1>1. jar[b] \in Cookies BY DEF TypeOK
<1> DEFINE r == Request(b, do, arg, jar[b])
<1>2. r \in Ask /\ r.at = "sent" /\ r.do = do /\ r.arg = arg
  BY <1>1, RequestType
<1>3. Named(r) /\ Allowed(r) BY <1>2 DEF Named, Allowed
<1>4. asks' = asks \cup {r} BY DEF Send
<1> HIDE DEF r
<1>5. asks' \subseteq Ask /\ AsksTyped'
  BY <1>2, <1>3, <1>4 DEF TypeOK, AsksTyped, Named, Allowed
<1>. QED BY <1>5 DEF Send, Blame, If, TypeOK, Reason

(* process_jwt.                                                            *)
LEMMA ProcessedTyped ==
  ASSUME TypeOK, AsksTyped, NEW a \in asks, NEW c \in Ask, Named(c), c.at = "done",
         c.with = a.with, Processed(a, c)
  PROVE  asks' \subseteq Ask /\ AsksTyped'
<1> DEFINE x == [c EXCEPT !.at = "expiring"]
           e == a.with.access = NoToken /\ Good(a.with.refresh)
<1>1. x \in Ask /\ x.at = "expiring" /\ x.do = c.do /\ x.arg = c.arg /\ x.with = c.with
  BY StageType
<1>2. Named(x) /\ Allowed(c) /\ (e => Allowed(x)) BY <1>1 DEF Named, Allowed, Good
<1>3. asks' = (asks \ {a}) \cup {IF e THEN x ELSE c} BY DEF Processed, Becomes
<1> HIDE DEF x, e
<1>4. CASE e BY <1>1, <1>2, <1>3, <1>4, ReplaceTyped
<1>5. CASE ~e BY <1>2, <1>3, <1>5, ReplaceTyped
<1>. QED BY <1>4, <1>5

(* An answer has come: it is gone, or followed by a request that needs no  *)
(* argument.                                                               *)
LEMMA AnsweredTyped ==
  ASSUME TypeOK, AsksTyped, NEW a, NEW dos, Answered(a, dos),
         \/ End(a)
         \/ \E do \in {"private", "list", "logout"} : Then(a, do)
  PROVE  jar' \in [Browser -> Cookies] /\ asks' \subseteq Ask /\ AsksTyped'
<1>1. a \in asks /\ a \in Ask BY DEF Answered, TypeOK
<1>2. jar' \in [Browser -> Cookies] BY <1>1, AskFields DEF Answered, TypeOK
<1>3. CASE End(a) BY <1>2, <1>3 DEF End, TypeOK, AsksTyped, Named, Allowed
<1>4. ASSUME NEW do \in {"private", "list", "logout"}, Then(a, do)
      PROVE  asks' \subseteq Ask /\ AsksTyped'
  <2> DEFINE r == Request(a.b, do, NoLogin, jar'[a.b])
  <2>1. jar'[a.b] \in Cookies /\ a.b \in Browser /\ NoLogin \in Names
    BY <1>1, <1>2, AskFields DEF Names
  <2>2. r \in Ask /\ r.at = "sent" /\ r.do = do
    BY <2>1, RequestType
  <2>3. Named(r) /\ Allowed(r) BY <2>2 DEF Named, Allowed
  <2>4. asks' = (asks \ {a}) \cup {r} BY <1>4 DEF Then
  <2> HIDE DEF r
  <2>. QED BY <1>1, <2>2, <2>3, <2>4, ReplaceTyped
<1>. QED BY <1>2, <1>3, <1>4

----------------------------------------------------------------------------
(* Every step keeps the types.                                             *)

LEMMA ServerTyped ==
  ASSUME AccountsAssumption, TypeOK, AsksTyped, NEW a \in asks,
         \/ ReadPrivate(a) \/ Verify(a) \/ Rotate(a) \/ LogIn(a) \/ LogOut(a) \/ CreateUser(a)
         \/ InsertUser(a) \/ UpdateUser(a) \/ WriteUser(a) \/ DeleteUser(a)
  PROVE  TypeOK' /\ AsksTyped'
<1>1. a \in Ask BY DEF TypeOK
<1> DEFINE yes == Answer(a, TRUE)
           no == Answer(a, FALSE)
<1>2. /\ yes \in Ask /\ yes.at = "done" /\ yes.do = a.do /\ yes.arg = a.arg /\ yes.with = a.with
      /\ no \in Ask /\ no.at = "done" /\ no.do = a.do /\ no.arg = a.arg /\ no.with = a.with
  BY <1>1, AnswerType
<1>3. Named(a) /\ Allowed(a) BY DEF AsksTyped
<1>4. Named(yes) /\ Allowed(yes) /\ Named(no) /\ Allowed(no)
  BY <1>2, <1>3 DEF Named, Allowed
<1>5. ASSUME NEW s \in {"checked", "rotating", "done"},
             s = "rotating" => a.with.refresh # NoToken,
             s = "checked" => a.do \in {"create", "update"}
             /\ (a.do = "update" => a.with.refresh # NoToken),
             Becomes(a, [a EXCEPT !.at = s])
      PROVE  asks' \subseteq Ask /\ AsksTyped'
  <2> DEFINE x == [a EXCEPT !.at = s]
  <2>0. s \in {"sent", "checked", "expiring", "rotating", "done"} OBVIOUS
  <2>1. x \in Ask /\ x.at = s /\ x.do = a.do /\ x.arg = a.arg /\ x.with = a.with
    BY <1>1, <2>0, StageType
  <2>2. Named(x) /\ Allowed(x) BY <1>3, <1>5, <2>1 DEF Named, Allowed
  <2>3. asks' = (asks \ {a}) \cup {x} BY <1>5 DEF Becomes
  <2> HIDE DEF x
  <2>. QED BY <2>1, <2>2, <2>3, ReplaceTyped
<1>6. ASSUME NEW x \in Ask, Named(x), x.at = "done", NEW c \in Cookies, Becomes(a, With(x, c))
      PROVE  asks' \subseteq Ask /\ AsksTyped'
  <2> DEFINE y == With(x, c)
  <2>1. y \in Ask /\ y.at = "done" /\ y.do = x.do /\ y.arg = x.arg BY <1>6, WithType
  <2>2. Named(y) /\ Allowed(y) BY <1>6, <2>1 DEF Named, Allowed
  <2>3. asks' = (asks \ {a}) \cup {y} BY <1>6 DEF Becomes
  <2> HIDE DEF y
  <2>. QED BY <2>1, <2>2, <2>3, ReplaceTyped
<1>7. ASSUME NEW x \in Ask, Named(x), x.at = "done", x.with = a.with,
             Processed(a, x) \/ Becomes(a, x)
      PROVE  asks' \subseteq Ask /\ AsksTyped'
  <2>1. CASE Processed(a, x) BY <1>7, <2>1, ProcessedTyped
  <2>2. CASE Becomes(a, x)
    <3>1. asks' = (asks \ {a}) \cup {x} /\ Allowed(x) BY <1>7, <2>2 DEF Becomes, Allowed
    <3>. QED BY <1>7, <3>1, ReplaceTyped
  <2>. QED BY <1>7, <2>1, <2>2
<1>8. /\ a.b \in Browser /\ a.arg \in Names /\ a.with.access \in Token /\ a.with.refresh \in Token
  BY <1>1, AskFields
<1> HIDE DEF yes, no
<1>9. CASE ReadPrivate(a)
  <2> DEFINE user == UserData(a.with)
             x == Answer(a, user # NoToken)
             y == [x EXCEPT !.login = user.login]
  <2>1. user \in Token BY <1>8, BlankTokens DEF UserData
  <2>2. user.login \in Names BY <2>1, TokenFields
  <2>3. x \in Ask /\ x.at = "done" /\ x.do = a.do /\ x.arg = a.arg /\ x.with = a.with
    BY <1>1, AnswerType
  <2> HIDE DEF x, user
  <2>4. y \in Ask /\ y.at = "done" /\ y.do = a.do /\ y.arg = a.arg /\ y.with = a.with
    BY <2>2, <2>3 DEF Ask, Names
  <2>5. Named(y) BY <1>3, <2>4 DEF Named
  <2>6. Processed(a, y) BY <1>9 DEF ReadPrivate, user, x
  <2> HIDE DEF y
  <2>7. asks' \subseteq Ask /\ AsksTyped' BY <1>7, <2>4, <2>5, <2>6
  <2>. QED BY <1>9, <2>7 DEF ReadPrivate, TypeOK, server
<1>10. CASE Rotate(a)
  <2> DEFINE t == a.with.refresh
             x == [a EXCEPT !.at = "done"]
  <2>1. a.at = "rotating" /\ expired' = expired \cup {t} /\ Issue(a, x, t.user, t.login, {})
        /\ UNCHANGED <<users, jar, shown, means>>
    BY <1>10 DEF Rotate
  <2>2. t # NoToken BY <1>3, <2>1 DEF Allowed
  <2>3. t.user \in Id /\ t.login \in Login /\ t \in Token \ {NoToken}
    BY <1>8, <2>2, TokenFields
  <2>4. x \in Ask /\ x.at = "done" /\ x.do = a.do /\ x.arg = a.arg BY <1>1, StageType
  <2>5. Named(x) BY <1>3, <2>4 DEF Named
  <2> HIDE DEF x
  <2>6. /\ Counted' /\ odd' \subseteq odd \cup {"alike"}
        /\ \E k \in Cookies : Becomes(a, With(x, k))
    <3>1. PICK u \in Id, l \in Login : u = t.user /\ l = t.login BY <2>3
    <3>2. Issue(a, x, u, l, {}) BY <2>1, <3>1
    <3>3. Counted' BY <3>2, IssueIs
    <3>4. odd' \subseteq odd \cup {} \cup {"alike"} BY <3>2, IssueIs
    <3>5. \E k \in Cookies : Becomes(a, With(x, k)) BY <3>2, IssueIs
    <3>. QED BY <3>3, <3>4, <3>5
  <2>7. asks' \subseteq Ask /\ AsksTyped' BY <1>6, <2>4, <2>5, <2>6
  <2>. QED BY <2>1, <2>3, <2>6, <2>7 DEF TypeOK, Counted, Reason
<1>18. CASE Verify(a)
  <2>1. a.at = "expiring" /\ UNCHANGED <<users, made, expired, jar, shown, means, odd>>
        /\ \E s \in {"rotating", "done"} : Becomes(a, [a EXCEPT !.at = s])
    BY <1>18 DEF Verify, server
  <2>2. a.with.refresh # NoToken BY <1>3, <2>1 DEF Allowed
  <2>3. asks' \subseteq Ask /\ AsksTyped'
    <3>1. PICK s \in {"rotating", "done"} : Becomes(a, [a EXCEPT !.at = s]) BY <2>1
    <3>. QED BY <1>5, <2>2, <3>1
  <2>. QED BY <2>1, <2>3 DEF TypeOK
<1>11. CASE LogIn(a)
  <2>1. a.arg \in Login BY <1>3, <1>11 DEF LogIn, Sent, Named
  <2>2. asks' \subseteq Ask /\ AsksTyped' /\ Counted' /\ odd' \subseteq Reason
    <3>1. CASE Authed(a.with)
      <4>1. Processed(a, yes) /\ UNCHANGED <<made, odd>> BY <1>11, <3>1 DEF LogIn, yes
      <4>2. asks' \subseteq Ask /\ AsksTyped' BY <1>2, <1>4, <1>7, <4>1
      <4>. QED BY <4>1, <4>2 DEF TypeOK, Counted
    <3>2. CASE ~Authed(a.with) /\ Verified(a.arg)
      <4>1. PICK u \in Id, l \in Login : Issue(a, yes, u, l, {})
        BY <1>11, <2>1, <3>2 DEF LogIn, yes, Rows
      <4>2. /\ Counted' /\ odd' \subseteq odd \cup {"alike"}
            /\ \E k \in Cookies : Becomes(a, With(yes, k))
        <5>1. Counted' BY <4>1, IssueIs
        <5>2. odd' \subseteq odd \cup {} \cup {"alike"} BY <4>1, IssueIs
        <5>3. \E k \in Cookies : Becomes(a, With(yes, k)) BY <4>1, IssueIs
        <5>. QED BY <5>1, <5>2, <5>3
      <4>3. asks' \subseteq Ask /\ AsksTyped' BY <1>2, <1>4, <1>6, <4>2
      <4>. QED BY <4>2, <4>3 DEF TypeOK, Reason
    <3>3. CASE ~Authed(a.with) /\ ~Verified(a.arg)
      <4>1. Becomes(a, no) /\ UNCHANGED <<made, odd>> BY <1>11, <3>3 DEF LogIn, no
      <4>2. asks' \subseteq Ask /\ AsksTyped' BY <1>2, <1>4, <1>7, <4>1
      <4>. QED BY <4>1, <4>2 DEF TypeOK, Counted
    <3>. QED BY <3>1, <3>2, <3>3
  <2>. QED BY <1>11, <2>2 DEF LogIn, TypeOK, Counted
<1>12. CASE LogOut(a)
  <2>1. asks' \subseteq Ask /\ AsksTyped'
    BY <1>2, <1>4, <1>6, <1>12, BlankTokens DEF LogOut, yes
  <2>. QED BY <1>12, <2>1 DEF LogOut, TypeOK, server
<1>13. CASE CreateUser(a)
  <2>1. a.do = "create" BY <1>13 DEF CreateUser, Sent
  <2>2. Becomes(a, [a EXCEPT !.at = "checked"]) \/ Processed(a, no) BY <1>13 DEF CreateUser, no
  <2>3. asks' \subseteq Ask /\ AsksTyped' BY <1>2, <1>4, <1>5, <1>7, <2>1, <2>2
  <2>. QED BY <1>13, <2>3 DEF CreateUser, TypeOK, server, Blame, If, Reason
<1>14. CASE InsertUser(a)
  <2>1. asks' \subseteq Ask /\ AsksTyped' BY <1>2, <1>4, <1>7, <1>14 DEF InsertUser, yes
  <2>2. users' \in [Id -> Names] BY <1>8, <1>14 DEF InsertUser, TypeOK, Names
  <2>3. Counted' BY <1>14 DEF InsertUser, TypeOK, Counted, AccountsAssumption
  <2>. QED BY <1>14, <2>1, <2>2, <2>3 DEF InsertUser, TypeOK, Names, Counted
<1>15. CASE UpdateUser(a)
  <2> DEFINE t == a.with.refresh
             bad == t = NoToken \/ ~Verified(a.as) \/ ~Good(t)
  <2>1. a.do = "update" BY <1>15 DEF UpdateUser, Sent
  <2>2. CASE bad
    <3>1. Processed(a, no) /\ UNCHANGED <<expired, odd>> BY <1>15, <2>2 DEF UpdateUser, no
    <3>2. asks' \subseteq Ask /\ AsksTyped' BY <1>2, <1>4, <1>7, <3>1
    <3>. QED BY <1>15, <3>1, <3>2 DEF UpdateUser, TypeOK
  <2>3. CASE ~bad
    <3>1. /\ expired' = expired \cup {t}
          /\ Becomes(a, [a EXCEPT !.at = "checked"]) \/ Becomes(a, no)
          /\ odd' \subseteq odd \cup {"rejected", "twice"}
      BY <1>15, <2>3 DEF UpdateUser, no, Blame, If
    <3>2. t \in Token /\ t # NoToken BY <1>8, <2>3
    <3>3. asks' \subseteq Ask /\ AsksTyped' BY <1>2, <1>4, <1>5, <1>7, <2>1, <3>1, <3>2
    <3>. QED BY <1>15, <3>1, <3>2, <3>3 DEF UpdateUser, TypeOK, Reason
  <2>. QED BY <2>2, <2>3
<1>16. CASE WriteUser(a)
  <2> DEFINE u == a.with.refresh.user
  <2>1. a.do = "update" /\ a.with.refresh # NoToken /\ a.arg \in Login
    BY <1>3, <1>16 DEF WriteUser, Checked, Named, Allowed
  <2>2. u \in Id BY <1>8, <2>1, TokenFields
  <2>3. Issue(a, yes, u, a.arg, If("elsewhere", Elsewhere(a, u))) BY <1>16 DEF WriteUser, yes
  <2>4. /\ Counted' /\ odd' \subseteq odd \cup {"elsewhere", "alike"}
        /\ \E k \in Cookies : Becomes(a, With(yes, k))
    <3>1. If("elsewhere", Elsewhere(a, u)) \subseteq {"elsewhere"} BY DEF If
    <3>2. PICK v \in Id, l \in Login : v = u /\ l = a.arg BY <2>1, <2>2
    <3>3. PICK c : c = yes OBVIOUS
    <3>4. PICK R : R = If("elsewhere", Elsewhere(a, u)) OBVIOUS
    <3>5. Issue(a, c, v, l, R) /\ R \subseteq {"elsewhere"} BY <2>3, <3>1, <3>2, <3>3, <3>4
    <3>6. Counted' BY <3>5, IssueIs
    <3>7. odd' \subseteq odd \cup R \cup {"alike"} BY <3>5, IssueIs
    <3>8. \E k \in Cookies : Becomes(a, With(c, k))
      <4>1. Issue(a, c, v, l, R) BY <3>5
      <4>. QED BY <4>1, IssueIs
    <3>. QED BY <3>3, <3>5, <3>6, <3>7, <3>8
  <2>5. asks' \subseteq Ask /\ AsksTyped' BY <1>2, <1>4, <1>6, <2>4
  <2>6. users' \in [Id -> Names] BY <1>16, <2>1 DEF WriteUser, TypeOK, Names
  <2>7. odd' \subseteq Reason BY <2>4 DEF TypeOK, Reason
  <2>. QED BY <1>16, <2>4, <2>5, <2>6, <2>7 DEF WriteUser, TypeOK, Names, Counted
<1>17. CASE DeleteUser(a)
  <2> DEFINE t == a.with.refresh
  <2>1. CASE Good(t) /\ Verified(t.login)
    <3>1. /\ expired' = expired \cup {t}
          /\ users' = [users EXCEPT ![t.user] = NoLogin]
          /\ Becomes(a, With(yes, NoCookies))
          /\ odd' \subseteq odd \cup {"elsewhere"}
      BY <1>17, <2>1 DEF DeleteUser, yes, Blame, If
    <3>2. t \in Token /\ t # NoToken BY <1>8, <2>1 DEF Good
    <3>3. asks' \subseteq Ask /\ AsksTyped' BY <1>2, <1>4, <1>6, <3>1, BlankTokens
    <3>4. users' \in [Id -> Names] BY <3>1 DEF TypeOK, Names
    <3>. QED BY <1>17, <3>1, <3>2, <3>3, <3>4 DEF DeleteUser, TypeOK, Reason, Names
  <2>2. CASE ~(Good(t) /\ Verified(t.login))
    <3>1. Processed(a, no) /\ UNCHANGED <<users, expired, odd>> BY <1>17, <2>2 DEF DeleteUser, no
    <3>2. asks' \subseteq Ask /\ AsksTyped' BY <1>2, <1>4, <1>7, <3>1
    <3>. QED BY <1>17, <3>1, <3>2 DEF DeleteUser, TypeOK
  <2>. QED BY <2>1, <2>2
<1>. QED BY <1>9, <1>10, <1>11, <1>12, <1>13, <1>14, <1>15, <1>16, <1>17, <1>18

LEMMA BrowserTyped ==
  ASSUME TypeOK, AsksTyped, NEW b \in Browser, NEW l \in Login,
         \/ SignIn(b, l) \/ SignUp(b, l) \/ SignOut(b) \/ SaveProfile(b, l)
         \/ DeleteProfile(b) \/ Visit(b) \/ Launch(b) \/ AccessExpires(b)
  PROVE  TypeOK' /\ AsksTyped'
<1>1. NoLogin \in Names /\ l \in Names BY DEF Names
<1>2. CASE SignIn(b, l) \/ SignUp(b, l) \/ SaveProfile(b, l)
  <2>1. PICK do \in {"login", "create", "update"} : Send(b, do, l)
    BY <1>2 DEF SignIn, SignUp, SaveProfile
  <2>2. asks' \subseteq Ask /\ AsksTyped' /\ odd' \subseteq Reason BY <1>1, <2>1, SendTyped
  <2>. QED BY <1>2, <2>2 DEF SignIn, SignUp, SaveProfile, TypeOK, server
<1>3. CASE SignOut(b) \/ DeleteProfile(b) \/ Visit(b) \/ Launch(b)
  <2>1. PICK do \in {"logout", "delete", "list", "private"} : Send(b, do, NoLogin)
    BY <1>3 DEF SignOut, DeleteProfile, Visit, Launch
  <2>2. asks' \subseteq Ask /\ AsksTyped' /\ odd' \subseteq Reason BY <1>1, <2>1, SendTyped
  <2>. QED BY <1>3, <2>2 DEF SignOut, DeleteProfile, Visit, Launch, TypeOK, server
<1>4. CASE AccessExpires(b)
  <2>1. jar[b] \in Cookies BY DEF TypeOK
  <2>2. [jar[b] EXCEPT !.access = NoToken] \in Cookies BY <2>1, BlankTokens DEF Cookies
  <2>3. jar' = [jar EXCEPT ![b] = [jar[b] EXCEPT !.access = NoToken]]
    BY <1>4 DEF AccessExpires
  <2>4. jar' \in [Browser -> Cookies] BY <2>2, <2>3 DEF TypeOK
  <2>. QED BY <1>4, <2>4 DEF AccessExpires, TypeOK, AsksTyped, Named, Allowed, server
<1>. QED BY <1>2, <1>3, <1>4

LEMMA AnswersTyped ==
  ASSUME TypeOK, AsksTyped, NEW a \in asks,
         \/ AuthUpdated(a) \/ SignedIn(a) \/ ProfileSaved(a) \/ ProfileDeleted(a)
         \/ OtherAnswer(a) \/ AnswerLost(a)
  PROVE  TypeOK' /\ AsksTyped'
<1>1. a \in Ask /\ a.b \in Browser /\ a.arg \in Names /\ a.login \in Names
  BY AskFields DEF TypeOK
<1>2. CASE AuthUpdated(a)
  <2>1. End(a) \/ Then(a, "list") BY <1>2 DEF AuthUpdated
  <2>2. jar' \in [Browser -> Cookies] /\ asks' \subseteq Ask /\ AsksTyped'
    BY <1>2, <2>1, AnsweredTyped DEF AuthUpdated
  <2>. QED BY <1>1, <1>2, <2>2 DEF AuthUpdated, TypeOK, server, Names
<1>3. CASE SignedIn(a)
  <2>1. End(a) \/ Then(a, "private") BY <1>3 DEF SignedIn
  <2>2. jar' \in [Browser -> Cookies] /\ asks' \subseteq Ask /\ AsksTyped'
    BY <1>3, <2>1, AnsweredTyped DEF SignedIn
  <2>. QED BY <1>1, <1>3, <2>2 DEF SignedIn, TypeOK, server
<1>4. CASE ProfileSaved(a)
  <2>1. jar' \in [Browser -> Cookies] /\ asks' \subseteq Ask /\ AsksTyped'
    BY <1>4, AnsweredTyped DEF ProfileSaved
  <2>. QED BY <1>1, <1>4, <2>1 DEF ProfileSaved, TypeOK, server, Names
<1>5. CASE ProfileDeleted(a)
  <2>1. End(a) \/ Then(a, "logout") BY <1>5 DEF ProfileDeleted
  <2>2. jar' \in [Browser -> Cookies] /\ asks' \subseteq Ask /\ AsksTyped'
    BY <1>5, <2>1, AnsweredTyped DEF ProfileDeleted
  <2>. QED BY <1>1, <1>5, <2>2 DEF ProfileDeleted, TypeOK, server
<1>6. CASE OtherAnswer(a)
  <2>1. jar' \in [Browser -> Cookies] /\ asks' \subseteq Ask /\ AsksTyped'
    BY <1>6, AnsweredTyped DEF OtherAnswer
  <2>. QED BY <1>6, <2>1 DEF OtherAnswer, TypeOK, server
<1>7. CASE AnswerLost(a)
  BY <1>7 DEF AnswerLost, End, Blame, TypeOK, Reason, server, AsksTyped, Named, Allowed
<1>. QED BY <1>2, <1>3, <1>4, <1>5, <1>6, <1>7

----------------------------------------------------------------------------
(* Logins.                                                                 *)

(* A step that writes no row and checks no login.                          *)
LEMMA NothingChecked ==
  ASSUME Exclusive, UNCHANGED users, odd \subseteq odd',
         \A c \in asks' : c.at = "checked" => c \in asks
  PROVE  Exclusive'
BY DEF Exclusive, OneRowEach, Reserved

(* Requests leave the check as they are answered.                          *)
Leaves(a) == \A c \in asks' : c.at = "checked" => c \in asks \ {a}

LEMMA AnswerLeaves ==
  ASSUME NEW a \in Ask, NEW ok \in BOOLEAN, NEW k, NEW l,
         \/ Becomes(a, Answer(a, ok)) \/ Becomes(a, With(Answer(a, ok), k))
         \/ Processed(a, Answer(a, ok)) \/ Processed(a, [Answer(a, ok) EXCEPT !.login = l])
         \/ Becomes(a, [a EXCEPT !.at = "done"]) \/ Becomes(a, [a EXCEPT !.at = "rotating"])
         \/ Becomes(a, With([a EXCEPT !.at = "done"], k))
  PROVE  Leaves(a)
<1>1. Answer(a, ok).at = "done" /\ [Answer(a, ok) EXCEPT !.at = "expiring"].at = "expiring"
  BY DEF Ask, Answer
<1>2. [Answer(a, ok) EXCEPT !.login = l].at = "done"
  BY DEF Ask, Answer
<1>3. [[Answer(a, ok) EXCEPT !.login = l] EXCEPT !.at = "expiring"].at = "expiring"
  BY DEF Ask, Answer
<1>4. With(Answer(a, ok), k).at = "done"
  BY DEF Ask, Answer, With
<1>5. /\ [a EXCEPT !.at = "done"].at = "done" /\ With([a EXCEPT !.at = "done"], k).at = "done"
      /\ [a EXCEPT !.at = "rotating"].at = "rotating"
  BY DEF Ask, With
<1>. QED BY <1>1, <1>2, <1>3, <1>4, <1>5 DEF Becomes, Processed, Leaves

(* The steps that write no row and check no login.                         *)
LEMMA OthersExclusive ==
  ASSUME AccountsInv,
         \/ \E a \in asks : \/ ReadPrivate(a) \/ Verify(a) \/ Rotate(a) \/ LogIn(a) \/ LogOut(a)
                            \/ AuthUpdated(a) \/ SignedIn(a) \/ ProfileSaved(a)
                            \/ ProfileDeleted(a) \/ OtherAnswer(a) \/ AnswerLost(a)
         \/ \E b \in Browser, l \in Login :
              \/ SignIn(b, l) \/ SignUp(b, l) \/ SignOut(b) \/ SaveProfile(b, l)
              \/ DeleteProfile(b) \/ Visit(b) \/ Launch(b) \/ AccessExpires(b)
  PROVE  Exclusive'
<1>1. TypeOK /\ Exclusive BY DEF AccountsInv
<1>2. ASSUME NEW a \in asks, ReadPrivate(a) \/ Verify(a) \/ Rotate(a) \/ LogIn(a) \/ LogOut(a)
      PROVE  Exclusive'
  <2>1. a \in Ask BY <1>1 DEF TypeOK
  <2>2. Leaves(a)
    <3>1. CASE ReadPrivate(a) BY <2>1, <3>1, AnswerLeaves DEF ReadPrivate
    <3>2. CASE Rotate(a) BY <2>1, <3>2, AnswerLeaves DEF Rotate, Issue
    <3>3. CASE LogIn(a) BY <2>1, <3>3, AnswerLeaves DEF LogIn, Issue
    <3>4. CASE LogOut(a) BY <2>1, <3>4, AnswerLeaves DEF LogOut
    <3>5. CASE Verify(a) BY <2>1, <3>5, AnswerLeaves DEF Verify
    <3>. QED BY <1>2, <3>1, <3>2, <3>3, <3>4, <3>5
  <2>3. UNCHANGED users /\ odd \subseteq odd'
    BY <1>2 DEF ReadPrivate, Verify, Rotate, LogIn, LogOut, server, Blame, Issue
  <2>. QED BY <1>1, <2>2, <2>3, NothingChecked DEF Leaves
<1>3. ASSUME NEW a \in asks,
             \/ AuthUpdated(a) \/ SignedIn(a) \/ ProfileSaved(a)
             \/ ProfileDeleted(a) \/ OtherAnswer(a) \/ AnswerLost(a)
      PROVE  Exclusive'
  <2>1. UNCHANGED users /\ odd \subseteq odd'
   
      BY <1>3 DEF AuthUpdated, SignedIn, ProfileSaved, ProfileDeleted, OtherAnswer,
                  AnswerLost, server, Blame
  <2>2. End(a) \/ \E do \in {"private", "list", "logout"} : Then(a, do)
    BY <1>3 DEF AuthUpdated, SignedIn, ProfileSaved, ProfileDeleted, OtherAnswer, AnswerLost
  <2>3. \A c \in asks' : c.at = "checked" => c \in asks
    BY <2>2 DEF End, Then, Request
  <2>. QED BY <1>1, <2>1, <2>3, NothingChecked
<1>4. ASSUME NEW b \in Browser, NEW l \in Login,
             \/ SignIn(b, l) \/ SignUp(b, l) \/ SignOut(b) \/ SaveProfile(b, l)
             \/ DeleteProfile(b) \/ Visit(b) \/ Launch(b) \/ AccessExpires(b)
      PROVE  Exclusive'
  <2>1. UNCHANGED users /\ odd \subseteq odd'
    BY <1>4 DEF SignIn, SignUp, SignOut, SaveProfile, DeleteProfile, Visit, Launch,
                AccessExpires, Send, server, Blame
  <2>2. UNCHANGED asks \/ \E do, arg : Send(b, do, arg)
    BY <1>4 DEF SignIn, SignUp, SignOut, SaveProfile, DeleteProfile, Visit, Launch, AccessExpires
  <2>3. \A c \in asks' : c.at = "checked" => c \in asks
    BY <2>2 DEF Send, Request
  <2>. QED BY <1>1, <2>1, <2>3, NothingChecked
<1>. QED BY <1>2, <1>3, <1>4

(* A check that finds a login free reserves it, unless another request for *)
(* it has passed its check already, which odd remembers.                   *)
LEMMA ChecksExclusive ==
  ASSUME AccountsInv, NEW a \in asks, CreateUser(a) \/ UpdateUser(a)
  PROVE  Exclusive'
<1>1. TypeOK /\ AsksTyped /\ Exclusive /\ a \in Ask BY DEF AccountsInv, TypeOK
<1>2. UNCHANGED users /\ odd \subseteq odd' BY DEF CreateUser, UpdateUser, server, Blame
<1>3. CASE Leaves(a) BY <1>1, <1>2, <1>3, NothingChecked DEF Leaves
<1> DEFINE x == [a EXCEPT !.at = "checked"]
<1>4. ASSUME Becomes(a, x), Free(a.arg, RowOf(a)), "twice" \notin odd', ~Racing(a)
      PROVE  Exclusive'
  <2>1. x.at = "checked" /\ x.arg = a.arg /\ RowOf(x) = RowOf(a)
    BY <1>1, StageType DEF RowOf
  <2>2. asks' = (asks \ {a}) \cup {x} BY <1>4 DEF Becomes
  <2> HIDE DEF x
  <2>3. \A c \in asks \ {a} : ~(c.at = "checked" /\ c.arg = x.arg)
    BY <1>4, <2>1 DEF Racing
  <2>4. /\ OneRowEach
        /\ \A c \in asks : c.at = "checked" => Reserved(c)
    BY <1>1, <1>2, <1>4 DEF Exclusive
  <2>5. \A u \in Id : users[u] = x.arg => u = RowOf(x)
    BY <1>4, <2>1 DEF Free, Rows
  <2>6. Reserved(x)' BY <1>2, <2>2, <2>3, <2>5 DEF Reserved, RowOf
  <2>7. ASSUME NEW y \in asks \ {a}, y.at = "checked" PROVE Reserved(y)'
    BY <1>2, <2>1, <2>2, <2>3, <2>4, <2>7 DEF Reserved, RowOf
  <2>. QED BY <1>2, <2>2, <2>4, <2>6, <2>7 DEF Exclusive, OneRowEach
<1>5. CASE CreateUser(a)
  <2>1. a.do = "create" BY <1>5 DEF CreateUser, Sent
  <2>2. CASE ~Free(a.arg, 0)
    <3>1. Processed(a, Answer(a, FALSE)) BY <1>5, <2>2 DEF CreateUser
    <3>. QED BY <1>1, <1>3, <3>1, AnswerLeaves
  <2>3. CASE Free(a.arg, 0)
    <3>1. Becomes(a, x) /\ odd' = odd \cup If("twice", Racing(a))
      BY <1>5, <2>3 DEF CreateUser, Blame
    <3>2. CASE "twice" \notin odd' BY <1>4, <2>1, <2>3, <3>1, <3>2 DEF RowOf, If
    <3>. QED BY <3>2 DEF Exclusive
  <2>. QED BY <2>2, <2>3
<1>6. CASE UpdateUser(a)
  <2> DEFINE t == a.with.refresh
             bad == t = NoToken \/ ~Verified(a.as) \/ ~Good(t)
  <2>1. RowOf(a) = t.user BY <1>6 DEF UpdateUser, Sent, RowOf
  <2>2. CASE bad \/ ~Free(a.arg, t.user)
    <3>1. Processed(a, Answer(a, FALSE)) \/ Becomes(a, Answer(a, FALSE))
      BY <1>6, <2>2 DEF UpdateUser
    <3>. QED BY <1>1, <1>3, <3>1, AnswerLeaves
  <2>3. CASE ~bad /\ Free(a.arg, t.user)
    <3>1. Becomes(a, x) /\ If("twice", Racing(a)) \subseteq odd' BY <1>6, <2>3 DEF UpdateUser, Blame
    <3>2. CASE "twice" \notin odd' BY <1>4, <2>1, <2>3, <3>1, <3>2 DEF If
    <3>. QED BY <3>2 DEF Exclusive
  <2>. QED BY <2>2, <2>3
<1>. QED BY <1>5, <1>6

(* A write takes the login its request has reserved: no other row gets it, *)
(* and what others have reserved stays theirs.                             *)
LEMMA WritesExclusive ==
  ASSUME AccountsAssumption, AccountsInv, NEW a \in asks, InsertUser(a) \/ WriteUser(a)
  PROVE  Exclusive'
<1>1. TypeOK /\ AsksTyped /\ Exclusive /\ a \in Ask BY DEF AccountsInv, TypeOK
<1>2. a.at = "checked" /\ odd \subseteq odd' BY DEF InsertUser, WriteUser, Checked, Blame, Issue
<1>3. Leaves(a)
  <2>1. CASE InsertUser(a) BY <1>1, <2>1, AnswerLeaves DEF InsertUser
  <2>2. CASE WriteUser(a) BY <1>1, <2>2, AnswerLeaves DEF WriteUser, Issue
  <2>. QED BY <2>1, <2>2
<1>4. UNCHANGED users \/ \E r \in Id : /\ users' = [users EXCEPT ![r] = a.arg]
                                       /\ RowOf(a) \in {0, r}
  <2>1. CASE InsertUser(a)
    <3>1. made.rows + 1 \in Id BY <1>1, <2>1 DEF InsertUser, TypeOK, Id, AccountsAssumption
    <3>. QED BY <2>1, <3>1 DEF InsertUser, Checked, RowOf
  <2>2. CASE WriteUser(a)
    <3>1. a.do = "update" /\ a.with.refresh # NoToken
      BY <1>1, <1>2, <2>2 DEF WriteUser, Checked, AsksTyped, Allowed
    <3>2. a.with.refresh.user \in Id BY <1>1, <3>1, AskFields, TokenFields
    <3>. QED BY <2>2, <3>1, <3>2 DEF WriteUser, RowOf
  <2>. QED BY <2>1, <2>2
<1>5. ASSUME NEW r \in Id, users' = [users EXCEPT ![r] = a.arg], RowOf(a) \in {0, r},
             "twice" \notin odd
      PROVE  OneRowEach' /\ \A c \in asks' : c.at = "checked" => Reserved(c)'
  <2>1. users \in [Id -> Names] /\ 0 \notin Id BY <1>1 DEF TypeOK, Names, Id
  <2>2. OneRowEach /\ \A c \in asks : c.at = "checked" => Reserved(c)
    BY <1>1, <1>5 DEF Exclusive
  <2>3. Reserved(a) BY <1>2, <2>2
  <2>4. \A u \in Id : users[u] = a.arg => u = r BY <1>5, <2>1, <2>3 DEF Reserved
  <2>5. OneRowEach' BY <1>5, <2>1, <2>2, <2>4 DEF OneRowEach
  <2>6. ASSUME NEW c \in asks', c.at = "checked" PROVE Reserved(c)'
    <3>1. c \in asks /\ c # a BY <1>3, <2>6 DEF Leaves
    <3>2. Reserved(c) BY <2>2, <2>6, <3>1
    <3>3. c.arg # a.arg BY <1>2, <2>3, <2>6, <3>1 DEF Reserved
    <3>4. \A u \in Id : users'[u] = c.arg => users[u] = c.arg BY <1>5, <2>1, <3>3
    <3>5. \A d \in asks' : d.at = "checked" => d \in asks BY <1>3 DEF Leaves
    <3>. QED BY <3>2, <3>4, <3>5 DEF Reserved, RowOf
  <2>. QED BY <2>5, <2>6
<1>6. CASE UNCHANGED users BY <1>1, <1>2, <1>3, <1>6, NothingChecked DEF Leaves
<1>. QED BY <1>2, <1>4, <1>5, <1>6 DEF Exclusive

(* A row that is deleted frees its login for whoever has reserved another. *)
LEMMA DeleteExclusive ==
  ASSUME AccountsAssumption, AccountsInv, NEW a \in asks, DeleteUser(a)
  PROVE  Exclusive'
<1>1. TypeOK /\ AsksTyped /\ Exclusive /\ a \in Ask BY DEF AccountsInv, TypeOK
<1>2. odd \subseteq odd' BY DEF DeleteUser, Blame
<1>3. Leaves(a) BY <1>1, AnswerLeaves DEF DeleteUser
<1>4. UNCHANGED users \/ users' = [users EXCEPT ![a.with.refresh.user] = NoLogin]
  BY DEF DeleteUser
<1>5. ASSUME users' = [users EXCEPT ![a.with.refresh.user] = NoLogin], "twice" \notin odd
      PROVE  OneRowEach' /\ \A c \in asks' : c.at = "checked" => Reserved(c)'
  <2>1. users \in [Id -> Names] BY <1>1 DEF TypeOK, Names
  <2>2. OneRowEach /\ \A c \in asks : c.at = "checked" => Reserved(c)
    BY <1>1, <1>5 DEF Exclusive
  <2>3. \A u \in Id : users'[u] # NoLogin => users'[u] = users[u] BY <1>5, <2>1
  <2>4. OneRowEach' BY <2>2, <2>3 DEF OneRowEach
  <2>5. ASSUME NEW c \in asks', c.at = "checked" PROVE Reserved(c)'
    <3>1. \A d \in asks' : d.at = "checked" => d \in asks BY <1>3 DEF Leaves
    <3>2. Reserved(c) /\ c \in asks BY <2>2, <2>5, <3>1
    <3>3. c.arg \in Login BY <1>1, <2>5, <3>2 DEF AsksTyped, Named, Allowed
    <3>4. c.arg # NoLogin BY <3>3 DEF AccountsAssumption
    <3>. QED BY <2>3, <3>1, <3>2, <3>4 DEF Reserved, RowOf
  <2>. QED BY <2>4, <2>5
<1>6. CASE UNCHANGED users BY <1>1, <1>2, <1>3, <1>6, NothingChecked DEF Leaves
<1>. QED BY <1>2, <1>4, <1>5, <1>6 DEF Exclusive

----------------------------------------------------------------------------
(* Nobody has asked for anything.                                          *)
LEMMA InitInv == ASSUME AccountsAssumption PROVE Init => AccountsInv
<1> SUFFICES ASSUME Init PROVE AccountsInv
  OBVIOUS
<1>1. PICK l \in Login, S \in SUBSET Browser :
        /\ users = [u \in Id |-> IF u = 1 THEN l ELSE NoLogin]
        /\ jar = [b \in Browser |->
                  IF b \in S THEN [access |-> NoToken,
                                   refresh |-> [user |-> 1, login |-> l, n |-> 1]]
                             ELSE NoCookies]
        /\ means = [b \in Browser |-> IF b \in S THEN "in" ELSE "out"]
        /\ shown = [b \in Browser |-> IF b \in S THEN l ELSE NoLogin]
  BY DEF Init
<1>2. asks = {} /\ odd = {} /\ expired = {} /\ made = [rows |-> 1, tokens |-> 1, second |-> 1] BY DEF Init
<1>3. 1 \in Id /\ 1 \in 0 .. MaxToken
  BY DEF Id, AccountsAssumption
<1>4. [access |-> NoToken, refresh |-> [user |-> 1, login |-> l, n |-> 1]] \in Cookies
  BY <1>3, BlankTokens DEF Cookies, Token
<1>5. TypeOK BY <1>1, <1>2, <1>3, <1>4, BlankTokens DEF TypeOK, Id, AccountsAssumption
<1>6. Exclusive BY <1>1, <1>2 DEF Exclusive, OneRowEach
<1>. QED BY <1>2, <1>5, <1>6 DEF AccountsInv, AsksTyped

LEMMA NextInv == ASSUME AccountsAssumption PROVE AccountsInv /\ [Next]_vars => AccountsInv'
<1> SUFFICES ASSUME AccountsInv, [Next]_vars PROVE AccountsInv'
  OBVIOUS
<1>1. TypeOK /\ AsksTyped /\ Exclusive BY DEF AccountsInv
<1>2. ASSUME NEW a \in asks, ReadPrivate(a) \/ Verify(a) \/ Rotate(a) \/ LogIn(a) \/ LogOut(a)
      PROVE  AccountsInv'
  BY <1>1, <1>2, ServerTyped, OthersExclusive DEF AccountsInv
<1>3. ASSUME NEW a \in asks, CreateUser(a) \/ UpdateUser(a)
      PROVE  AccountsInv'
  BY <1>1, <1>3, ServerTyped, ChecksExclusive DEF AccountsInv
<1>4. ASSUME NEW a \in asks, InsertUser(a) \/ WriteUser(a)
      PROVE  AccountsInv'
  BY <1>1, <1>4, ServerTyped, WritesExclusive DEF AccountsInv
<1>5. ASSUME NEW a \in asks, DeleteUser(a)
      PROVE  AccountsInv'
  BY <1>1, <1>5, ServerTyped, DeleteExclusive DEF AccountsInv
<1>6. ASSUME NEW b \in Browser, NEW l \in Login,
             \/ SignIn(b, l) \/ SignUp(b, l) \/ SignOut(b) \/ SaveProfile(b, l)
             \/ DeleteProfile(b) \/ Visit(b) \/ Launch(b) \/ AccessExpires(b)
      PROVE  AccountsInv'
  BY <1>1, <1>6, BrowserTyped, OthersExclusive DEF AccountsInv
<1>7. ASSUME NEW a \in asks,
             \/ AuthUpdated(a) \/ SignedIn(a) \/ ProfileSaved(a)
             \/ ProfileDeleted(a) \/ OtherAnswer(a) \/ AnswerLost(a)
      PROVE  AccountsInv'
  BY <1>1, <1>7, AnswersTyped, OthersExclusive DEF AccountsInv
<1>8. CASE UNCHANGED vars
  BY <1>1, <1>8 DEF vars, server, AccountsInv, TypeOK, AsksTyped, Named, Allowed, Exclusive,
                    OneRowEach, Reserved, RowOf
<1>9. PICK l \in Login : TRUE BY DEF AccountsAssumption
<1>. QED BY <1>2, <1>3, <1>4, <1>5, <1>6, <1>7, <1>8, <1>9 DEF Next

(* The account service and the browsers keep AccountsInv.                  *)
THEOREM AccountsInvariant == ASSUME AccountsAssumption PROVE Spec => []AccountsInv
BY InitInv, NextInv, PTL DEF Spec

(* Users, cookies and requests stay well formed: in particular no request  *)
(* is checked, rotated or written without a token of a user who was made.  *)
THEOREM TypeCorrect == ASSUME AccountsAssumption PROVE Spec => []TypeOK
<1>1. AccountsInv => TypeOK BY DEF AccountsInv
<1>. QED BY <1>1, AccountsInvariant, PTL

(* verify_password and validate (user.rs) find one row for a login, unless *)
(* two requests for one login have been between check and write together.  *)
THEOREM LoginsStayUnique == ASSUME AccountsAssumption PROVE Spec => []LoginsUnique
<1>1. AccountsInv => LoginsUnique
  <2> SUFFICES ASSUME AccountsInv, "twice" \notin odd, NEW l \in Login
               PROVE  Cardinality(Rows(l)) <= 1
    BY DEF LoginsUnique
  <2>1. \A u, v \in Rows(l) : u = v
    BY DEF AccountsInv, Exclusive, OneRowEach, Rows, AccountsAssumption
  <2>2. CASE Rows(l) = {} BY <2>2, FS_EmptySet
  <2>3. CASE Rows(l) # {}
    <3>1. PICK u \in Rows(l) : TRUE BY <2>3
    <3>2. Rows(l) = {u} BY <2>1, <3>1
    <3>3. Cardinality({u}) = 1 BY FS_Singleton
    <3>. QED BY <3>2, <3>3
  <2>. QED BY <2>2, <2>3
<1>. QED BY <1>1, AccountsInvariant, PTL

----------------------------------------------------------------------------
(* Sessions.  The inductive invariant says of every browser what it was    *)
(* told, and in which hands its tokens are.                                *)

(* Requests as the server leaves them.                                     *)
Shaped(a) ==
  /\ a.at # "done" => a.set = <<>>
  /\ a.at \in {"expiring", "rotating"} => Renews(a.with)
  /\ a.do = "logout" => a.at \in {"sent", "done"} /\ (a.at = "done" => a.set = <<NoCookies>>)
  /\ a.set # <<>> => Renews(a.with) \/ a.do \in {"login", "logout", "update", "delete"}
  /\ a.do \in {"update", "delete"} /\ a.ok => a.at = "done" /\ a.set # <<>>

(* Cookies that were set together.                                         *)
Paired(c) == c.access # NoToken =>
  /\ c.refresh # NoToken
  /\ c.access.user = c.refresh.user /\ c.access.login = c.refresh.login
BringsPair(a) == Paired(a.with) /\ (a.set # <<>> => Paired(a.set[1]))

(* The refresh tokens a browser has, or is being sent: nobody else has     *)
(* them, unless tokens of one second were alike.                           *)
Refs(b) == {jar[b].refresh} \cup {a.with.refresh : a \in Of(b)}
             \cup {a.set[1].refresh : a \in {x \in Of(b) : x.set # <<>>}}
Own == "alike" \notin odd =>
  \A b, c \in Browser : b # c => Refs(b) \cap Refs(c) \subseteq {NoToken}
RowsMade == \A u \in Id : users[u] # NoLogin => u <= made.rows

Straight == odd \cap {"crossed", "lost"} = {}
Plain == Straight /\ odd \cap {"rejected", "alike"} = {}

(* Only one request at a time turns a browser into somebody or nobody, and *)
(* meanwhile no other brings it tokens.                                    *)
OneTurn(b) == \A a, c \in Of(b) : a # c /\ Turns(a.do) => ~Turns(c.do) /\ ~Renews(c.with)

(* Cookies that are good, of a row that has their login.                   *)
Stands(t) == "elsewhere" \notin odd => users[t.user] = t.login
Current(c) == Good(c.refresh) /\ Stands(c.refresh)

(* A browser that was told to sign out: requests that bring it nothing,    *)
(* unless it is to be told to sign in.                                     *)
Harmless(b, a) ==
  \/ a.do = "logout"
  \/ /\ a.do = "login" /\ a.with = NoCookies /\ a.at \in {"sent", "done"}
     /\ a.at = "done" =>
          IF a.ok THEN a.set # <<>> /\ ("alike" \notin odd => Current(a.set[1])) ELSE a.set = <<>>
  \/ a.do = "private" /\ a.with = NoCookies /\ a.set = <<>> /\ (a.at # "sent" => ~a.ok)
  \/ ~Turns(a.do) /\ ~Renews(a.with) /\ a.set = <<>>
Nobody(b) ==
  /\ shown[b] = NoLogin
  /\ \A a \in Of(b) : Harmless(b, a)
  /\ jar[b] = NoCookies \/ \E a \in Of(b) : a.do = "logout"

(* A browser that was told to sign in.  The token of a request that turns  *)
(* it is the one it has; others that may be rotated are of the same user,  *)
(* and there may be several, with the same token or with different ones.   *)
Kin(t, s) == t.user = s.user /\ t.login = s.login
Uses(b, a) ==
  IF Turns(a.do) THEN a.do # "logout" /\ a.with.refresh = jar[b].refresh
  ELSE Renews(a.with) => Kin(a.with.refresh, jar[b].refresh)

(* What they bring nobody has used yet.                                    *)
Unused(b, a) ==
  LET t == a.set[1].refresh IN
  /\ jar[b].refresh # t
  /\ \A c \in Of(b) : c.with.refresh # t
  /\ \A c \in Of(b) \ {a} : c.set # <<>> => c.set[1].refresh # t
Carries(b, a) ==
  /\ Current(a.set[1]) /\ Unused(b, a)
  /\ IF a.do = "update" /\ a.ok THEN a.set[1].refresh.login = a.arg
     ELSE Kin(a.set[1].refresh, jar[b].refresh)
Left(a) == a.do = "delete" /\ a.ok

Says(b, a) ==
  a.do = "private" /\ a.at # "sent" /\ a.ok =>
    a.login # NoLogin /\ a.login = jar[b].refresh.login
Fits(b, a) == Uses(b, a) /\ Says(b, a) /\ (a.set # <<>> => Left(a) \/ Carries(b, a))

(* Its token is good, or a request brings one or will, or took the profile *)
(* away; and its row is as it was, or a request has written it.            *)
Pending(a) == a.set # <<>> \/ (a.do = "update" /\ a.at = "checked")
Wrote(a) == a.do \in {"update", "delete"} /\ a.ok
Told(a) == a.do = "private" /\ (a.at # "sent" => a.ok)
Shows(b, l) == "elsewhere" \notin odd => shown[b] \in {NoLogin, l}
Somebody(b) ==
  /\ jar[b].refresh # NoToken
  /\ \A a \in Of(b) : Fits(b, a)
  /\ Good(jar[b].refresh) \/ \E a \in Of(b) : Pending(a)
  /\ Stands(jar[b].refresh) \/ \E a \in Of(b) : Wrote(a)
  /\ Shows(b, jar[b].refresh.login)
  /\ shown[b] # NoLogin \/ \E a \in Of(b) : Told(a)

----------------------------------------------------------------------------
(* Requests, their cookies and tokens.                                     *)

Same(a, c) == c.b = a.b /\ c.do = a.do /\ c.arg = a.arg /\ c.with = a.with

LEMMA AnswerIs ==
  ASSUME NEW a \in Ask, NEW ok \in BOOLEAN
  PROVE  /\ Same(a, Answer(a, ok)) /\ Answer(a, ok).set = a.set /\ Answer(a, ok).ok = ok
         /\ Answer(a, ok).at = "done"
BY DEF Ask, Answer, Same

LEMMA StageIs ==
  ASSUME NEW a \in Ask, NEW s \in {"sent", "checked", "expiring", "rotating", "done"}
  PROVE  /\ Same(a, [a EXCEPT !.at = s]) /\ [a EXCEPT !.at = s].set = a.set
         /\ [a EXCEPT !.at = s].ok = a.ok /\ [a EXCEPT !.at = s].at = s
         /\ [a EXCEPT !.at = s].login = a.login
BY DEF Ask, Same

LEMMA WithIs ==
  ASSUME NEW a \in Ask, NEW k
  PROVE  /\ Same(a, With(a, k)) /\ With(a, k).set = <<k>> /\ With(a, k).set[1] = k
         /\ With(a, k).set # <<>>
         /\ With(a, k).ok = a.ok /\ With(a, k).at = a.at /\ With(a, k).login = a.login
<1>1. <<k>>[1] = k /\ <<k>> # <<>> OBVIOUS
<1>. QED BY <1>1 DEF Ask, With, Same

(* process_jwt leaves a request answered, or with its token to be rotated. *)
LEMMA ProcessedIs ==
  ASSUME NEW a \in Ask, NEW x \in Ask, Same(a, x), x.at = "done", Processed(a, x)
  PROVE  \E c \in Ask : /\ asks' = (asks \ {a}) \cup {c} /\ Same(a, c)
                        /\ c.set = x.set /\ c.ok = x.ok /\ c.login = x.login
                        /\ c.at \in {"done", "expiring"}
                        /\ c.at = "expiring" => Renews(a.with)
<1> DEFINE y == [x EXCEPT !.at = "expiring"]
           e == a.with.access = NoToken /\ Good(a.with.refresh)
<1>1. /\ y \in Ask /\ Same(x, y) /\ y.set = x.set /\ y.ok = x.ok /\ y.login = x.login
      /\ y.at = "expiring"
  BY StageIs, StageType
<1>2. asks' = (asks \ {a}) \cup {IF e THEN y ELSE x} BY DEF Processed, Becomes
<1>3. Same(a, y) BY <1>1 DEF Same
<1>4. e => Renews(a.with) BY DEF Good, Renews
<1> HIDE DEF y, e
<1>5. CASE e BY <1>1, <1>2, <1>3, <1>4, <1>5
<1>6. CASE ~e BY <1>2, <1>6
<1>. QED BY <1>5, <1>6

LEMMA InRefs ==
  ASSUME NEW b, NEW t
  PROVE  t \in Refs(b) <=> \/ t = jar[b].refresh
                           \/ \E a \in Of(b) : \/ t = a.with.refresh
                                               \/ a.set # <<>> /\ t = a.set[1].refresh
BY DEF Refs

(* The tokens of browsers are tokens, and known.                           *)
LEMMA RefsAre ==
  ASSUME TypeOK, NEW b \in Browser, NEW t \in Refs(b)
  PROVE  t \in Token /\ t \in Known
<1>1. \A a \in Of(b) : a \in asks /\ a \in Ask BY DEF Of, TypeOK
<1>2. \A a \in Of(b) : a.with.refresh \in Token /\ (a.set # <<>> => a.set[1] \in Cookies)
  BY <1>1, AskFields
<1>3. jar[b] \in Cookies BY DEF TypeOK
<1>4. t \in Token BY <1>2, <1>3, InRefs DEF Cookies
<1>5. CASE t = jar[b].refresh BY <1>4, <1>5 DEF Known
<1>6. ASSUME NEW a \in Of(b), t = a.with.refresh PROVE t \in Known
  BY <1>1, <1>6 DEF Known
<1>7. ASSUME NEW a \in Of(b), a.set # <<>>, t = a.set[1].refresh PROVE t \in Known
  BY <1>1, <1>7 DEF Known
<1>. QED BY <1>4, <1>5, <1>6, <1>7, InRefs

LEMMA OfSplit ==
  ASSUME NEW a \in asks, NEW c, c.b = a.b, asks' = (asks \ {a}) \cup {c}
  PROVE  /\ a \in Of(a.b) /\ Of(a.b)' = (Of(a.b) \ {a}) \cup {c}
         /\ \A b : b # a.b => Of(b)' = Of(b)
BY DEF Of

----------------------------------------------------------------------------
(* What the server makes of a request.                                     *)

Turned(a, c) ==
  /\ asks' = (asks \ {a}) \cup {c} /\ Same(a, c) /\ a.at # "done" /\ a.set = <<>>
  /\ UNCHANGED <<jar, shown, means>> /\ odd \subseteq odd'

(* It brings no tokens, and nothing has run out but what had before.       *)
Quietly(a, c) ==
  /\ Turned(a, c) /\ c.set = <<>> /\ UNCHANGED expired
  /\ \A u \in Id : users[u] # NoLogin => users'[u] = users[u]
  /\ c.at \in {"expiring", "rotating"} => Renews(c.with)
  /\ c.do # "logout" /\ c.at # "sent"
  /\ a.at = "checked" => a.do = "create"
  /\ c.do \in {"update", "delete"} => ~c.ok
  /\ c.at = "checked" => c.do = "create"
  /\ c.do = "login" /\ c.with = NoCookies => ~c.ok
  /\ c.do = "private" /\ a.at = "sent" =>
       c.login = UserData(c.with).login /\ (c.ok <=> Authed(c.with))
  /\ c.do = "private" /\ a.at # "sent" => c.ok = a.ok /\ c.login = a.login

LEMMA NobodyAuthed == UserData(NoCookies) = NoToken /\ ~Authed(NoCookies) /\ ~Renews(NoCookies)
BY DEF UserData, NoCookies, Good, Authed, Renews

LEMMA QuietSteps ==
  ASSUME AccountsAssumption, AccountsInv, RowsMade, NEW a \in asks, Shaped(a),
         \/ ReadPrivate(a) \/ CreateUser(a) \/ InsertUser(a) \/ Verify(a)
         \/ LogIn(a) /\ (Authed(a.with) \/ ~Verified(a.arg))
         \/ UpdateUser(a) /\ UNCHANGED expired
         \/ DeleteUser(a) /\ ~(Good(a.with.refresh) /\ Verified(a.with.refresh.login))
  PROVE  \E c \in Ask : Quietly(a, c)
<1>1. TypeOK /\ AsksTyped /\ a \in Ask BY DEF AccountsInv, TypeOK
<1>2. a.at # "done" => a.set = <<>> BY DEF Shaped
<1>3. Named(a) /\ Allowed(a) BY <1>1 DEF AsksTyped
<1>4. ASSUME NEW ok \in BOOLEAN
      PROVE  /\ Answer(a, ok) \in Ask /\ Same(a, Answer(a, ok)) /\ Answer(a, ok).set = a.set
             /\ Answer(a, ok).ok = ok /\ Answer(a, ok).at = "done"
  BY <1>1, AnswerIs, AnswerType
<1>5. CASE ReadPrivate(a)
  <2> DEFINE user == UserData(a.with)
             x == Answer(a, user # NoToken)
             y == [x EXCEPT !.login = user.login]
  <2>1. a.with.access \in Token /\ a.with.refresh \in Token BY <1>1, AskFields
  <2>2. user \in Token BY <2>1, BlankTokens DEF UserData
  <2>3. user.login \in Names BY <2>2, TokenFields
  <2>4. /\ x \in Ask /\ Same(a, x) /\ x.set = a.set /\ x.ok = (user # NoToken) /\ x.at = "done"
    BY <1>4
  <2> HIDE DEF x, user
  <2>5. /\ y \in Ask /\ Same(a, y) /\ y.set = a.set /\ y.ok = (user # NoToken) /\ y.at = "done"
        /\ y.login = user.login
    BY <2>3, <2>4 DEF Ask, Names, Same
  <2>6. Processed(a, y) /\ a.at = "sent" /\ a.do \in {"private", "list"}
    BY <1>5 DEF ReadPrivate, Sent, x, user
  <2> HIDE DEF y
  <2>7. PICK c \in Ask : /\ asks' = (asks \ {a}) \cup {c} /\ Same(a, c)
                         /\ c.set = y.set /\ c.ok = y.ok /\ c.login = y.login
                         /\ c.at \in {"done", "expiring"}
                         /\ c.at = "expiring" => Renews(a.with)
    BY <1>1, <2>5, <2>6, ProcessedIs
  <2>8. user # NoToken <=> Authed(a.with) BY DEF user, Authed
  <2>9. UNCHANGED <<users, expired, jar, shown, means, odd>> BY <1>5 DEF ReadPrivate, server
  <2>10. Quietly(a, c)
    BY <1>2, <2>5, <2>6, <2>7, <2>8, <2>9 DEF Quietly, Turned, Same, user
  <2>. QED BY <2>10
<1>6. ASSUME NEW ok \in BOOLEAN, Processed(a, Answer(a, ok)) \/ Becomes(a, Answer(a, ok)),
             a.at # "done",
             a.at = "checked" => a.do = "create",
             a.do \notin {"logout", "private", "list"}, a.do \in {"update", "delete"} => ~ok,
             a.do = "login" => (ok <=> Authed(a.with)),
             UNCHANGED <<expired, jar, shown, means>>, odd \subseteq odd',
             \A u \in Id : users[u] # NoLogin => users'[u] = users[u]
      PROVE  \E c \in Ask : Quietly(a, c)
  <2> DEFINE x == Answer(a, ok)
  <2>1. x \in Ask /\ Same(a, x) /\ x.set = a.set /\ x.ok = ok /\ x.at = "done" BY <1>4
  <2>2. Processed(a, x) \/ Becomes(a, x) BY <1>6
  <2> HIDE DEF x
  <2>3. PICK c \in Ask : /\ asks' = (asks \ {a}) \cup {c} /\ Same(a, c)
                         /\ c.set = x.set /\ c.ok = x.ok
                         /\ c.at \in {"done", "expiring"}
                         /\ c.at = "expiring" => Renews(a.with)
    <3>1. CASE Processed(a, x) BY <1>1, <2>1, <3>1, ProcessedIs
    <3>2. CASE Becomes(a, x) BY <2>1, <3>2 DEF Becomes
    <3>. QED BY <2>2, <3>1, <3>2
  <2>4. Quietly(a, c) BY <1>2, <1>6, <2>1, <2>3, NobodyAuthed DEF Quietly, Turned, Same
  <2>. QED BY <2>4
<1>7. ASSUME NEW s \in {"checked", "rotating", "done"}, Becomes(a, [a EXCEPT !.at = s]),
             a.at # "done",
             a.at = "checked" => a.do = "create", s = "checked" => a.do = "create",
             s = "rotating" => Renews(a.with),
             s = "done" => a.do # "logout", a.do = "logout" => s \notin {"checked", "rotating"},
             a.do = "private" => a.at # "sent",
             a.do \in {"update", "delete"} => ~a.ok,
             a.do = "login" /\ a.with = NoCookies => ~a.ok,
             UNCHANGED <<users, expired, jar, shown, means>>, odd \subseteq odd'
      PROVE  \E c \in Ask : Quietly(a, c)
  <2> DEFINE x == [a EXCEPT !.at = s]
  <2>0. s \in {"sent", "checked", "expiring", "rotating", "done"} OBVIOUS
  <2>1. x \in Ask BY <1>1, <2>0, StageType
  <2>4. Same(a, x) /\ x.set = a.set /\ x.ok = a.ok /\ x.at = s /\ x.login = a.login
    BY <1>1, <2>0, StageIs
  <2>2. asks' = (asks \ {a}) \cup {x} BY <1>7 DEF Becomes
  <2> HIDE DEF x
  <2>3. Quietly(a, x) BY <1>2, <1>7, <2>2, <2>4 DEF Quietly, Turned, Same
  <2>. QED BY <2>1, <2>3
<1>8. CASE LogIn(a) /\ (Authed(a.with) \/ ~Verified(a.arg))
  <2>1. UNCHANGED <<users, expired, jar, shown, means>> /\ a.at = "sent" /\ a.do = "login"
    BY <1>8 DEF LogIn, Sent
  <2>2. CASE Authed(a.with)
    <3>1. Processed(a, Answer(a, TRUE)) /\ UNCHANGED odd BY <1>8, <2>2 DEF LogIn
    <3>. QED BY <1>6, <2>1, <2>2, <3>1
  <2>3. CASE ~Authed(a.with)
    <3>1. Becomes(a, Answer(a, FALSE)) /\ UNCHANGED odd BY <1>8, <2>3 DEF LogIn
    <3>. QED BY <1>6, <2>1, <2>3, <3>1
  <2>. QED BY <2>2, <2>3
<1>9. CASE CreateUser(a)
  <2>1. UNCHANGED <<users, made, expired, jar, shown, means>> /\ a.at = "sent" /\ a.do = "create"
        /\ odd \subseteq odd'
    BY <1>9 DEF CreateUser, Sent, server, Blame
  <2>2. Becomes(a, [a EXCEPT !.at = "checked"]) \/ Processed(a, Answer(a, FALSE))
    BY <1>9 DEF CreateUser
  <2>. QED BY <1>6, <1>7, <2>1, <2>2
<1>10. CASE InsertUser(a)
  <2>1. /\ UNCHANGED <<expired, jar, shown, means, odd>> /\ a.at = "checked" /\ a.do = "create"
        /\ users' = [users EXCEPT ![made.rows + 1] = a.arg]
        /\ Processed(a, Answer(a, TRUE))
    BY <1>10 DEF InsertUser, Checked
  <2>3. ~(made.rows + 1 <= made.rows) BY <1>1 DEF TypeOK
  <2>4. \A u \in Id : users[u] # NoLogin => users'[u] = users[u]
    BY <1>1, <2>1, <2>3 DEF RowsMade, TypeOK
  <2>. QED BY <1>6, <2>1, <2>4
<1>11. CASE UpdateUser(a) /\ UNCHANGED expired
  <2> DEFINE t == a.with.refresh
             bad == t = NoToken \/ ~Verified(a.as) \/ ~Good(t)
  <2>1. UNCHANGED <<users, made, jar, shown, means>> /\ a.at = "sent" /\ a.do = "update"
    BY <1>11 DEF UpdateUser, Sent
  <2>2. bad
    <3>1. ~bad => t \in expired' /\ t \notin expired BY <1>11 DEF UpdateUser, Good
    <3>. QED BY <1>11, <3>1
  <2>3. Processed(a, Answer(a, FALSE)) /\ UNCHANGED <<expired, odd>> BY <1>11, <2>2 DEF UpdateUser
  <2>. QED BY <1>6, <2>1, <2>3
<1>12. CASE DeleteUser(a) /\ ~(Good(a.with.refresh) /\ Verified(a.with.refresh.login))
  <2>1. /\ UNCHANGED <<made, jar, shown, means, users, expired, odd>> /\ a.at = "sent"
        /\ a.do = "delete"
        /\ Processed(a, Answer(a, FALSE))
    BY <1>12 DEF DeleteUser, Sent
  <2>. QED BY <1>6, <2>1
<1>13. CASE Verify(a)
  <2>1. /\ UNCHANGED <<jar, shown, means, users, expired, odd>> /\ a.at = "expiring"
        /\ \E s \in {"rotating", "done"} : Becomes(a, [a EXCEPT !.at = s])
    BY <1>13 DEF Verify, server
  <2>2. PICK s \in {"rotating", "done"} : Becomes(a, [a EXCEPT !.at = s]) BY <2>1
  <2>3. Renews(a.with) /\ a.do # "logout" BY <2>1 DEF Shaped
  <2>4. a.with # NoCookies BY <2>3, NobodyAuthed
  <2>5. a.do \in {"update", "delete"} => ~a.ok BY <2>1 DEF Shaped
  <2>. QED BY <1>7, <2>1, <2>2, <2>3, <2>4, <2>5
<1>. QED BY <1>5, <1>8, <1>9, <1>10, <1>11, <1>12, <1>13

----------------------------------------------------------------------------
(* Steps of the server that bring tokens or take them away.                *)

(* A pair of tokens that nobody has, unless some of one second were alike. *)
Fresh(k, u, l) ==
  /\ k \in Cookies /\ Paired(k) /\ k.refresh # NoToken
  /\ k.refresh.user = u /\ k.refresh.login = l
  /\ "alike" \notin odd' => k.refresh \notin expired' /\ \A b \in Browser : k.refresh \notin Refs(b)
Brings(c, k) == c.at = "done" /\ c.set = <<k>> /\ c.set[1] = k /\ c.set # <<>>

Rotates(a, c) ==
  /\ Turned(a, c) /\ a.at = "rotating" /\ Renews(a.with)
  /\ c.ok = a.ok /\ c.login = a.login /\ a.with # NoCookies /\ a.do # "logout"
  /\ \E k : Fresh(k, a.with.refresh.user, a.with.refresh.login) /\ Brings(c, k)
  /\ expired' = expired \cup {a.with.refresh} /\ UNCHANGED users

LogsIn(a, c) ==
  /\ Turned(a, c) /\ a.do = "login" /\ a.at = "sent" /\ ~Authed(a.with) /\ c.ok
  /\ \E k, u : Fresh(k, u, a.arg) /\ users[u] = a.arg /\ Brings(c, k)
  /\ UNCHANGED <<users, expired>>

LogsOut(a, c) ==
  /\ Turned(a, c) /\ a.do = "logout" /\ Brings(c, NoCookies)
  /\ UNCHANGED <<users, expired>>

Expires(a, c) ==
  /\ Turned(a, c) /\ a.do = "update" /\ a.at = "sent" /\ Good(a.with.refresh)
  /\ expired' = expired \cup {a.with.refresh} /\ UNCHANGED users
  /\ c.set = <<>> /\ ~c.ok /\ c.at \in {"checked", "done"}
  /\ c.at = "done" => "rejected" \in odd'

Writes(a, c) ==
  /\ Turned(a, c) /\ a.do = "update" /\ a.at = "checked" /\ c.ok
  /\ \E k : Fresh(k, a.with.refresh.user, a.arg) /\ Brings(c, k)
  /\ UNCHANGED expired /\ a.with.refresh \in Token \ {NoToken}
  /\ users[a.with.refresh.user] # NoLogin => users'[a.with.refresh.user] = a.arg

Deletes(a, c) ==
  /\ Turned(a, c) /\ a.do = "delete" /\ a.at = "sent" /\ c.ok /\ Brings(c, NoCookies)
  /\ Good(a.with.refresh) /\ expired' = expired \cup {a.with.refresh}

(* What is issued is fresh.                                                *)
LEMMA FreshIs ==
  ASSUME AccountsAssumption, TypeOK, NEW a \in asks, NEW c, NEW u \in Id, NEW l \in Login,
         NEW reasons, Issue(a, c, u, l, reasons), expired' \subseteq expired \cup {a.with.refresh}
  PROVE  /\ \E k : Fresh(k, u, l) /\ asks' = (asks \ {a}) \cup {With(c, k)}
         /\ odd \subseteq odd' /\ reasons \subseteq odd'
<1>1. odd \subseteq odd' /\ reasons \subseteq odd' BY IssueIs
<1>2. PICK k \in Cookies :
        /\ Becomes(a, With(c, k))
        /\ k.refresh.user = u /\ k.refresh.login = l /\ k.access.user = u /\ k.access.login = l
        /\ k.refresh # NoToken
        /\ "alike" \notin odd' => k.refresh \notin Known
  BY IssueIs
<1>3. Paired(k) BY <1>2 DEF Paired
<1>4. expired \subseteq Known /\ a.with.refresh \in Known BY DEF Known
<1>5. \A b \in Browser : Refs(b) \subseteq Known BY RefsAre
<1>6. "alike" \notin odd' =>
        k.refresh \notin expired' /\ \A b \in Browser : k.refresh \notin Refs(b)
  BY <1>2, <1>4, <1>5
<1>7. Fresh(k, u, l) BY <1>2, <1>3, <1>6 DEF Fresh
<1>8. asks' = (asks \ {a}) \cup {With(c, k)} BY <1>2 DEF Becomes
<1>. QED BY <1>1, <1>7, <1>8

(* The rows of the users that other browsers have tokens of.               *)
Spared(b) ==
  \A t \in Refs(b) : t # NoToken /\ users[t.user] # NoLogin
    => users'[t.user] = users[t.user] \/ "elsewhere" \in odd'

(* A token that another browser has is in use elsewhere.                   *)
LEMMA HeldElsewhere ==
  ASSUME NEW a \in asks, NEW b \in Browser, b # a.b, NEW t \in Refs(b)
  PROVE  Elsewhere(a, t.user)
<1>1. \/ t = jar[b].refresh
      \/ \E c \in asks : c.b = b /\ (t = c.with.refresh \/ (c.set # <<>> /\ t = c.set[1].refresh))
  <2>1. \A c \in Of(b) : c \in asks /\ c.b = b BY DEF Of
  <2>2. \/ t = jar[b].refresh
        \/ \E c \in Of(b) : t = c.with.refresh \/ (c.set # <<>> /\ t = c.set[1].refresh)
    BY InRefs
  <2>. QED BY <2>1, <2>2
<1>. QED BY <1>1 DEF Elsewhere

(* A write spares the rows that other browsers have tokens of, or odd      *)
(* remembers.                                                              *)
LEMMA WriteSpares ==
  ASSUME AccountsAssumption, AccountsInv, NEW a \in asks, NEW u \in Id,
         If("elsewhere", Elsewhere(a, u)) \subseteq odd',
         \A v \in Id : v # u => users'[v] = users[v],
         NEW b \in Browser, b # a.b
  PROVE  Spared(b)
<1>1. ASSUME NEW t \in Refs(b), users'[t.user] # users[t.user], t.user \in Id
      PROVE "elsewhere" \in odd'
  <2>1. t.user = u BY <1>1
  <2>2. Elsewhere(a, u) BY <1>1, <2>1, HeldElsewhere
  <2>. QED BY <2>2 DEF If
<1>2. \A t \in Refs(b) : t # NoToken => t.user \in Id
  BY RefsAre, TokenFields DEF AccountsInv
<1>. QED BY <1>1, <1>2 DEF Spared

(* The steps of the server that issue tokens, make them run out or write   *)
(* rows.                                                                   *)
LEMMA LoudSteps ==
  ASSUME AccountsAssumption, AccountsInv, NEW a \in asks, Shaped(a)
  PROVE  /\ Rotate(a) => \E c \in Ask : Rotates(a, c)
         /\ LogIn(a) /\ ~Authed(a.with) /\ Verified(a.arg) => \E c \in Ask : LogsIn(a, c)
         /\ LogOut(a) => \E c \in Ask : LogsOut(a, c)
         /\ UpdateUser(a) /\ ~UNCHANGED expired => \E c \in Ask : Expires(a, c)
         /\ WriteUser(a) =>
              (\E c \in Ask : Writes(a, c)) /\ \A b \in Browser \ {a.b} : Spared(b)
         /\ DeleteUser(a) /\ Good(a.with.refresh) /\ Verified(a.with.refresh.login) =>
              (\E c \in Ask : Deletes(a, c)) /\ \A b \in Browser \ {a.b} : Spared(b)
<1>1. TypeOK /\ AsksTyped /\ a \in Ask BY DEF AccountsInv, TypeOK
<1>2. a.at # "done" => a.set = <<>> BY DEF Shaped
<1>3. Named(a) /\ Allowed(a) BY <1>1 DEF AsksTyped
<1>4. /\ Answer(a, TRUE) \in Ask /\ Same(a, Answer(a, TRUE)) /\ Answer(a, TRUE).ok
      /\ Answer(a, TRUE).at = "done"
  BY <1>1, AnswerIs, AnswerType
<1>5. ASSUME NEW x \in Ask, Same(a, x), x.at = "done", NEW k \in Cookies
      PROVE  With(x, k) \in Ask /\ Same(a, With(x, k)) /\ With(x, k).ok = x.ok
             /\ With(x, k).login = x.login /\ Brings(With(x, k), k)
  BY <1>5, WithIs, WithType DEF Same, Brings
<1>6. a.with.refresh \in Token /\ a.b \in Browser BY <1>1, AskFields
<1>7. ASSUME NEW x, NEW u \in Id, NEW l \in Login, NEW reasons, Issue(a, x, u, l, reasons),
             expired' \subseteq expired \cup {a.with.refresh}
      PROVE  /\ \E k : Fresh(k, u, l) /\ asks' = (asks \ {a}) \cup {With(x, k)}
             /\ odd \subseteq odd' /\ reasons \subseteq odd'
  BY <1>1, <1>7, FreshIs
<1>10. ASSUME Rotate(a) PROVE \E c \in Ask : Rotates(a, c)
  <2> DEFINE t == a.with.refresh
  <2>1. PICK x : x = [a EXCEPT !.at = "done"] OBVIOUS
  <2>2. /\ a.at = "rotating" /\ Issue(a, x, t.user, t.login, {}) /\ expired' = expired \cup {t}
        /\ UNCHANGED <<users, jar, shown, means>>
    BY <1>10, <2>1 DEF Rotate
  <2>3. Renews(a.with) /\ a.do # "logout" BY <2>2 DEF Shaped
  <2>4. PICK u \in Id, l \in Login : u = t.user /\ l = t.login
    BY <1>6, <2>3, TokenFields DEF Renews
  <2>5. Issue(a, x, u, l, {}) BY <2>2, <2>4
  <2>6. /\ \E k : Fresh(k, u, l) /\ asks' = (asks \ {a}) \cup {With(x, k)}
        /\ odd \subseteq odd'
    BY <1>7, <2>2, <2>5
  <2>7. PICK k : Fresh(k, u, l) /\ asks' = (asks \ {a}) \cup {With(x, k)} BY <2>6
  <2>8. x \in Ask /\ Same(a, x) /\ x.at = "done" /\ x.ok = a.ok /\ x.login = a.login
    BY <1>1, <2>1, StageIs, StageType
  <2>9. PICK c : c = With(x, k) OBVIOUS
  <2>10. c \in Ask /\ Same(a, c) /\ c.ok = a.ok /\ c.login = a.login /\ Brings(c, k)
    BY <1>5, <2>7, <2>8, <2>9 DEF Fresh
  <2>11. a.with # NoCookies BY <2>3, NobodyAuthed
  <2>12. Turned(a, c) BY <1>2, <2>2, <2>6, <2>7, <2>9, <2>10 DEF Turned
  <2>. QED BY <2>2, <2>3, <2>4, <2>7, <2>10, <2>11, <2>12 DEF Rotates
<1>11. ASSUME LogIn(a), ~Authed(a.with), Verified(a.arg) PROVE \E c \in Ask : LogsIn(a, c)
  <2>0. PICK x : x = Answer(a, TRUE) OBVIOUS
  <2>1. a.at = "sent" /\ a.do = "login" /\ UNCHANGED <<users, expired, jar, shown, means>>
    BY <1>11 DEF LogIn, Sent
  <2>2. a.arg \in Login BY <1>3, <2>1 DEF Named
  <2>3. PICK u \in Id, l \in Login : users[u] = a.arg /\ l = a.arg /\ Issue(a, x, u, l, {})
    BY <1>11, <2>0, <2>2 DEF LogIn, Rows
  <2>4. /\ \E k : Fresh(k, u, l) /\ asks' = (asks \ {a}) \cup {With(x, k)}
        /\ odd \subseteq odd'
    BY <1>7, <2>1, <2>3
  <2>5. PICK k : Fresh(k, u, l) /\ asks' = (asks \ {a}) \cup {With(x, k)} BY <2>4
  <2>6. PICK c : c = With(x, k) OBVIOUS
  <2>7. c \in Ask /\ Same(a, c) /\ c.ok /\ Brings(c, k) BY <1>4, <1>5, <2>0, <2>5, <2>6 DEF Fresh
  <2>8. Turned(a, c) BY <1>2, <2>1, <2>4, <2>5, <2>6, <2>7 DEF Turned
  <2>. QED BY <1>11, <2>1, <2>3, <2>5, <2>7, <2>8 DEF LogsIn
<1>12. ASSUME LogOut(a) PROVE \E c \in Ask : LogsOut(a, c)
  <2> DEFINE c == With(Answer(a, TRUE), NoCookies)
  <2>1. /\ Becomes(a, c) /\ a.at = "sent" /\ a.do = "logout"
        /\ UNCHANGED <<users, made, expired, jar, shown, means, odd>>
    BY <1>12 DEF LogOut, Sent, server
  <2>2. c \in Ask /\ Same(a, c) /\ Brings(c, NoCookies) BY <1>4, <1>5, BlankTokens
  <2> HIDE DEF c
  <2>. QED BY <1>2, <2>1, <2>2 DEF LogsOut, Turned, Becomes
<1>13. ASSUME UpdateUser(a), ~UNCHANGED expired PROVE \E c \in Ask : Expires(a, c)
  <2> DEFINE t == a.with.refresh
             x == [a EXCEPT !.at = "checked"]
             y == Answer(a, FALSE)
             free == Free(a.arg, t.user)
  <2>1. a.at = "sent" /\ a.do = "update" /\ UNCHANGED <<users, made, jar, shown, means>>
    BY <1>13 DEF UpdateUser, Sent
  <2>2. /\ Good(t) /\ expired' = expired \cup {t}
        /\ Becomes(a, IF free THEN x ELSE y)
        /\ Blame(If("rejected", ~free) \cup If("twice", Racing(a)))
    BY <1>13 DEF UpdateUser
  <2>3. odd \subseteq odd' /\ (~free => "rejected" \in odd') BY <2>2 DEF Blame, If
  <2>4. ~a.ok BY <2>1 DEF Shaped
  <2>5. x \in Ask /\ Same(a, x) /\ x.set = a.set /\ x.ok = a.ok /\ x.at = "checked"
    BY <1>1, StageIs, StageType
  <2>6. y \in Ask /\ Same(a, y) /\ y.set = a.set /\ y.ok = FALSE /\ y.at = "done"
    BY <1>1, AnswerIs, AnswerType
  <2> HIDE DEF x, y
  <2>7. CASE free BY <1>2, <2>1, <2>2, <2>3, <2>4, <2>5, <2>7 DEF Expires, Turned, Becomes
  <2>8. CASE ~free BY <1>2, <2>1, <2>2, <2>3, <2>6, <2>8 DEF Expires, Turned, Becomes
  <2>. QED BY <2>7, <2>8
<1>14. ASSUME WriteUser(a)
       PROVE  (\E c \in Ask : Writes(a, c)) /\ \A b \in Browser \ {a.b} : Spared(b)
  <2>0. PICK x : x = Answer(a, TRUE) OBVIOUS
  <2>1. /\ a.do = "update" /\ a.at = "checked" /\ a.with.refresh # NoToken /\ a.arg \in Login
    BY <1>3, <1>14 DEF WriteUser, Checked, Named, Allowed
  <2>2. PICK u \in Id, l \in Login : u = a.with.refresh.user /\ l = a.arg
    BY <1>6, <2>1, TokenFields
  <2>3. PICK R : R = If("elsewhere", Elsewhere(a, u)) OBVIOUS
  <2>4. /\ Issue(a, x, u, l, R) /\ UNCHANGED <<expired, jar, shown, means>>
        /\ users' = IF users[u] = NoLogin THEN users ELSE [users EXCEPT ![u] = a.arg]
    BY <1>14, <2>0, <2>2, <2>3 DEF WriteUser
  <2>5. Issue(a, x, u, l, R) /\ expired' \subseteq expired \cup {a.with.refresh} BY <2>4
  <2>6. /\ \E k : Fresh(k, u, l) /\ asks' = (asks \ {a}) \cup {With(x, k)}
        /\ odd \subseteq odd' /\ R \subseteq odd'
    BY <1>7, <2>5
  <2>7. PICK k : Fresh(k, u, l) /\ asks' = (asks \ {a}) \cup {With(x, k)} BY <2>6
  <2>8. users[u] # NoLogin => users'[u] = a.arg BY <1>1, <2>4 DEF TypeOK
  <2>9. \A v \in Id : v # u => users'[v] = users[v] BY <1>1, <2>4 DEF TypeOK
  <2>10. PICK c : c = With(x, k) OBVIOUS
  <2>11. c \in Ask /\ Same(a, c) /\ c.ok /\ Brings(c, k)
    BY <1>4, <1>5, <2>0, <2>7, <2>10 DEF Fresh
  <2>12. Turned(a, c) BY <1>2, <2>1, <2>4, <2>6, <2>7, <2>10, <2>11 DEF Turned
  <2>13. Writes(a, c) BY <1>6, <2>1, <2>2, <2>4, <2>7, <2>8, <2>11, <2>12 DEF Writes
  <2>14. If("elsewhere", Elsewhere(a, u)) \subseteq odd' BY <2>3, <2>6
  <2>15. \A b \in Browser \ {a.b} : Spared(b) BY <2>9, <2>14, WriteSpares
  <2>. QED BY <2>11, <2>13, <2>15
<1>15. ASSUME DeleteUser(a), Good(a.with.refresh), Verified(a.with.refresh.login)
       PROVE  (\E c \in Ask : Deletes(a, c)) /\ \A b \in Browser \ {a.b} : Spared(b)
  <2> DEFINE t == a.with.refresh
             c == With(Answer(a, TRUE), NoCookies)
  <2>1. /\ a.do = "delete" /\ a.at = "sent" /\ expired' = expired \cup {t}
        /\ users' = [users EXCEPT ![t.user] = NoLogin]
        /\ Becomes(a, c) /\ UNCHANGED <<made, jar, shown, means>>
        /\ If("elsewhere", Elsewhere(a, t.user)) \subseteq odd' /\ odd \subseteq odd'
    BY <1>15 DEF DeleteUser, Sent, Blame
  <2>2. c \in Ask /\ Same(a, c) /\ c.ok /\ Brings(c, NoCookies) BY <1>4, <1>5, BlankTokens
  <2> HIDE DEF c
  <2>3. Deletes(a, c) BY <1>2, <1>15, <2>1, <2>2 DEF Deletes, Turned, Becomes
  <2>4. t.user \in Id BY <1>6, <1>15, TokenFields DEF Good
  <2>5. \A v \in Id : v # t.user => users'[v] = users[v] BY <1>1, <2>1 DEF TypeOK
  <2>6. \A b \in Browser \ {a.b} : Spared(b) BY <2>1, <2>4, <2>5, WriteSpares
  <2>. QED BY <2>2, <2>3, <2>6
<1>. QED BY <1>10, <1>11, <1>12, <1>13, <1>14, <1>15

----------------------------------------------------------------------------
(* A browser has its tokens to itself.                                     *)

TokensInv ==
  /\ \A a \in asks : Shaped(a) /\ BringsPair(a)
  /\ \A b \in Browser : Paired(jar[b])
  /\ Own /\ RowsMade

Server(a) ==
  \/ ReadPrivate(a) \/ Verify(a) \/ Rotate(a) \/ LogIn(a) \/ LogOut(a) \/ CreateUser(a)
  \/ InsertUser(a) \/ UpdateUser(a) \/ WriteUser(a) \/ DeleteUser(a)
Person(b, l) ==
  \/ SignIn(b, l) \/ SignUp(b, l) \/ SignOut(b) \/ SaveProfile(b, l)
  \/ DeleteProfile(b) \/ Visit(b) \/ Launch(b)
Comes(a) ==
  \/ AuthUpdated(a) \/ SignedIn(a) \/ ProfileSaved(a) \/ ProfileDeleted(a) \/ OtherAnswer(a)

(* What a step may do to the tokens of the browser that takes it.          *)
LEMMA OwnStep ==
  ASSUME Own, NEW b \in Browser, odd \subseteq odd',
         \A d \in Browser : d # b => Refs(d)' = Refs(d),
         \A t \in Refs(b)' : \/ t \in Refs(b) \cup {NoToken}
                             \/ "alike" \notin odd' => \A d \in Browser : t \notin Refs(d)
  PROVE  Own'
<1> SUFFICES ASSUME "alike" \notin odd', NEW d \in Browser, NEW e \in Browser, d # e,
                    NEW t, t \in Refs(d)', t \in Refs(e)'
             PROVE  t = NoToken
  BY DEF Own
<1>1. "alike" \notin odd OBVIOUS
<1>2. CASE d = b
  <2>1. t \in Refs(e) BY <1>2
  <2>2. t \in Refs(b) \cup {NoToken} BY <1>2, <2>1
  <2>. QED BY <1>1, <1>2, <2>1, <2>2 DEF Own
<1>3. CASE e = b
  <2>1. t \in Refs(d) BY <1>3
  <2>2. t \in Refs(b) \cup {NoToken} BY <1>3, <2>1
  <2>. QED BY <1>1, <1>3, <2>1, <2>2 DEF Own
<1>4. CASE d # b /\ e # b BY <1>1, <1>4 DEF Own
<1>. QED BY <1>2, <1>3, <1>4

(* A request that the server has turned into another.                      *)
NewPair(k) ==
  /\ Paired(k)
  /\ \/ k.refresh = NoToken
     \/ "alike" \notin odd' => \A d \in Browser : k.refresh \notin Refs(d)
TurnedWell(a, c) ==
  /\ Turned(a, c) /\ Shaped(c) /\ (c.set # <<>> => NewPair(c.set[1]))
  /\ expired \subseteq expired' /\ expired' \subseteq expired \cup {a.with.refresh}

(* No cookies are a pair.                                                  *)
LEMMA NoPair == Paired(NoCookies) /\ NewPair(NoCookies)
BY DEF Paired, NewPair, NoCookies

(* Whatever the server does, it turns one request into another and gives   *)
(* it no tokens but new ones.                                              *)
LEMMA KindsTurn ==
  ASSUME NEW a \in asks, Shaped(a), NEW c \in Ask,
         \/ Quietly(a, c) \/ Rotates(a, c) \/ LogsIn(a, c) \/ LogsOut(a, c)
         \/ Expires(a, c) \/ Writes(a, c) \/ Deletes(a, c)
  PROVE  TurnedWell(a, c)
<1>2. ASSUME NEW k, NEW u, NEW l, Fresh(k, u, l) PROVE NewPair(k)
  BY <1>2 DEF Fresh, NewPair
<1>3. CASE Quietly(a, c)
  BY <1>3 DEF Quietly, TurnedWell, Shaped
<1>4. CASE Rotates(a, c)
  <2>1. PICK k : Fresh(k, a.with.refresh.user, a.with.refresh.login) /\ Brings(c, k)
    BY <1>4 DEF Rotates
  <2>2. /\ NewPair(k) /\ c.set = <<k>> /\ c.set[1] = k /\ c.at = "done"
    BY <1>2, <2>1 DEF Brings, Fresh
  <2>3. /\ Turned(a, c) /\ Renews(c.with) /\ c.do # "logout"
        /\ expired' = expired \cup {a.with.refresh}
    BY <1>4 DEF Rotates, Turned, Same
  <2>4. Shaped(c) BY <2>2, <2>3 DEF Shaped
  <2>. QED BY <2>2, <2>3, <2>4 DEF TurnedWell
<1>5. CASE LogsIn(a, c)
  <2>1. PICK k, u : Fresh(k, u, a.arg) /\ Brings(c, k) BY <1>5 DEF LogsIn
  <2>2. /\ NewPair(k) /\ c.set = <<k>> /\ c.set[1] = k /\ c.at = "done"
    BY <1>2, <2>1 DEF Brings, Fresh
  <2>3. Turned(a, c) /\ c.do = "login" /\ expired' = expired BY <1>5 DEF LogsIn, Turned, Same
  <2>4. Shaped(c) BY <2>2, <2>3 DEF Shaped
  <2>. QED BY <2>2, <2>3, <2>4 DEF TurnedWell
<1>6. CASE LogsOut(a, c)
  <2>1. /\ c.set = <<NoCookies>> /\ c.set[1] = NoCookies /\ c.at = "done"
        /\ Turned(a, c) /\ c.do = "logout" /\ expired' = expired
    BY <1>6 DEF LogsOut, Brings, Turned, Same
  <2>2. Shaped(c) BY <2>1 DEF Shaped
  <2>. QED BY <2>1, <2>2, NoPair DEF TurnedWell
<1>7. CASE Expires(a, c)
  BY <1>7 DEF Expires, TurnedWell, Shaped, Turned, Same
<1>8. CASE Writes(a, c)
  <2>1. PICK k : Fresh(k, a.with.refresh.user, a.arg) /\ Brings(c, k) BY <1>8 DEF Writes
  <2>2. /\ NewPair(k) /\ c.set = <<k>> /\ c.set[1] = k /\ c.at = "done"
    BY <1>2, <2>1 DEF Brings, Fresh
  <2>3. Turned(a, c) /\ c.do = "update" /\ expired' = expired BY <1>8 DEF Writes, Turned, Same
  <2>4. Shaped(c) BY <2>2, <2>3 DEF Shaped
  <2>. QED BY <2>2, <2>3, <2>4 DEF TurnedWell
<1>9. CASE Deletes(a, c)
  <2>1. /\ c.set = <<NoCookies>> /\ c.set[1] = NoCookies /\ c.at = "done"
        /\ Turned(a, c) /\ c.do = "delete" /\ expired' = expired \cup {a.with.refresh}
    BY <1>9 DEF Deletes, Brings, Turned, Same
  <2>2. Shaped(c) BY <2>1 DEF Shaped
  <2>. QED BY <2>1, <2>2, NoPair DEF TurnedWell
<1>. QED BY <1>3, <1>4, <1>5, <1>6, <1>7, <1>8, <1>9

(* Every step of the server is of one of these kinds.                      *)
LEMMA ServerKinds ==
  ASSUME AccountsAssumption, AccountsInv, TokensInv, NEW a \in asks, Server(a)
  PROVE  \E c \in Ask : \/ Quietly(a, c) \/ Rotates(a, c) \/ LogsIn(a, c) \/ LogsOut(a, c)
                        \/ Expires(a, c)
                        \/ (Writes(a, c) \/ Deletes(a, c)) /\ \A b \in Browser \ {a.b} : Spared(b)
<1>1. RowsMade /\ Shaped(a) BY DEF TokensInv
<1>2. CASE \/ ReadPrivate(a) \/ CreateUser(a) \/ InsertUser(a) \/ Verify(a)
           \/ LogIn(a) /\ (Authed(a.with) \/ ~Verified(a.arg))
           \/ UpdateUser(a) /\ UNCHANGED expired
           \/ DeleteUser(a) /\ ~(Good(a.with.refresh) /\ Verified(a.with.refresh.login))
  BY <1>1, <1>2, QuietSteps
<1>3. CASE \/ LogIn(a) /\ ~(Authed(a.with) \/ ~Verified(a.arg))
           \/ Rotate(a)
           \/ UpdateUser(a) /\ ~UNCHANGED expired
           \/ DeleteUser(a) /\ Good(a.with.refresh) /\ Verified(a.with.refresh.login)
           \/ LogOut(a) \/ WriteUser(a)
  <2>1. CASE LogIn(a) /\ ~(Authed(a.with) \/ ~Verified(a.arg)) BY <1>1, <2>1, LoudSteps
  <2>2. CASE Rotate(a) BY <1>1, <2>2, LoudSteps
  <2>3. CASE UpdateUser(a) /\ ~UNCHANGED expired BY <1>1, <2>3, LoudSteps
  <2>4. CASE DeleteUser(a) /\ Good(a.with.refresh) /\ Verified(a.with.refresh.login)
    BY <1>1, <2>4, LoudSteps
  <2>5. CASE LogOut(a) BY <1>1, <2>5, LoudSteps
  <2>6. CASE WriteUser(a) BY <1>1, <2>6, LoudSteps
  <2>. QED BY <1>3, <2>1, <2>2, <2>3, <2>4, <2>5, <2>6
<1>. QED BY <1>2, <1>3 DEF Server

----------------------------------------------------------------------------
(* TokensInv is kept.                                                      *)

LEMMA RowsServer ==
  ASSUME AccountsAssumption, AccountsInv, TokensInv, NEW a \in asks, Server(a)
  PROVE  RowsMade'
<1>1. TypeOK /\ AsksTyped /\ RowsMade /\ a \in Ask BY DEF AccountsInv, TokensInv, TypeOK
<1>2. made.rows \in Nat BY <1>1 DEF TypeOK
<1>3. ASSUME made'.rows = made.rows, \A u \in Id : users'[u] # NoLogin => users[u] # NoLogin
      PROVE  RowsMade'
  BY <1>1, <1>3 DEF RowsMade
<1>4. CASE UNCHANGED <<users, made>> BY <1>3, <1>4
<1>5. ASSUME NEW x, NEW u \in Id, NEW l \in Login, NEW reasons, Issue(a, x, u, l, reasons)
      PROVE  made'.rows = made.rows
  BY <1>1, <1>5, IssueIs
<1>10. CASE Rotate(a)
  <2>1. a.with.refresh.user \in Id /\ a.with.refresh.login \in Login
    BY <1>1, <1>10, AskFields, TokenFields DEF Rotate, TokensInv, Shaped, Renews
  <2>2. PICK u \in Id, l \in Login : u = a.with.refresh.user /\ l = a.with.refresh.login BY <2>1
  <2>3. PICK x : x = [a EXCEPT !.at = "done"] OBVIOUS
  <2>4. UNCHANGED users /\ Issue(a, x, u, l, {}) BY <1>10, <2>2, <2>3 DEF Rotate
  <2>. QED BY <1>3, <1>5, <2>4
<1>11. CASE LogIn(a)
  <2>1. a.arg \in Login BY <1>1, <1>11 DEF LogIn, Sent, AsksTyped, Named
  <2>2. PICK l \in Login : l = a.arg BY <2>1
  <2>5. PICK x : x = Answer(a, TRUE) OBVIOUS
  <2>3. UNCHANGED made \/ \E u \in Id : Issue(a, x, u, l, {})
    BY <1>11, <2>2, <2>5 DEF LogIn, Rows
  <2>4. UNCHANGED users BY <1>11 DEF LogIn
  <2>. QED BY <1>3, <1>5, <2>3, <2>4
<1>6. CASE InsertUser(a)
  <2>1. users' = [users EXCEPT ![made.rows + 1] = a.arg] /\ made' = [made EXCEPT !.rows = @ + 1]
    BY <1>6 DEF InsertUser
  <2>2. made'.rows = made.rows + 1 BY <1>1, <2>1 DEF TypeOK
  <2>3. \A u \in Id : u = made.rows + 1 \/ users'[u] = users[u] BY <1>1, <2>1 DEF TypeOK
  <2>4. \A u \in Id : u <= made.rows => u <= made'.rows BY <1>2, <2>2 DEF Id
  <2>5. made.rows + 1 <= made'.rows BY <1>2, <2>2
  <2>. QED BY <1>1, <2>3, <2>4, <2>5 DEF RowsMade
<1>7. CASE WriteUser(a)
  <2>1. a.do = "update" /\ a.with.refresh # NoToken /\ a.arg \in Login
    BY <1>1, <1>7 DEF WriteUser, Checked, AsksTyped, Named, Allowed
  <2>2. a.with.refresh.user \in Id BY <1>1, <2>1, AskFields, TokenFields
  <2>3. PICK u \in Id, l \in Login : u = a.with.refresh.user /\ l = a.arg BY <2>1, <2>2
  <2>6. PICK x, R : x = Answer(a, TRUE) /\ R = If("elsewhere", Elsewhere(a, u)) OBVIOUS
  <2>4. /\ Issue(a, x, u, l, R)
        /\ users' = IF users[u] = NoLogin THEN users ELSE [users EXCEPT ![u] = a.arg]
    BY <1>7, <2>3, <2>6 DEF WriteUser
  <2>5. \A v \in Id : users'[v] # NoLogin => users[v] # NoLogin BY <1>1, <2>4 DEF TypeOK
  <2>. QED BY <1>3, <1>5, <2>4, <2>5
<1>8. CASE DeleteUser(a)
  <2>1. UNCHANGED made
        /\ (UNCHANGED users \/ users' = [users EXCEPT ![a.with.refresh.user] = NoLogin])
    BY <1>8 DEF DeleteUser
  <2>2. \A u \in Id : users'[u] # NoLogin => users[u] # NoLogin BY <1>1, <2>1 DEF TypeOK
  <2>. QED BY <1>3, <2>1, <2>2
<1>9. CASE ReadPrivate(a) \/ Verify(a) \/ LogOut(a) \/ CreateUser(a) \/ UpdateUser(a)
  BY <1>4, <1>9 DEF ReadPrivate, Verify, LogOut, CreateUser, UpdateUser, server
<1>. QED BY <1>6, <1>7, <1>8, <1>9, <1>10, <1>11 DEF Server

(* So the server keeps TokensInv.                                          *)
LEMMA ServerTokens ==
  ASSUME TypeOK, TokensInv, RowsMade', NEW a \in asks, NEW c \in Ask,
         TurnedWell(a, c)
  PROVE  TokensInv'
<1>1. /\ asks' = (asks \ {a}) \cup {c} /\ c.b = a.b /\ c.with = a.with
      /\ UNCHANGED jar /\ a.set = <<>>
  BY DEF TurnedWell, Turned, Same
<1>2. /\ a.b \in Browser /\ a \in Of(a.b) /\ Of(a.b)' = (Of(a.b) \ {a}) \cup {c}
      /\ \A b : b # a.b => Of(b)' = Of(b)
  BY <1>1, OfSplit, AskFields DEF TypeOK
<1>3. \A x \in asks' : Shaped(x) /\ BringsPair(x)
  <2>1. Shaped(c) /\ BringsPair(c)
    BY <1>1 DEF TurnedWell, TokensInv, BringsPair, NewPair
  <2>. QED BY <1>1, <2>1 DEF TokensInv
<1>4. \A b \in Browser : Paired(jar'[b]) BY <1>1 DEF TokensInv
<1>5. \A d \in Browser : d # a.b => Refs(d)' = Refs(d)
  BY <1>1, <1>2 DEF Refs
<1>6. ASSUME NEW t \in Refs(a.b)'
      PROVE  \/ t \in Refs(a.b) \cup {NoToken}
             \/ "alike" \notin odd' => \A d \in Browser : t \notin Refs(d)
  <2>1. \/ t = jar'[a.b].refresh
        \/ \E x \in Of(a.b)' : t = x.with.refresh \/ (x.set # <<>> /\ t = x.set[1].refresh)
    BY DEF Refs
  <2>2. CASE t = jar'[a.b].refresh BY <1>1, <2>2, InRefs
  <2>3. ASSUME NEW x \in Of(a.b), t = x.with.refresh \/ (x.set # <<>> /\ t = x.set[1].refresh)
        PROVE  t \in Refs(a.b)
    BY <2>3, InRefs
  <2>4. CASE t = c.with.refresh BY <1>1, <1>2, <2>3, <2>4
  <2>5. CASE c.set # <<>> /\ t = c.set[1].refresh BY <2>5 DEF TurnedWell, NewPair
  <2>. QED BY <1>2, <2>1, <2>2, <2>3, <2>4, <2>5
<1>7. odd \subseteq odd' BY DEF TurnedWell, Turned
<1>9. Own' BY <1>2, <1>5, <1>6, <1>7, OwnStep DEF TokensInv
<1>. QED BY <1>3, <1>4, <1>9 DEF TokensInv

(* A request that a browser sends has the cookies it has.                  *)
LEMMA RequestIs ==
  ASSUME NEW b, NEW do, NEW arg, NEW k
  PROVE  /\ Request(b, do, arg, k).b = b /\ Request(b, do, arg, k).do = do
         /\ Request(b, do, arg, k).arg = arg /\ Request(b, do, arg, k).with = k
         /\ Request(b, do, arg, k).at = "sent" /\ Request(b, do, arg, k).set = <<>>
         /\ ~Request(b, do, arg, k).ok
BY DEF Request

(* A request that is sent is one more of its browser.                      *)
LEMMA OfSent ==
  ASSUME NEW b, NEW r, r.b = b, asks' = asks \cup {r}
  PROVE  /\ Of(b)' = Of(b) \cup {r}
         /\ \A d : d # b => Of(d)' = Of(d)
BY DEF Of

(* Sending keeps TokensInv.                                                *)
LEMMA SentTokens ==
  ASSUME TypeOK, TokensInv, NEW b \in Browser, NEW do, NEW arg, Send(b, do, arg),
         UNCHANGED <<server, jar>>
  PROVE  TokensInv'
<1> DEFINE r == Request(b, do, arg, jar[b])
<1>1. /\ r.b = b /\ r.with = jar[b] /\ r.at = "sent" /\ r.set = <<>> /\ ~r.ok
  BY RequestIs
<1>2. asks' = asks \cup {r} /\ UNCHANGED <<users, made, expired, jar>> BY DEF Send, server
<1> HIDE DEF r
<1>3. Of(b)' = Of(b) \cup {r} /\ \A d : d # b => Of(d)' = Of(d) BY <1>1, <1>2, OfSent
<1>4. Shaped(r) /\ BringsPair(r) BY <1>1 DEF Shaped, BringsPair, TokensInv
<1>5. \A x \in asks' : Shaped(x) /\ BringsPair(x) BY <1>2, <1>4 DEF TokensInv
<1>6. \A d \in Browser : d # b => Refs(d)' = Refs(d) BY <1>2, <1>3 DEF Refs
<1>7. ASSUME NEW t \in Refs(b)' PROVE t \in Refs(b)
  <2>1. \/ t = jar'[b].refresh
        \/ \E x \in Of(b)' : t = x.with.refresh \/ (x.set # <<>> /\ t = x.set[1].refresh)
    BY DEF Refs
  <2>2. jar[b].refresh \in Refs(b) BY InRefs
  <2>3. ASSUME NEW x \in Of(b), t = x.with.refresh \/ (x.set # <<>> /\ t = x.set[1].refresh)
        PROVE  t \in Refs(b)
    BY <2>3, InRefs
  <2>. QED BY <1>1, <1>2, <1>3, <2>1, <2>2, <2>3
<1>8. odd \subseteq odd' BY DEF Send, Blame
<1>9. Own' BY <1>6, <1>7, <1>8, OwnStep DEF TokensInv
<1>. QED BY <1>2, <1>5, <1>9 DEF TokensInv, RowsMade

(* An access token that runs out keeps TokensInv.                          *)
LEMMA ExpiredTokens ==
  ASSUME TypeOK, TokensInv, NEW b \in Browser, AccessExpires(b)
  PROVE  TokensInv'
<1>1. /\ jar' = [jar EXCEPT ![b] = [jar[b] EXCEPT !.access = NoToken]]
      /\ UNCHANGED <<users, made, expired, asks, odd>>
  BY DEF AccessExpires, server
<1>2. jar \in [Browser -> Cookies] BY DEF TypeOK
<1>3. /\ jar'[b].access = NoToken /\ jar'[b].refresh = jar[b].refresh
      /\ \A d \in Browser : d # b => jar'[d] = jar[d]
  BY <1>1, <1>2 DEF Cookies
<1>4. \A d \in Browser : Paired(jar'[d]) BY <1>3 DEF Paired, TokensInv
<1>5. \A d : Of(d)' = Of(d) BY <1>1 DEF Of
<1>6. \A d \in Browser : jar'[d].refresh = jar[d].refresh BY <1>3
<1>7. \A d \in Browser : Refs(d)' = Refs(d) BY <1>5, <1>6 DEF Refs
<1>8. Own' BY <1>1, <1>7 DEF TokensInv, Own
<1>. QED BY <1>1, <1>4, <1>8 DEF TokensInv, RowsMade, Shaped, BringsPair

(* An answer that has come, and the request that follows it.               *)
LEMMA AnsweredIs ==
  ASSUME TypeOK, NEW a \in asks, NEW dos, Answered(a, dos)
  PROVE  /\ a \in Ask /\ a.b \in Browser /\ a.at = "done" /\ a.do \in dos /\ a \in Of(a.b)
         /\ a.set = <<>> => jar' = jar
         /\ a.set # <<>> => jar'[a.b] = a.set[1]
         /\ \A d \in Browser : d # a.b => jar'[d] = jar[d]
<1>1. a \in Ask /\ a.b \in Browser BY AskFields DEF TypeOK
<1>2. jar \in [Browser -> Cookies] BY DEF TypeOK
<1>. QED BY <1>1, <1>2 DEF Answered, Of

(* The requests of a browser when one is answered and another follows.     *)
FollowedBy(a, R) ==
  /\ asks' = (asks \ {a}) \cup R
  /\ \A r \in R : r.b = a.b /\ r.with = jar'[a.b] /\ r.at = "sent" /\ r.set = <<>> /\ ~r.ok

(* An answer may be the last word.                                         *)
LEMMA EndIs ==
  ASSUME NEW a, End(a)
  PROVE  FollowedBy(a, {})
BY DEF End, FollowedBy

(* Or the browser asks again with the cookies it has now.                  *)
LEMMA ThenIs ==
  ASSUME NEW a, NEW do, Then(a, do)
  PROVE  \E r : FollowedBy(a, {r}) /\ r.do = do
<1> DEFINE r == Request(a.b, do, NoLogin, jar'[a.b])
<1>1. /\ r.b = a.b /\ r.do = do /\ r.with = jar'[a.b] /\ r.at = "sent" /\ r.set = <<>> /\ ~r.ok
  BY RequestIs
<1>2. asks' = (asks \ {a}) \cup {r} BY DEF Then
<1> HIDE DEF r
<1>3. FollowedBy(a, {r}) BY <1>1, <1>2 DEF FollowedBy
<1>. QED BY <1>1, <1>3

LEMMA FollowedOf ==
  ASSUME NEW a \in asks, NEW R, FollowedBy(a, R)
  PROVE  /\ Of(a.b)' = (Of(a.b) \ {a}) \cup R
         /\ \A d : d # a.b => Of(d)' = Of(d)
BY DEF FollowedBy, Of

(* An answer that comes keeps TokensInv.                                   *)
LEMMA ComingTokens ==
  ASSUME TypeOK, TokensInv, NEW a \in asks, NEW dos, Answered(a, dos),
         End(a) \/ \E do : Then(a, do), UNCHANGED <<server, odd>>
  PROVE  TokensInv'
<1>1. /\ a \in Ask /\ a.b \in Browser /\ a \in Of(a.b)
      /\ a.set = <<>> => jar' = jar
      /\ a.set # <<>> => jar'[a.b] = a.set[1]
      /\ \A d \in Browser : d # a.b => jar'[d] = jar[d]
  BY AnsweredIs
<1>2. UNCHANGED <<users, made, expired>> BY DEF server
<1>3. Paired(jar'[a.b]) /\ jar'[a.b].refresh \in Refs(a.b)
  <2>0. /\ jar[a.b].refresh \in Refs(a.b) /\ Paired(jar[a.b])
        /\ a.set # <<>> => Paired(a.set[1]) /\ a.set[1].refresh \in Refs(a.b)
    BY <1>1, InRefs DEF TokensInv, BringsPair
  <2>1. CASE a.set = <<>> BY <1>1, <2>0, <2>1
  <2>2. CASE a.set # <<>> BY <1>1, <2>0, <2>2
  <2>. QED BY <2>1, <2>2
<1>4. \A d \in Browser : Paired(jar'[d]) BY <1>1, <1>3 DEF TokensInv
<1>5. \E R : FollowedBy(a, R)
  <2>1. CASE End(a) BY <2>1, EndIs
  <2>2. ASSUME NEW do, Then(a, do) PROVE \E R : FollowedBy(a, R) BY <2>2, ThenIs
  <2>. QED BY <2>1, <2>2
<1>6. PICK R : FollowedBy(a, R) BY <1>5
<1>7. \A r \in R : Shaped(r) /\ BringsPair(r)
  BY <1>3, <1>6 DEF Shaped, BringsPair, FollowedBy
<1>8. \A x \in asks' : Shaped(x) /\ BringsPair(x) BY <1>6, <1>7 DEF TokensInv, FollowedBy
<1>9. \A d \in Browser : d # a.b => Of(d)' = Of(d)
  BY <1>6, FollowedOf
<1>10. \A x \in Of(a.b)' : x \in Of(a.b) \/ x \in R BY <1>6, FollowedOf
<1>11. \A d \in Browser : d # a.b => Refs(d)' = Refs(d) BY <1>1, <1>9 DEF Refs
<1>12. ASSUME NEW t \in Refs(a.b)' PROVE t \in Refs(a.b)
  <2>1. \/ t = jar'[a.b].refresh
        \/ \E x \in Of(a.b)' : t = x.with.refresh \/ (x.set # <<>> /\ t = x.set[1].refresh)
    BY DEF Refs
  <2>2. ASSUME NEW x \in Of(a.b), t = x.with.refresh \/ (x.set # <<>> /\ t = x.set[1].refresh)
        PROVE  t \in Refs(a.b)
    BY <2>2, InRefs
  <2>. QED BY <1>3, <1>6, <1>10, <2>1, <2>2 DEF FollowedBy
<1>14. Own' BY <1>1, <1>11, <1>12, OwnStep DEF TokensInv
<1>. QED BY <1>2, <1>4, <1>8, <1>14 DEF TokensInv, RowsMade
----------------------------------------------------------------------------
(* What a browser was told, and what it is.                                *)

OutOk(b) == means[b] = "out" => Nobody(b)
InOk(b) == means[b] = "in" => Somebody(b)
SessionInv ==
  /\ Straight => \A b \in Browser : OneTurn(b) /\ OutOk(b)
  /\ Plain => \A b \in Browser : InOk(b)

(* Cookies stay good as long as nobody makes them run out or writes their  *)
(* row.                                                                    *)
LEMMA CurrentKept ==
  ASSUME AccountsAssumption, NEW b \in Browser, NEW k \in Cookies, k.refresh \in Refs(b),
         Current(k),
         odd \subseteq odd', k.refresh \in expired' => k.refresh \in expired \cup {NoToken},
         Spared(b)
  PROVE  Current(k)'
<1>1. k.refresh # NoToken /\ k.refresh \notin expired /\ k.refresh \notin expired'
  BY DEF Current, Good
<1>2. k.refresh.login \in Login BY <1>1, TokenFields DEF Cookies
<1>3. ASSUME "elsewhere" \notin odd' PROVE users'[k.refresh.user] = k.refresh.login
  <2>1. users[k.refresh.user] = k.refresh.login BY <1>3 DEF Current, Stands
  <2>2. users[k.refresh.user] # NoLogin BY <1>2, <2>1 DEF AccountsAssumption
  <2>. QED BY <1>1, <1>3, <2>1, <2>2 DEF Spared
<1>. QED BY <1>1, <1>3 DEF Current, Good, Stands

(* A browser that takes no part in a step.                                 *)
Apart(b) ==
  /\ Of(b)' = Of(b) /\ jar'[b] = jar[b] /\ shown'[b] = shown[b] /\ means'[b] = means[b]
  /\ odd \subseteq odd'
  /\ "alike" \notin odd' => \A t \in Refs(b) : t \in expired' => t \in expired \cup {NoToken}
  /\ Spared(b)

(* What others do leaves a browser as it is.                               *)
LEMMA ApartKept ==
  ASSUME AccountsAssumption, TypeOK, NEW b \in Browser, Apart(b)
  PROVE  /\ OneTurn(b) => OneTurn(b)'
         /\ OutOk(b) => OutOk(b)'
         /\ InOk(b) /\ "alike" \notin odd' => InOk(b)'
<1>1. /\ Of(b)' = Of(b) /\ jar'[b] = jar[b] /\ shown'[b] = shown[b] /\ means'[b] = means[b]
      /\ odd \subseteq odd' /\ Spared(b)
  BY DEF Apart
<1>2. /\ jar[b] \in Cookies /\ jar[b].refresh \in Refs(b) /\ jar[b].refresh \in Token
      /\ jar'[b].refresh = jar[b].refresh
  BY <1>1, InRefs DEF TypeOK, Cookies
<1>3. \A a \in Of(b) : a.set # <<>> => a.set[1] \in Cookies /\ a.set[1].refresh \in Refs(b)
  <2> SUFFICES ASSUME NEW a \in Of(b), a.set # <<>>
               PROVE  a.set[1] \in Cookies /\ a.set[1].refresh \in Refs(b)
    OBVIOUS
  <2>1. a \in Ask BY DEF Of, TypeOK
  <2>. QED BY <2>1, AskFields, InRefs
<1>4. \A k \in Cookies : k.refresh \in Refs(b) /\ "alike" \notin odd' /\ Current(k) => Current(k)'
  <2> SUFFICES ASSUME NEW k \in Cookies, k.refresh \in Refs(b), "alike" \notin odd', Current(k)
               PROVE  Current(k)'
    OBVIOUS
  <2>1. k.refresh \in expired' => k.refresh \in expired \cup {NoToken} BY DEF Apart
  <2>. QED BY <1>1, <2>1, CurrentKept
<1>5. OneTurn(b) => OneTurn(b)' BY <1>1 DEF OneTurn
<1>6. ASSUME NEW a \in Of(b), Harmless(b, a) PROVE Harmless(b, a)'
  <2>1. CASE a.do = "login" /\ a.with = NoCookies /\ a.at = "done" /\ a.ok /\ a.set # <<>>
    <3>1. "alike" \notin odd' => Current(a.set[1]) BY <1>1, <1>6, <2>1 DEF Harmless, Turns
    <3>2. "alike" \notin odd' => Current(a.set[1])' BY <1>3, <1>4, <2>1, <3>1
    <3>. QED BY <2>1, <3>2 DEF Harmless
  <2>2. CASE ~(a.do = "login" /\ a.with = NoCookies /\ a.at = "done" /\ a.ok /\ a.set # <<>>)
    BY <1>6, <2>2 DEF Harmless
  <2>. QED BY <2>1, <2>2
<1>7. Nobody(b) => Nobody(b)' BY <1>1, <1>6 DEF Nobody
<1>8. ASSUME Somebody(b), "alike" \notin odd' PROVE Somebody(b)'
  <2>1. ASSUME NEW a \in Of(b) PROVE Fits(b, a)'
    <3>1. Fits(b, a) BY <1>8, <2>1 DEF Somebody
    <3>2. Uses(b, a)' /\ Says(b, a)' BY <1>2, <3>1 DEF Fits, Uses, Says
    <3>3. ASSUME a.set # <<>>, Carries(b, a) PROVE Carries(b, a)'
      <4>1. Current(a.set[1])' BY <1>3, <1>4, <1>8, <3>3 DEF Carries
      <4>2. Unused(b, a)' BY <1>1, <1>2, <3>3 DEF Carries, Unused
      <4>. QED BY <1>2, <3>3, <4>1, <4>2 DEF Carries
    <3>. QED BY <3>1, <3>2, <3>3 DEF Fits, Left
  <2>2. jar[b].refresh # NoToken BY <1>8 DEF Somebody
  <2>3. Good(jar[b].refresh) => Good(jar[b].refresh)' BY <1>2, <1>8, <2>2 DEF Apart, Good
  <2>4. Stands(jar[b].refresh) => Stands(jar[b].refresh)'
    <3>1. jar[b].refresh.login # NoLogin BY <1>2, <2>2, TokenFields DEF AccountsAssumption
    <3>. QED BY <1>1, <1>2, <2>2, <3>1 DEF Spared, Stands
  <2>5. Shows(b, jar[b].refresh.login)' BY <1>1, <1>2, <1>8 DEF Somebody, Shows
  <2>6. Good(jar[b].refresh)' \/ \E a \in Of(b)' : Pending(a)'
    BY <1>1, <1>8, <2>3 DEF Somebody, Pending
  <2>7. Stands(jar[b].refresh)' \/ \E a \in Of(b)' : Wrote(a)'
    BY <1>1, <1>8, <2>4 DEF Somebody, Wrote
  <2>8. shown'[b] # NoLogin \/ \E a \in Of(b)' : Told(a)' BY <1>1, <1>8 DEF Somebody, Told
  <2>9. \A a \in Of(b)' : Fits(b, a)' BY <1>1, <2>1
  <2>. QED BY <1>2, <2>2, <2>5, <2>6, <2>7, <2>8, <2>9 DEF Somebody
<1>9. OutOk(b) => OutOk(b)' BY <1>1, <1>7 DEF OutOk
<1>10. InOk(b) /\ "alike" \notin odd' => InOk(b)' BY <1>1, <1>8 DEF InOk
<1>. QED BY <1>5, <1>9, <1>10

----------------------------------------------------------------------------
(* The browser whose request the server answers.                           *)

LEMMA TurnedOne ==
  ASSUME NEW a \in asks, NEW c, Turned(a, c), OneTurn(a.b)
  PROVE  OneTurn(a.b)'
<1>1. Same(a, c) /\ asks' = (asks \ {a}) \cup {c} BY DEF Turned
<1>2. a \in Of(a.b) /\ Of(a.b)' = (Of(a.b) \ {a}) \cup {c} BY <1>1, OfSplit DEF Same
<1>. QED BY <1>1, <1>2 DEF OneTurn, Same

(* Beside a request that turns a browser no other brings or writes a       *)
(* thing.                                                                  *)
LEMMA OthersIdle ==
  ASSUME TokensInv, NEW b, NEW a \in Of(b), Turns(a.do), OneTurn(b), NEW x \in Of(b) \ {a}
  PROVE  /\ ~Turns(x.do) /\ ~Renews(x.with) /\ x.set = <<>>
         /\ ~Pending(x) /\ ~Wrote(x) /\ ~Told(x)
<1>1. ~Turns(x.do) /\ ~Renews(x.with) BY DEF OneTurn
<1>2. x.set = <<>> BY <1>1 DEF TokensInv, Shaped, Of, Turns
<1>. QED BY <1>1, <1>2 DEF Turns, Pending, Wrote, Told

(* While a request that turns a browser or renews its tokens is            *)
(* unanswered, no other writes its row; and its token is good until the    *)
(* first is looked at.                                                     *)
LEMMA SentHeld ==
  ASSUME TokensInv, NEW b, NEW a \in Of(b), a.at # "done", OneTurn(b), Somebody(b),
         Turns(a.do) \/ Renews(a.with)
  PROVE  /\ Stands(jar[b].refresh)
         /\ Turns(a.do) /\ a.at = "sent" => Good(jar[b].refresh)
<1>1. Shaped(a) BY DEF TokensInv, Of
<1>2. a.set = <<>> /\ ~Wrote(a) BY <1>1 DEF Shaped, Wrote
<1>3. ASSUME NEW x \in Of(b), Wrote(x) PROVE FALSE
  <2>1. x # a /\ Turns(x.do) BY <1>2, <1>3 DEF Wrote, Turns
  <2>. QED BY <2>1 DEF OneTurn
<1>4. Stands(jar[b].refresh) BY <1>3 DEF Somebody
<1>5. ASSUME Turns(a.do), a.at = "sent" PROVE Good(jar[b].refresh)
  <2>1. ~Pending(a) BY <1>2, <1>5 DEF Pending
  <2>2. \A x \in Of(b) : ~Pending(x) BY <1>5, <2>1, OthersIdle
  <2>. QED BY <2>2 DEF Somebody
<1>. QED BY <1>4, <1>5

(* What other requests bring stays good, if this one brings another token. *)
LEMMA FitsKept ==
  ASSUME AccountsAssumption, TypeOK, NEW a \in asks, NEW c, NEW b, b = a.b, Turned(a, c),
         NEW x \in Of(b) \ {a}, Fits(b, x),
         expired' \subseteq expired \cup {a.with.refresh},
         c.set # <<>> => c.set[1].refresh \notin Refs(b) \ {NoToken},
         x.set = <<>> \/ \A u \in Id : users[u] # NoLogin => users'[u] = users[u]
  PROVE  Fits(b, x)'
<1>1. /\ Same(a, c) /\ asks' = (asks \ {a}) \cup {c} /\ UNCHANGED <<jar, shown, means>>
      /\ odd \subseteq odd'
  BY DEF Turned
<1>2. a \in Of(b) /\ Of(b)' = (Of(b) \ {a}) \cup {c} BY <1>1, OfSplit DEF Same
<1>3. Uses(b, x)' /\ Says(b, x)' BY <1>1 DEF Fits, Uses, Says
<1>4. ASSUME x.set # <<>>, Carries(b, x) PROVE Carries(b, x)'
  <2> DEFINE t == x.set[1].refresh
  <2>1. x.set[1] \in Cookies /\ t \in Refs(b) BY <1>4, AskFields, InRefs DEF Of, TypeOK
  <2>2. t # NoToken /\ t \notin expired /\ Stands(t) /\ Unused(b, x)
    BY <1>4 DEF Carries, Current, Good
  <2>3. t.user \in Id /\ t.login \in Login BY <2>1, <2>2, TokenFields DEF Cookies
  <2>4. a.with.refresh # t BY <1>2, <2>2 DEF Unused
  <2>5. t \notin expired' BY <2>2, <2>4
  <2>6. Stands(t)'
    <3>1. "elsewhere" \notin odd' => users[t.user] = t.login BY <1>1, <2>2 DEF Stands
    <3>2. t.login # NoLogin BY <2>3 DEF AccountsAssumption
    <3>3. "elsewhere" \notin odd' => users'[t.user] = t.login BY <1>4, <2>3, <3>1, <3>2
    <3>. QED BY <3>3 DEF Stands
  <2>7. Current(x.set[1])' BY <2>2, <2>5, <2>6 DEF Current, Good
  <2>8. c.with.refresh # t /\ (c.set # <<>> => c.set[1].refresh # t)
    BY <1>1, <2>1, <2>2, <2>4 DEF Same
  <2>9. Unused(b, x)'
    <3>1. jar'[b].refresh # t BY <1>1, <2>2 DEF Unused
    <3>2. \A y \in Of(b)' : y.with.refresh # t BY <1>2, <2>2, <2>8 DEF Unused
    <3>3. \A y \in Of(b)' \ {x} : y.set # <<>> => y.set[1].refresh # t
      BY <1>2, <2>2, <2>8 DEF Unused
    <3>. QED BY <3>1, <3>2, <3>3 DEF Unused
  <2>. QED BY <1>1, <1>4, <2>7, <2>9 DEF Carries
<1>. QED BY <1>3, <1>4 DEF Fits, Left

(* What is left to show of a browser that was told to sign in.             *)
LEMMA SomebodyNext ==
  ASSUME NEW a \in asks, NEW c, NEW b, b = a.b, Turned(a, c), Somebody(b),
         \A x \in Of(b) \ {a} : Fits(b, x)', Fits(b, c)',
         Good(jar[b].refresh) => Good(jar[b].refresh)' \/ Pending(c),
         Pending(a) => Pending(c), ~Wrote(a),
         Stands(jar[b].refresh) => Stands(jar[b].refresh)' \/ Wrote(c),
         Told(a) => Told(c)
  PROVE  Somebody(b)'
<1>1. /\ Same(a, c) /\ asks' = (asks \ {a}) \cup {c} /\ UNCHANGED <<jar, shown, means>>
      /\ odd \subseteq odd'
  BY DEF Turned
<1>2. a \in Of(b) /\ Of(b)' = (Of(b) \ {a}) \cup {c} BY <1>1, OfSplit DEF Same
<1>3. \A x \in Of(b)' : Fits(b, x)' BY <1>2
<1>4. Good(jar[b].refresh)' \/ \E x \in Of(b)' : Pending(x)'
  BY <1>1, <1>2 DEF Somebody, Pending
<1>5. Stands(jar[b].refresh)' \/ \E x \in Of(b)' : Wrote(x)'
  BY <1>1, <1>2 DEF Somebody, Wrote
<1>6. shown'[b] # NoLogin \/ \E x \in Of(b)' : Told(x)' BY <1>1, <1>2 DEF Somebody, Told
<1>7. Shows(b, jar[b].refresh.login)' BY <1>1 DEF Somebody, Shows
<1>. QED BY <1>1, <1>3, <1>4, <1>5, <1>6, <1>7 DEF Somebody

(* A quiet step of its own.                                                *)
LEMMA QuietOwn ==
  ASSUME AccountsAssumption, TypeOK, TokensInv, NEW a \in asks, NEW c \in Ask, NEW b, b = a.b,
         Quietly(a, c)
  PROVE  /\ OneTurn(b) /\ OutOk(b) => OutOk(b)'
         /\ OneTurn(b) /\ InOk(b) => InOk(b)'
<1>1. /\ Same(a, c) /\ asks' = (asks \ {a}) \cup {c} /\ UNCHANGED <<jar, shown, means>>
      /\ odd \subseteq odd' /\ a.set = <<>> /\ a.at # "done" /\ Turned(a, c)
  BY DEF Quietly, Turned
<1>2. a \in Of(b) /\ Of(b)' = (Of(b) \ {a}) \cup {c} BY <1>1, OfSplit DEF Same
<1>3. a \in Ask /\ b \in Browser BY AskFields DEF TypeOK
<1>4. jar[b] \in Cookies /\ jar[b].refresh \in Token BY <1>3 DEF TypeOK, Cookies
<1>5. ASSUME NEW k \in Cookies, Current(k) PROVE Current(k)'
  <2>1. k.refresh \in Token /\ k.refresh # NoToken BY <1>5 DEF Cookies, Current, Good
  <2>2. k.refresh.user \in Id /\ k.refresh.login \in Login BY <2>1, TokenFields
  <2>. QED BY <1>1, <1>5, <2>2 DEF Current, Good, Stands, Quietly, AccountsAssumption
<1>6. \A x \in Of(b) : x.set # <<>> => x.set[1] \in Cookies
  BY AskFields DEF Of, TypeOK
<1>7. ASSUME OutOk(b), means[b] = "out" PROVE Nobody(b)'
  <2>1. Nobody(b) BY <1>7 DEF OutOk
  <2>2. ASSUME NEW x \in Of(b), Harmless(b, x) PROVE Harmless(b, x)'
    <3>1. CASE x.do = "login" /\ x.with = NoCookies /\ x.at = "done" /\ x.ok /\ x.set # <<>>
      <4>1. "alike" \notin odd' => Current(x.set[1]) BY <1>1, <2>2, <3>1 DEF Harmless, Turns
      <4>2. "alike" \notin odd' => Current(x.set[1])' BY <1>5, <1>6, <3>1, <4>1
      <4>. QED BY <3>1, <4>2 DEF Harmless
    <3>2. CASE ~(x.do = "login" /\ x.with = NoCookies /\ x.at = "done" /\ x.ok /\ x.set # <<>>)
      BY <2>2, <3>2 DEF Harmless
    <3>. QED BY <3>1, <3>2
  <2>3. Harmless(b, a) BY <1>2, <2>1 DEF Nobody
  <2>4. Harmless(b, c)'
    <3>1. a.do # "logout" BY <1>1 DEF Quietly, Same
    <3>2. CASE a.do = "login" /\ a.with = NoCookies
      <4>1. c.do = "login" /\ c.with = NoCookies /\ ~c.ok /\ c.set = <<>> /\ c.at # "sent"
            /\ c.at \notin {"expiring", "rotating"} /\ c.at # "checked"
        BY <1>1, <3>2, NobodyAuthed DEF Quietly, Same
      <4>2. c.at = "done" BY <4>1 DEF Ask
      <4>. QED BY <4>1, <4>2 DEF Harmless
    <3>3. CASE a.do = "private" /\ a.with = NoCookies /\ (a.at # "sent" => ~a.ok)
      <4>1. c.do = "private" /\ c.with = NoCookies /\ c.set = <<>> /\ ~c.ok
        BY <1>1, <3>3, NobodyAuthed DEF Quietly, Same
      <4>. QED BY <4>1 DEF Harmless
    <3>4. CASE ~Turns(a.do) /\ ~Renews(a.with)
      BY <1>1, <3>4 DEF Quietly, Harmless, Same
    <3>. QED BY <2>3, <3>1, <3>2, <3>3, <3>4 DEF Harmless
  <2>5. \A x \in Of(b)' : Harmless(b, x)' BY <1>2, <2>1, <2>2, <2>4 DEF Nobody
  <2>6. a.do # "logout" BY <1>1 DEF Quietly, Same
  <2>7. jar'[b] = NoCookies \/ \E x \in Of(b)' : x.do = "logout"
    BY <1>1, <1>2, <2>1, <2>6 DEF Nobody
  <2>. QED BY <1>1, <2>1, <2>5, <2>7 DEF Nobody
<1>8. ASSUME OneTurn(b), InOk(b), means[b] = "in" PROVE Somebody(b)'
  <2>1. Somebody(b) BY <1>8 DEF InOk
  <2>2. Fits(b, a) /\ Uses(b, a) /\ Says(b, a) /\ jar[b].refresh # NoToken
    BY <1>2, <2>1 DEF Somebody, Fits
  <2>3. c.set = <<>> /\ UNCHANGED expired BY DEF Quietly
  <2>4. Uses(b, c)' BY <1>1, <2>2 DEF Uses, Same
  <2>5. ASSUME c.do = "private", c.ok PROVE c.login # NoLogin /\ c.login = jar[b].refresh.login
    <3>1. CASE a.at = "sent"
      <4>1. Authed(c.with) /\ c.login = UserData(c.with).login
        BY <1>1, <2>5, <3>1 DEF Quietly, Same
      <4>2. c.with.refresh = jar[b].refresh BY <1>1, <2>2, <2>5 DEF Uses, Turns, Same
      <4>3. Paired(c.with) BY <1>1 DEF TokensInv, BringsPair, Same
      <4>4. UserData(c.with).login = jar[b].refresh.login
        BY <4>1, <4>2, <4>3 DEF UserData, Authed, Paired
      <4>5. jar[b].refresh.login \in Login BY <1>4, <2>2, TokenFields
      <4>. QED BY <4>1, <4>4, <4>5 DEF AccountsAssumption
    <3>2. CASE a.at # "sent"
      <4>1. c.ok = a.ok /\ c.login = a.login /\ a.do = "private"
        BY <1>1, <2>5, <3>2 DEF Quietly, Same
      <4>. QED BY <2>2, <2>5, <3>2, <4>1 DEF Says
    <3>. QED BY <3>1, <3>2
  <2>6. Says(b, c)' BY <1>1, <2>5 DEF Says
  <2>7. Fits(b, c)' BY <2>3, <2>4, <2>6 DEF Fits
  <2>8. ASSUME NEW x \in Of(b) \ {a} PROVE Fits(b, x)'
    <3>1. Fits(b, x) BY <2>1, <2>8 DEF Somebody
    <3>2. expired' \subseteq expired \cup {a.with.refresh} BY <2>3
    <3>3. \A u \in Id : users[u] # NoLogin => users'[u] = users[u] BY DEF Quietly
    <3>. QED BY <1>1, <2>3, <2>8, <3>1, <3>2, <3>3, FitsKept
  <2>9. ASSUME Told(a) PROVE Told(c)
    <3>1. CASE a.at = "sent"
      <4>1. a.do = "private" /\ Turns(a.do) BY <2>9 DEF Told, Turns
      <4>2. Good(jar[b].refresh) BY <1>2, <1>8, <2>1, <3>1, <4>1, SentHeld
      <4>3. c.with.refresh = jar[b].refresh BY <1>1, <2>2, <4>1 DEF Uses, Turns, Same
      <4>4. Authed(c.with) BY <4>2, <4>3 DEF Authed, UserData, Good
      <4>. QED BY <1>1, <3>1, <4>1, <4>4 DEF Quietly, Told, Same
    <3>2. CASE a.at # "sent" BY <1>1, <2>9, <3>2 DEF Quietly, Told, Same
    <3>. QED BY <3>1, <3>2
  <2>10. ~Pending(a) BY <1>1 DEF Pending, Quietly
  <2>11. ~Wrote(a) BY <1>1 DEF Wrote, TokensInv, Shaped
  <2>12. Stands(jar[b].refresh) => Stands(jar[b].refresh)'
    <3>1. jar[b].refresh.user \in Id /\ jar[b].refresh.login \in Login
      BY <1>4, <2>2, TokenFields
    <3>. QED BY <1>1, <3>1 DEF Stands, Quietly, AccountsAssumption
  <2>13. Good(jar[b].refresh) => Good(jar[b].refresh)' BY <1>1, <2>3 DEF Good
  <2>. QED BY <1>1, <2>1, <2>7, <2>8, <2>9, <2>10, <2>11, <2>12, <2>13, SomebodyNext
<1>9. means'[b] = means[b] BY <1>1
<1>. QED BY <1>7, <1>8, <1>9 DEF OutOk, InOk

(* What a loud step brings fits.                                           *)
LEMMA CarriesFresh ==
  ASSUME NEW a \in asks, NEW c, NEW b \in Browser, b = a.b, Turned(a, c),
         "alike" \notin odd', NEW k, NEW u, NEW l, Fresh(k, u, l), Brings(c, k),
         "elsewhere" \notin odd' => users'[u] = l,
         IF c.do = "update" /\ c.ok THEN l = c.arg
         ELSE u = jar[b].refresh.user /\ l = jar[b].refresh.login
  PROVE  Carries(b, c)'
<1>1. /\ Same(a, c) /\ asks' = (asks \ {a}) \cup {c} /\ UNCHANGED <<jar, shown, means>>
  BY DEF Turned
<1>2. a \in Of(b) /\ Of(b)' = (Of(b) \ {a}) \cup {c} BY <1>1, OfSplit DEF Same
<1>3. /\ c.set # <<>> /\ c.set[1] = k /\ k.refresh # NoToken /\ k.refresh.user = u
      /\ k.refresh.login = l /\ k.refresh \notin expired' /\ k.refresh \notin Refs(b)
  BY DEF Fresh, Brings
<1>4. Current(c.set[1])' BY <1>3 DEF Current, Good, Stands
<1>5. \A x \in Of(b) : k.refresh # x.with.refresh /\ (x.set # <<>> => k.refresh # x.set[1].refresh)
  BY <1>3, InRefs
<1>6. jar'[b].refresh # k.refresh BY <1>1, <1>3, InRefs
<1>7. Unused(b, c)' BY <1>1, <1>2, <1>3, <1>5, <1>6 DEF Unused, Same
<1>. QED BY <1>1, <1>3, <1>4, <1>7 DEF Carries, Kin

(* A step that issues tokens, makes them run out or writes its row.        *)
LEMMA LoudOwn ==
  ASSUME AccountsAssumption, TypeOK, TokensInv, NEW a \in asks, NEW c \in Ask, NEW b, b = a.b,
         \/ Rotates(a, c) \/ LogsIn(a, c) \/ LogsOut(a, c)
         \/ Expires(a, c) \/ Writes(a, c) \/ Deletes(a, c)
  PROVE  /\ OneTurn(b) /\ OutOk(b) => OutOk(b)'
         /\ OneTurn(b) /\ InOk(b) /\ odd' \cap {"rejected", "alike"} = {} => InOk(b)'
<1>1. Turned(a, c) BY DEF Rotates, LogsIn, LogsOut, Expires, Writes, Deletes
<1>2. /\ Same(a, c) /\ asks' = (asks \ {a}) \cup {c} /\ UNCHANGED <<jar, shown, means>>
      /\ odd \subseteq odd' /\ a.set = <<>> /\ a.at # "done"
  BY <1>1 DEF Turned
<1>3. a \in Of(b) /\ Of(b)' = (Of(b) \ {a}) \cup {c} BY <1>2, OfSplit DEF Same
<1>4. a \in Ask /\ b \in Browser BY AskFields DEF TypeOK
<1>5. jar[b] \in Cookies /\ jar[b].refresh \in Token BY <1>4 DEF TypeOK, Cookies
<1>6. Shaped(a) BY DEF TokensInv
<1>8. ASSUME OutOk(b), means[b] = "out" PROVE Nobody(b)'
  <2>1. Nobody(b) /\ Harmless(b, a) BY <1>3, <1>8 DEF OutOk, Nobody
  <2>2. ~Rotates(a, c) /\ ~Expires(a, c) /\ ~Writes(a, c) /\ ~Deletes(a, c)
    BY <2>1 DEF Harmless, Rotates, Expires, Writes, Deletes, Turns
  <2>3. UNCHANGED <<users, expired>> /\ (LogsIn(a, c) \/ LogsOut(a, c))
    BY <2>2 DEF LogsIn, LogsOut
  <2>4. ASSUME NEW x \in Of(b), Harmless(b, x) PROVE Harmless(b, x)'
    BY <1>2, <2>3, <2>4 DEF Harmless, Current, Good, Stands
  <2>5. Harmless(b, c)'
    <3>1. CASE LogsOut(a, c) BY <1>2, <3>1 DEF Harmless, LogsOut, Same
    <3>2. CASE LogsIn(a, c)
      <4>1. PICK k, u : Fresh(k, u, a.arg) /\ users[u] = a.arg /\ Brings(c, k)
        BY <3>2 DEF LogsIn
      <4>2. "alike" \notin odd' => Current(k)'
        BY <2>3, <4>1 DEF Fresh, Current, Good, Stands
      <4>3. a.do = "login" /\ c.ok BY <3>2 DEF LogsIn
      <4>4. c.do = "login" /\ c.with = NoCookies BY <1>2, <2>1, <4>3 DEF Harmless, Same, Turns
      <4>5. c.at = "done" /\ c.set[1] = k /\ c.set # <<>> BY <4>1 DEF Brings
      <4>. QED BY <4>2, <4>3, <4>4, <4>5 DEF Harmless
    <3>. QED BY <2>3, <3>1, <3>2
  <2>6. \A x \in Of(b)' : Harmless(b, x)' BY <1>3, <2>1, <2>4, <2>5 DEF Nobody
  <2>7. jar'[b] = NoCookies \/ \E x \in Of(b)' : x.do = "logout"
    BY <1>2, <1>3, <2>1 DEF Nobody, Same
  <2>. QED BY <1>2, <2>1, <2>6, <2>7 DEF Nobody
<1>9. ASSUME OneTurn(b), InOk(b), means[b] = "in", odd' \cap {"rejected", "alike"} = {}
      PROVE  Somebody(b)'
  <2>1. Somebody(b) BY <1>9 DEF InOk
  <2>2. Fits(b, a) /\ Uses(b, a) /\ Says(b, a) /\ jar[b].refresh # NoToken
    BY <1>3, <2>1 DEF Somebody, Fits
  <2>3. jar[b].refresh.user \in Id /\ jar[b].refresh.login \in Login BY <1>5, <2>2, TokenFields
  <2>4. "alike" \notin odd' /\ "rejected" \notin odd' BY <1>9
  <2>5. ~Wrote(a) BY <1>2, <1>6 DEF Wrote, Shaped
  <2>6. Uses(b, c)' BY <1>2, <2>2 DEF Uses, Same
  <2>7. CASE Rotates(a, c)
    <3>1. PICK k : Fresh(k, a.with.refresh.user, a.with.refresh.login) /\ Brings(c, k)
      BY <2>7 DEF Rotates
    <3>2. /\ a.at = "rotating" /\ Renews(a.with) /\ c.ok = a.ok
          /\ c.login = a.login /\ expired' = expired \cup {a.with.refresh} /\ UNCHANGED users
      BY <2>7 DEF Rotates
    <3>3. Kin(a.with.refresh, jar[b].refresh) BY <2>2, <3>2 DEF Uses, Kin
    <3>4. Stands(jar[b].refresh) BY <1>2, <1>3, <1>9, <2>1, <3>2, SentHeld
    <3>5. "elsewhere" \notin odd' => users'[a.with.refresh.user] = a.with.refresh.login
      BY <1>2, <3>2, <3>3, <3>4 DEF Stands, Kin
    <3>6. ~(c.do = "update" /\ c.ok) BY <1>2, <1>6, <3>2 DEF Shaped, Same
    <3>7. Carries(b, c)'
      BY <1>1, <1>4, <2>4, <3>1, <3>3, <3>5, <3>6, CarriesFresh DEF Kin
    <3>8. c.set # <<>> /\ c.set[1].refresh \notin Refs(b)
      BY <1>4, <2>4, <3>1 DEF Fresh, Brings
    <3>9. Says(b, c)' BY <1>2, <2>2, <3>2 DEF Says, Same
    <3>10. Fits(b, c)' BY <2>6, <3>7, <3>9 DEF Fits
    <3>11. ASSUME NEW x \in Of(b) \ {a} PROVE Fits(b, x)'
      <4>1. Fits(b, x) BY <2>1, <3>11 DEF Somebody
      <4>2. expired' \subseteq expired \cup {a.with.refresh} BY <3>2
      <4>3. \A u \in Id : users[u] # NoLogin => users'[u] = users[u] BY <3>2
      <4>. QED BY <1>1, <3>8, <3>11, <4>1, <4>2, <4>3, FitsKept
    <3>12. Pending(c) BY <3>8 DEF Pending
    <3>13. Stands(jar[b].refresh)' BY <1>2, <3>2, <3>4 DEF Stands
    <3>14. Told(a) => Told(c) BY <1>2, <3>2 DEF Told, Same
    <3>. QED BY <1>1, <2>1, <2>5, <3>10, <3>11, <3>12, <3>13, <3>14, SomebodyNext
  <2>8. CASE LogsIn(a, c)
    <3>1. a.do = "login" /\ a.at = "sent" /\ ~Authed(a.with) /\ Turns(a.do)
      BY <2>8 DEF LogsIn, Turns
    <3>2. Good(jar[b].refresh) BY <1>2, <1>3, <1>9, <2>1, <3>1, SentHeld
    <3>3. Good(a.with.refresh) BY <2>2, <3>1, <3>2 DEF Uses
    <3>. QED BY <3>1, <3>3 DEF Authed, UserData, Good
  <2>9. CASE LogsOut(a, c)
    BY <2>2, <2>9 DEF LogsOut, Uses, Turns
  <2>10. ASSUME Turns(a.do), a.do # "private", a.do # "login", Fits(b, c)',
                Good(jar[b].refresh) => Good(jar[b].refresh)' \/ Pending(c),
                Pending(a) => Pending(c),
                Stands(jar[b].refresh) => Stands(jar[b].refresh)' \/ Wrote(c),
                expired' \subseteq expired \cup {a.with.refresh},
                c.set # <<>> => c.set[1].refresh \notin Refs(b) \ {NoToken}
         PROVE  Somebody(b)'
    <3>1. ASSUME NEW x \in Of(b) \ {a} PROVE Fits(b, x)'
      <4>1. Fits(b, x) BY <2>1, <3>1 DEF Somebody
      <4>2. x.set = <<>> BY <1>3, <1>9, <2>10, <3>1, OthersIdle
      <4>. QED BY <1>1, <2>10, <3>1, <4>1, <4>2, FitsKept
    <3>2. ~Told(a) BY <2>10 DEF Told
    <3>. QED BY <1>1, <2>1, <2>5, <2>10, <3>1, <3>2, SomebodyNext
  <2>11. CASE Expires(a, c)
    <3>1. /\ a.do = "update" /\ a.at = "sent" /\ Turns(a.do)
          /\ expired' = expired \cup {a.with.refresh} /\ UNCHANGED users
          /\ c.set = <<>> /\ c.at = "checked" /\ c.do = "update"
      BY <1>2, <2>4, <2>11 DEF Expires, Turns, Same
    <3>2. Fits(b, c)' BY <2>6, <3>1 DEF Fits, Says
    <3>3. Pending(c) /\ ~Pending(a) BY <1>2, <3>1 DEF Pending
    <3>4. Stands(jar[b].refresh) => Stands(jar[b].refresh)' BY <1>2, <3>1 DEF Stands
    <3>. QED BY <2>10, <3>1, <3>2, <3>3, <3>4
  <2>12. CASE Writes(a, c)
    <3>1. PICK k : Fresh(k, a.with.refresh.user, a.arg) /\ Brings(c, k) BY <2>12 DEF Writes
    <3>2. /\ a.do = "update" /\ a.at = "checked" /\ c.ok /\ UNCHANGED expired
          /\ users[a.with.refresh.user] # NoLogin => users'[a.with.refresh.user] = a.arg
          /\ c.do = "update" /\ c.arg = a.arg /\ Turns(a.do)
      BY <1>2, <2>12 DEF Writes, Same, Turns
    <3>3. Stands(jar[b].refresh) BY <1>2, <1>3, <1>9, <2>1, <3>2, SentHeld
    <3>4. a.with.refresh = jar[b].refresh BY <2>2, <3>2 DEF Uses
    <3>5. "elsewhere" \notin odd' => users'[a.with.refresh.user] = a.arg
      BY <1>2, <2>3, <3>2, <3>3, <3>4 DEF Stands, AccountsAssumption
    <3>6. Carries(b, c)' BY <1>1, <1>4, <2>4, <3>1, <3>2, <3>5, CarriesFresh
    <3>7. c.set # <<>> /\ c.set[1].refresh \notin Refs(b)
      BY <1>4, <2>4, <3>1 DEF Fresh, Brings
    <3>8. Fits(b, c)' BY <2>6, <3>2, <3>6 DEF Fits, Says
    <3>9. Pending(c) /\ Wrote(c) BY <3>2, <3>7 DEF Pending, Wrote
    <3>. QED BY <2>10, <3>2, <3>7, <3>8, <3>9
  <2>13. CASE Deletes(a, c)
    <3>1. /\ a.do = "delete" /\ a.at = "sent" /\ c.ok /\ Brings(c, NoCookies)
          /\ expired' = expired \cup {a.with.refresh} /\ c.do = "delete" /\ Turns(a.do)
      BY <1>2, <2>13 DEF Deletes, Same, Turns
    <3>2. c.set # <<>> /\ c.set[1].refresh = NoToken BY <3>1 DEF Brings, NoCookies
    <3>3. Left(c)' BY <3>1 DEF Left
    <3>4. Fits(b, c)' BY <2>6, <3>1, <3>3 DEF Fits, Says
    <3>5. Pending(c) /\ Wrote(c) BY <3>1, <3>2 DEF Pending, Wrote
    <3>. QED BY <2>10, <3>1, <3>2, <3>4, <3>5
  <2>. QED BY <2>7, <2>8, <2>9, <2>11, <2>12, <2>13
<1>10. means'[b] = means[b] BY <1>2
<1>. QED BY <1>8, <1>9, <1>10 DEF OutOk, InOk

(* The server's steps.                                                     *)
LEMMA ServerSessions ==
  ASSUME AccountsAssumption, AccountsInv, TokensInv, SessionInv, NEW a \in asks, Server(a)
  PROVE  TokensInv' /\ SessionInv'
<1>1. TypeOK /\ Shaped(a) BY DEF AccountsInv, TokensInv
<1>2. PICK c \in Ask : \/ Quietly(a, c) \/ Rotates(a, c) \/ LogsIn(a, c) \/ LogsOut(a, c)
                       \/ Expires(a, c)
                       \/ (Writes(a, c) \/ Deletes(a, c)) /\ \A b \in Browser \ {a.b} : Spared(b)
  BY ServerKinds
<1>3. TurnedWell(a, c) BY <1>1, <1>2, KindsTurn
<1>4. TokensInv' BY <1>1, <1>3, RowsServer, ServerTokens
<1>5. /\ Turned(a, c) /\ odd \subseteq odd' /\ UNCHANGED <<jar, shown, means>>
      /\ asks' = (asks \ {a}) \cup {c} /\ c.b = a.b
      /\ expired' \subseteq expired \cup {a.with.refresh}
  BY <1>3 DEF TurnedWell, Turned, Same
<1>6. a.b \in Browser /\ a \in Of(a.b) /\ \A b : b # a.b => Of(b)' = Of(b)
  BY <1>1, <1>5, OfSplit, AskFields DEF TypeOK
<1>7. ASSUME NEW b \in Browser, b # a.b PROVE Apart(b)
  <2>1. Spared(b)
    <3>1. CASE Quietly(a, c)
      <4>1. \A t \in Refs(b) : t # NoToken => t.user \in Id BY <1>1, RefsAre, TokenFields
      <4>. QED BY <3>1, <4>1 DEF Quietly, Spared
    <3>2. CASE Rotates(a, c) \/ LogsIn(a, c) \/ LogsOut(a, c) \/ Expires(a, c)
      <4>1. UNCHANGED users BY <3>2 DEF Rotates, LogsIn, LogsOut, Expires
      <4>. QED BY <4>1 DEF Spared
    <3>. QED BY <1>2, <1>7, <3>1, <3>2
  <2>2. a.with.refresh \in Refs(a.b) BY <1>6, InRefs
  <2>3. "alike" \notin odd' => \A t \in Refs(b) : t \in expired' => t \in expired \cup {NoToken}
    BY <1>5, <1>6, <1>7, <2>2 DEF TokensInv, Own
  <2>. QED BY <1>5, <1>6, <1>7, <2>1, <2>3 DEF Apart
<1>8. ASSUME NEW b \in Browser, b # a.b
      PROVE  /\ OneTurn(b) => OneTurn(b)'
             /\ OutOk(b) => OutOk(b)'
             /\ InOk(b) /\ "alike" \notin odd' => InOk(b)'
  BY <1>1, <1>7, <1>8, ApartKept
<1>9. OneTurn(a.b) => OneTurn(a.b)' BY <1>5, TurnedOne
<1>10. OneTurn(a.b) /\ OutOk(a.b) => OutOk(a.b)' BY <1>1, <1>2, QuietOwn, LoudOwn
<1>11. OneTurn(a.b) /\ InOk(a.b) /\ odd' \cap {"rejected", "alike"} = {} => InOk(a.b)'
  BY <1>1, <1>2, QuietOwn, LoudOwn
<1>12. (Straight' => Straight) /\ (Plain' => Plain)
       /\ (Plain' => Straight /\ odd' \cap {"rejected", "alike"} = {})
  BY <1>5 DEF Straight, Plain
<1>13. ASSUME Straight' PROVE \A b \in Browser : OneTurn(b)' /\ OutOk(b)'
  BY <1>8, <1>9, <1>10, <1>12, <1>13 DEF SessionInv
<1>14. ASSUME Plain' PROVE \A b \in Browser : InOk(b)'
  BY <1>8, <1>11, <1>12, <1>14 DEF SessionInv
<1>. QED BY <1>4, <1>13, <1>14 DEF SessionInv

----------------------------------------------------------------------------
(* What the person does at a browser.                                      *)

(* Steps of one browser leave the others as they are.                      *)
LEMMA BrowserApart ==
  ASSUME NEW b, NEW d, d # b, Of(d)' = Of(d), jar'[d] = jar[d], shown'[d] = shown[d],
         means'[d] = means[d], odd \subseteq odd', UNCHANGED server
  PROVE  Apart(d)
BY DEF Apart, Spared, server

(* A request that crosses no other leaves one turn at a time.              *)
LEMMA SentOne ==
  ASSUME NEW b, NEW r, r.b = b, r.with = jar[b], asks' = asks \cup {r}, ~Crossing(b, r.do),
         OneTurn(b)
  PROVE  OneTurn(b)'
<1>1. Of(b)' = Of(b) \cup {r} BY OfSent
<1>. QED BY <1>1 DEF OneTurn, Crossing

(* A browser that was told to sign in may ask for anything but to sign     *)
(* out.                                                                    *)
(* A browser that was told to sign in may ask for anything but to sign     *)
(* out.                                                                    *)
LEMMA SentSomebody ==
  ASSUME NEW b, NEW r, r.b = b, r.with = jar[b], r.at = "sent", r.set = <<>>, ~r.ok,
         asks' = asks \cup {r}, r.do # "logout", UNCHANGED server, jar'[b] = jar[b],
         odd \subseteq odd',
         \/ shown'[b] = shown[b]
         \/ shown'[b] = NoLogin /\ r.do = "private",
         Somebody(b)
  PROVE  Somebody(b)'
<1>1. Of(b)' = Of(b) \cup {r} BY OfSent
<1>2. UNCHANGED <<users, expired>> BY DEF server
<1>3. \A k : Current(k) => Current(k)' BY <1>2 DEF Current, Good, Stands
<1>4. ASSUME NEW x \in Of(b) PROVE Fits(b, x)'
  <2>1. Fits(b, x) BY <1>4 DEF Somebody
  <2>2. Uses(b, x)' /\ Says(b, x)' BY <2>1 DEF Fits, Uses, Says
  <2>3. ASSUME Carries(b, x) PROVE Carries(b, x)'
    <3>1. Current(x.set[1])' BY <1>3, <2>3 DEF Carries
    <3>2. Unused(b, x)' BY <1>1, <2>3 DEF Carries, Unused
    <3>. QED BY <2>3, <3>1, <3>2 DEF Carries
  <2>. QED BY <2>1, <2>2, <2>3 DEF Fits, Left
<1>5. Fits(b, r)' BY DEF Fits, Uses, Says, Kin
<1>6. \A x \in Of(b)' : Fits(b, x)' BY <1>1, <1>4, <1>5
<1>7. Good(jar[b].refresh)' \/ \E x \in Of(b)' : Pending(x)'
  BY <1>1, <1>2 DEF Somebody, Pending, Good
<1>8. Stands(jar[b].refresh)' \/ \E x \in Of(b)' : Wrote(x)'
  BY <1>1, <1>2 DEF Somebody, Wrote, Stands
<1>9. Shows(b, jar[b].refresh.login)' BY DEF Somebody, Shows
<1>10. shown'[b] # NoLogin \/ \E x \in Of(b)' : Told(x)' BY <1>1 DEF Somebody, Told
<1>. QED BY <1>6, <1>7, <1>8, <1>9, <1>10 DEF Somebody

(* What a browser that was told to sign out may still send.                *)
LEMMA SentNobody ==
  ASSUME NEW b, NEW r, r.b = b, r.with = jar[b], r.at = "sent", r.set = <<>>, ~r.ok,
         asks' = asks \cup {r}, UNCHANGED server, jar'[b] = jar[b], odd \subseteq odd',
         shown'[b] = NoLogin, r.do \in {"login", "private", "list", "create"},
         ~Crossing(b, r.do), r.do = "private" => Quiet(b), Nobody(b)
  PROVE  Nobody(b)'
<1>1. Of(b)' = Of(b) \cup {r} BY OfSent
<1>2. UNCHANGED <<users, expired>> BY DEF server
<1>3. \A k : Current(k) => Current(k)' BY <1>2 DEF Current, Good, Stands
<1>4. ASSUME NEW x \in Of(b), Harmless(b, x) PROVE Harmless(b, x)'
  BY <1>3, <1>4 DEF Harmless
<1>5. Harmless(b, r)'
  <2>1. CASE jar[b] = NoCookies
    <3>1. r.with = NoCookies /\ ~Renews(r.with) BY <2>1, NobodyAuthed
    <3>. QED BY <3>1 DEF Harmless, Turns
  <2>2. CASE jar[b] # NoCookies
    <3>1. PICK x \in Of(b) : x.do = "logout" BY <2>2 DEF Nobody
    <3>2. Turns(x.do) BY <3>1 DEF Turns
    <3>3. ~Turns(r.do) /\ ~Renews(r.with) BY <3>1, <3>2 DEF Crossing, Turns
    <3>. QED BY <3>3 DEF Harmless
  <2>. QED BY <2>1, <2>2
<1>6. \A x \in Of(b)' : Harmless(b, x)' BY <1>1, <1>4, <1>5 DEF Nobody
<1>7. jar'[b] = NoCookies \/ \E x \in Of(b)' : x.do = "logout" BY <1>1 DEF Nobody
<1>. QED BY <1>6, <1>7 DEF Nobody

(* The person keeps SessionsInv.                                           *)
LEMMA PersonSessions ==
  ASSUME AccountsAssumption, AccountsInv, TokensInv, SessionInv, NEW b \in Browser,
         NEW l \in Login,
         Person(b, l)
  PROVE  TokensInv' /\ SessionInv'
<1>1. PICK do \in {"login", "create", "logout", "update", "delete", "list", "private"},
        arg \in Names :
        /\ Send(b, do, arg)
        /\ \/ do = "logout" /\ SignOut(b)
           \/ do \in {"update", "delete"} /\ shown[b] # NoLogin /\ UNCHANGED <<shown, means>>
           \/ do \in {"login", "create", "list"} /\ UNCHANGED <<shown, means>>
           \/ do = "private" /\ Quiet(b) /\ shown' = [shown EXCEPT ![b] = NoLogin]
              /\ UNCHANGED means
  BY DEF Person, SignIn, SignUp, SignOut, SaveProfile, DeleteProfile, Visit, Launch, Names
<1>2. UNCHANGED <<server, jar>>
  BY DEF Person, SignIn, SignUp, SignOut, SaveProfile, DeleteProfile, Visit, Launch, server
<1>3. PICK r : /\ r.b = b /\ r.do = do /\ r.with = jar[b] /\ r.at = "sent" /\ r.set = <<>> /\ ~r.ok
               /\ asks' = asks \cup {r}
  <2> DEFINE q == Request(b, do, arg, jar[b])
  <2>1. q.b = b /\ q.do = do /\ q.with = jar[b] /\ q.at = "sent" /\ q.set = <<>> /\ ~q.ok
    BY RequestIs
  <2>2. asks' = asks \cup {q} BY <1>1 DEF Send
  <2> HIDE DEF q
  <2>. QED BY <2>1, <2>2
<1>4. asks' = asks \cup {r} BY <1>3
<1>5. odd \subseteq odd' /\ (Straight' => ~Crossing(b, do))
  BY <1>1 DEF Send, Blame, If, Straight
<1>6. TypeOK BY DEF AccountsInv
<1>7. TokensInv' BY <1>1, <1>2, <1>6, SentTokens
<1>8. /\ shown \in [Browser -> Login \cup {NoLogin}] /\ means \in [Browser -> {"in", "out"}]
  BY <1>6 DEF TypeOK
<1>9. \A d \in Browser : d # b => shown'[d] = shown[d] /\ means'[d] = means[d] /\ jar'[d] = jar[d]
  BY <1>1, <1>2, <1>8 DEF SignOut
<1>10. Of(b)' = Of(b) \cup {r} /\ \A d : d # b => Of(d)' = Of(d) BY <1>3, <1>4, OfSent
<1>11. ASSUME NEW d \in Browser, d # b
       PROVE  /\ OneTurn(d) => OneTurn(d)'
              /\ OutOk(d) => OutOk(d)'
              /\ InOk(d) /\ "alike" \notin odd' => InOk(d)'
  <2>1. Apart(d) BY <1>2, <1>5, <1>9, <1>10, <1>11, BrowserApart
  <2>. QED BY <1>6, <1>11, <2>1, ApartKept
<1>12. (Straight' => Straight) /\ (Plain' => Plain /\ "alike" \notin odd')
  BY <1>5 DEF Straight, Plain
<1>13. ASSUME Straight', OneTurn(b) PROVE OneTurn(b)'
  BY <1>3, <1>4, <1>5, <1>13, SentOne
<1>14. ASSUME Straight', OneTurn(b), OutOk(b), means'[b] = "out" PROVE Nobody(b)'
  <2>1. CASE do = "logout"
    <3>1. shown'[b] = NoLogin BY <1>1, <1>8, <2>1 DEF SignOut
    <3>2. ASSUME NEW x \in Of(b) PROVE Harmless(b, x)'
      <4>1. ~Turns(x.do) /\ ~Renews(x.with) BY <1>5, <1>14, <2>1, <3>2 DEF Crossing, Turns
      <4>2. x.set = <<>> BY <3>2, <4>1 DEF TokensInv, Shaped, Of, Turns
      <4>. QED BY <4>1, <4>2 DEF Harmless, Turns, Renews
    <3>3. Harmless(b, r)' BY <1>3, <2>1 DEF Harmless
    <3>. QED BY <1>3, <1>10, <2>1, <3>1, <3>2, <3>3 DEF Nobody
  <2>2. CASE do # "logout"
    <3>1. Nobody(b) BY <1>1, <1>14, <2>2 DEF OutOk
    <3>2. shown[b] = NoLogin BY <3>1 DEF Nobody
    <3>3. do \in {"login", "private", "list", "create"} /\ shown'[b] = NoLogin
          /\ (do = "private" => Quiet(b))
      BY <1>1, <1>8, <2>2, <3>2
    <3>. QED BY <1>2, <1>3, <1>4, <1>5, <1>14, <3>1, <3>3, SentNobody
  <2>. QED BY <2>1, <2>2
<1>15. ASSUME InOk(b), means'[b] = "in" PROVE Somebody(b)'
  <2>1. do # "logout" /\ means' = means BY <1>1, <1>8, <1>15 DEF SignOut
  <2>2. Somebody(b) BY <1>15, <2>1 DEF InOk
  <2>3. shown'[b] = shown[b] \/ (shown'[b] = NoLogin /\ do = "private")
    BY <1>1, <1>8, <2>1
  <2>. QED BY <1>2, <1>3, <1>4, <1>5, <2>1, <2>2, <2>3, SentSomebody
<1>16. ASSUME Straight' PROVE \A d \in Browser : OneTurn(d)' /\ OutOk(d)'
  BY <1>11, <1>12, <1>13, <1>14, <1>16 DEF SessionInv, OutOk
<1>17. ASSUME Plain' PROVE \A d \in Browser : InOk(d)'
  BY <1>11, <1>12, <1>15, <1>17 DEF SessionInv, InOk
<1>. QED BY <1>7, <1>16, <1>17 DEF SessionInv

(* An access token that has run out leaves its refresh token.              *)
LEMMA ExpiredSessions ==
  ASSUME AccountsAssumption, AccountsInv, TokensInv, SessionInv, NEW b \in Browser,
         AccessExpires(b)
  PROVE  TokensInv' /\ SessionInv'
<1>1. /\ jar' = [jar EXCEPT ![b] = [jar[b] EXCEPT !.access = NoToken]] /\ jar[b].access # NoToken
      /\ UNCHANGED <<server, users, made, expired, shown, asks, means, odd>>
  BY DEF AccessExpires, server
<1>2. TypeOK /\ jar \in [Browser -> Cookies] BY DEF AccountsInv, TypeOK
<1>3. /\ jar'[b].refresh = jar[b].refresh
      /\ \A d \in Browser : d # b => jar'[d] = jar[d]
  BY <1>1, <1>2 DEF Cookies
<1>4. TokensInv' BY <1>2, ExpiredTokens
<1>5. \A d : Of(d)' = Of(d) BY <1>1 DEF Of
<1>6. ASSUME NEW d \in Browser, d # b
      PROVE  /\ OneTurn(d) => OneTurn(d)'
             /\ OutOk(d) => OutOk(d)'
             /\ InOk(d) /\ "alike" \notin odd' => InOk(d)'
  <2>1. Apart(d) BY <1>1, <1>3, <1>5, <1>6, BrowserApart
  <2>. QED BY <1>2, <1>6, <2>1, ApartKept
<1>7. OneTurn(b) => OneTurn(b)' BY <1>5 DEF OneTurn
<1>8. ASSUME NEW k, Current(k) PROVE Current(k)' BY <1>1, <1>8 DEF Current, Good, Stands
<1>9. Nobody(b) => Nobody(b)'
  <2> SUFFICES ASSUME Nobody(b) PROVE Nobody(b)'
    OBVIOUS
  <2>1. jar[b] # NoCookies BY <1>1 DEF NoCookies
  <2>2. \E x \in Of(b) : x.do = "logout" BY <2>1 DEF Nobody
  <2>3. ASSUME NEW x \in Of(b) PROVE Harmless(b, x)'
    <3>1. Harmless(b, x) /\ odd' = odd BY <1>1, <2>3 DEF Nobody
    <3>2. Current(x.set[1]) => Current(x.set[1])' BY <1>8
    <3>. QED BY <3>1, <3>2 DEF Harmless
  <2>. QED BY <1>1, <1>5, <2>2, <2>3 DEF Nobody
<1>10. Somebody(b) => Somebody(b)'
  <2> SUFFICES ASSUME Somebody(b) PROVE Somebody(b)'
    OBVIOUS
  <2>1. ASSUME NEW x \in Of(b) PROVE Fits(b, x)'
    <3>1. Fits(b, x) BY <2>1 DEF Somebody
    <3>2. Uses(b, x)' /\ Says(b, x)' BY <1>3, <3>1 DEF Fits, Uses, Says
    <3>3. ASSUME Carries(b, x) PROVE Carries(b, x)'
      <4>1. Current(x.set[1])' BY <1>8, <3>3 DEF Carries
      <4>2. Unused(b, x)' BY <1>3, <1>5, <3>3 DEF Carries, Unused
      <4>. QED BY <1>3, <3>3, <4>1, <4>2 DEF Carries
    <3>. QED BY <3>1, <3>2, <3>3 DEF Fits, Left
  <2>2. \A x \in Of(b)' : Fits(b, x)' BY <1>5, <2>1
  <2>3. Good(jar[b].refresh)' \/ \E x \in Of(b)' : Pending(x)'
    BY <1>1, <1>3, <1>5 DEF Somebody, Pending, Good
  <2>4. Stands(jar[b].refresh)' \/ \E x \in Of(b)' : Wrote(x)'
    BY <1>1, <1>3, <1>5 DEF Somebody, Wrote, Stands
  <2>5. Shows(b, jar[b].refresh.login)' BY <1>1, <1>3 DEF Somebody, Shows
  <2>6. shown'[b] # NoLogin \/ \E x \in Of(b)' : Told(x)' BY <1>1, <1>5 DEF Somebody, Told
  <2>7. jar'[b].refresh # NoToken BY <1>3 DEF Somebody
  <2>. QED BY <2>2, <2>3, <2>4, <2>5, <2>6, <2>7 DEF Somebody
<1>11. (OutOk(b) => OutOk(b)') /\ (InOk(b) => InOk(b)') BY <1>1, <1>9, <1>10 DEF OutOk, InOk
<1>12. Straight' = Straight /\ Plain' = Plain /\ (Plain => "alike" \notin odd')
  BY <1>1 DEF Straight, Plain
<1>. QED BY <1>4, <1>6, <1>7, <1>11, <1>12 DEF SessionInv

----------------------------------------------------------------------------
(* Answers.                                                                *)

(* A browser whose request that turns it is answered has the tokens it     *)
(* had, or gets the new ones, unless it is to leave.                       *)
LEMMA TurnAnswered ==
  ASSUME TokensInv, NEW a \in asks, NEW b, b = a.b, Turns(a.do), a.at = "done", OneTurn(b),
         Somebody(b), ~Left(a), NEW k, a.set = <<>> => k = jar[b], a.set # <<>> => k = a.set[1]
  PROVE  /\ Current(k)
         /\ IF a.do = "update" /\ a.ok THEN k.refresh.login = a.arg
            ELSE k.refresh.login = jar[b].refresh.login
<1>1. a \in Of(b) BY DEF Of
<1>2. Fits(b, a) BY <1>1 DEF Somebody
<1>3. CASE a.set # <<>> BY <1>2, <1>3 DEF Fits, Carries, Kin
<1>4. CASE a.set = <<>>
  <2>1. ~Pending(a) BY <1>4 DEF Pending
  <2>2. ~Wrote(a) BY <1>4 DEF Wrote, TokensInv, Shaped
  <2>3. \A x \in Of(b) : ~Pending(x) /\ ~Wrote(x) BY <1>1, <2>1, <2>2, OthersIdle
  <2>4. Current(jar[b]) BY <2>3 DEF Somebody, Current
  <2>. QED BY <1>4, <2>2, <2>4 DEF Wrote
<1>. QED BY <1>3, <1>4

(* Then it has good tokens again, and is shown under their login.          *)
LEMMA TurnedSomebody ==
  ASSUME NEW a \in asks, NEW b, b = a.b, NEW R, FollowedBy(a, R), OneTurn(b), Turns(a.do),
         TokensInv,
         \A r \in R : r.do \in {"private", "list"},
         NEW k, jar'[b] = k, Current(k),
         "elsewhere" \notin odd => shown'[b] \in {NoLogin, k.refresh.login},
         UNCHANGED <<users, expired, odd>>,
         shown'[b] # NoLogin \/ \E r \in R : r.do = "private"
  PROVE  Somebody(b)'
<1>1. a \in Of(b) /\ Of(b)' = (Of(b) \ {a}) \cup R BY FollowedOf DEF Of
<1>2. \A x \in Of(b) \ {a} : ~Turns(x.do) /\ ~Renews(x.with) /\ x.set = <<>>
  BY <1>1, OthersIdle
<1>3. \A r \in R : /\ r.with = jar'[b] /\ r.at = "sent" /\ r.set = <<>> /\ ~r.ok
                   /\ r.do \in {"private", "list"}
  BY DEF FollowedBy
<1>4. \A x \in Of(b)' : Fits(b, x)'
  <2>1. ASSUME NEW x \in Of(b) \ {a} PROVE Fits(b, x)'
    BY <1>2 DEF Fits, Uses, Says, Turns, Renews
  <2>2. ASSUME NEW x \in R PROVE Fits(b, x)' BY <1>3 DEF Fits, Uses, Says, Kin
  <2>. QED BY <1>1, <2>1, <2>2
<1>5. jar'[b].refresh # NoToken /\ Good(jar[b].refresh)' BY DEF Current, Good
<1>6. Stands(jar[b].refresh)' BY DEF Current, Stands
<1>7. Shows(b, jar[b].refresh.login)' BY DEF Shows
<1>8. shown'[b] # NoLogin \/ \E x \in Of(b)' : Told(x)' BY <1>1, <1>3 DEF Told
<1>. QED BY <1>4, <1>5, <1>6, <1>7, <1>8 DEF Somebody

(* And one turn at a time.                                                 *)
LEMMA TurnedOnce ==
  ASSUME NEW a \in asks, NEW b, b = a.b, NEW R, FollowedBy(a, R), OneTurn(b), Turns(a.do),
         TokensInv,
         \A r, s \in R : r = s
  PROVE  OneTurn(b)'
<1>1. a \in Of(b) /\ Of(b)' = (Of(b) \ {a}) \cup R BY FollowedOf DEF Of
<1>2. \A x \in Of(b) \ {a} : ~Turns(x.do) /\ ~Renews(x.with) BY <1>1, OthersIdle
<1>. QED BY <1>1, <1>2 DEF OneTurn

(* An answer that leaves a browser signed out.                             *)
LEMMA TurnedNobody ==
  ASSUME NEW a \in asks, NEW b, b = a.b, NEW R, FollowedBy(a, R), OneTurn(b), Turns(a.do),
         TokensInv,
         \A r \in R : r.do = "logout",
         jar'[b] = NoCookies \/ \E r \in R : r.do = "logout", shown'[b] = NoLogin
  PROVE  Nobody(b)'
<1>1. a \in Of(b) /\ Of(b)' = (Of(b) \ {a}) \cup R BY FollowedOf DEF Of
<1>2. \A x \in Of(b) \ {a} : ~Turns(x.do) /\ ~Renews(x.with) /\ x.set = <<>>
  BY <1>1, OthersIdle
<1>3. ASSUME NEW x \in Of(b)' PROVE Harmless(b, x)'
  <2>1. CASE x \in R BY <2>1 DEF Harmless
  <2>2. CASE x \in Of(b) \ {a} BY <1>2, <2>2 DEF Harmless, Turns, Renews
  <2>. QED BY <1>1, <2>1, <2>2
<1>4. jar'[b] = NoCookies \/ \E x \in Of(b)' : x.do = "logout" BY <1>1
<1>. QED BY <1>3, <1>4 DEF Nobody

(* updateAuth.                                                             *)
LEMMA AuthOwn ==
  ASSUME AccountsAssumption, TypeOK, TokensInv, NEW a \in asks, NEW b, b = a.b, AuthUpdated(a),
         OneTurn(b)
  PROVE  OneTurn(b)' /\ (OutOk(b) => OutOk(b)') /\ (InOk(b) => InOk(b)')
<1>1. /\ a \in Ask /\ b \in Browser /\ a.at = "done" /\ a.do = "private" /\ a \in Of(b)
      /\ a.set = <<>> => jar' = jar
      /\ a.set # <<>> => jar'[b] = a.set[1]
  BY AnsweredIs DEF AuthUpdated
<1>2. Turns(a.do) /\ UNCHANGED <<users, expired, odd, means>>
  BY <1>1 DEF AuthUpdated, server, Turns
<1>3. \E R : /\ FollowedBy(a, R) /\ (\A r, s \in R : r = s) /\ \A r \in R : r.do = "list"
             /\ ~a.ok => R = {}
  <2>1. CASE a.ok
    <3>1. PICK r : FollowedBy(a, {r}) /\ r.do = "list" BY <2>1, ThenIs DEF AuthUpdated
    <3>2. \A x, y \in {r} : x = y OBVIOUS
    <3>. QED BY <2>1, <3>1, <3>2
  <2>2. CASE ~a.ok
    <3>1. FollowedBy(a, {}) BY <2>2, EndIs DEF AuthUpdated
    <3>. QED BY <2>2, <3>1
  <2>. QED BY <2>1, <2>2
<1>4. PICK R : /\ FollowedBy(a, R) /\ (\A r, s \in R : r = s) /\ \A r \in R : r.do = "list"
               /\ ~a.ok => R = {}
  BY <1>3
<1>5. OneTurn(b)' BY <1>2, <1>4, TurnedOnce
<1>6. IF a.ok THEN shown'[b] = a.login ELSE shown'[b] = shown[b]
  BY <1>1 DEF AuthUpdated, TypeOK
<1>7. ASSUME OutOk(b), means[b] = "out" PROVE Nobody(b)'
  <2>1. Nobody(b) /\ Harmless(b, a) BY <1>1, <1>7 DEF OutOk, Nobody
  <2>2. a.set = <<>> /\ ~a.ok BY <1>1, <2>1 DEF Harmless, Turns
  <2>3. jar' = jar /\ shown'[b] = NoLogin /\ R = {} BY <1>1, <1>4, <1>6, <2>1, <2>2 DEF Nobody
  <2>4. jar[b] = NoCookies
    <3>1. \A x \in Of(b) \ {a} : ~Turns(x.do) BY <1>1, <1>2, OthersIdle
    <3>. QED BY <1>1, <2>1, <3>1 DEF Nobody, Turns
  <2>. QED BY <1>2, <1>4, <2>3, <2>4, TurnedNobody
<1>8. ASSUME InOk(b), means[b] = "in" PROVE Somebody(b)'
  <2>1. Somebody(b) BY <1>8 DEF InOk
  <2>2. ~Left(a) BY <1>1 DEF Left
  <2>3. PICK k : k = jar'[b] OBVIOUS
  <2>4. (a.set = <<>> => k = jar[b]) /\ (a.set # <<>> => k = a.set[1]) BY <1>1, <2>3
  <2>5. Current(k) /\ k.refresh.login = jar[b].refresh.login
    BY <1>1, <1>2, <2>1, <2>2, <2>4, TurnAnswered
  <2>6. a.ok => a.login # NoLogin /\ a.login = jar[b].refresh.login
    BY <1>1, <2>1 DEF Somebody, Fits, Says
  <2>7. "elsewhere" \notin odd => shown'[b] \in {NoLogin, k.refresh.login}
    BY <1>6, <2>1, <2>5, <2>6 DEF Somebody, Shows
  <2>8. shown'[b] # NoLogin
    <3>1. CASE a.ok BY <1>6, <2>6, <3>1
    <3>2. CASE ~a.ok
      <4>1. ~Told(a) BY <1>1, <3>2 DEF Told
      <4>2. \A x \in Of(b) : ~Told(x) BY <1>1, <1>2, <4>1, OthersIdle
      <4>. QED BY <1>6, <2>1, <3>2, <4>2 DEF Somebody
    <3>. QED BY <3>1, <3>2
  <2>. QED BY <1>2, <1>4, <2>3, <2>5, <2>7, <2>8, TurnedSomebody
<1>. QED BY <1>2, <1>5, <1>7, <1>8 DEF OutOk, InOk

(* The answer to a login.                                                  *)
LEMMA SignedInOwn ==
  ASSUME AccountsAssumption, TypeOK, TokensInv, NEW a \in asks, NEW b, b = a.b, SignedIn(a),
         OneTurn(b)
  PROVE  /\ OneTurn(b)'
         /\ OutOk(b) => OutOk(b)'
         /\ OutOk(b) /\ InOk(b) /\ "alike" \notin odd => InOk(b)'
<1>1. /\ a \in Ask /\ b \in Browser /\ a.at = "done" /\ a.do = "login" /\ a \in Of(b)
      /\ a.set = <<>> => jar' = jar
      /\ a.set # <<>> => jar'[b] = a.set[1]
  BY AnsweredIs DEF SignedIn
<1>2. Turns(a.do) /\ UNCHANGED <<users, expired, odd, shown>>
  BY <1>1 DEF SignedIn, server, Turns
<1>3. IF a.ok THEN means'[b] = "in" ELSE means'[b] = means[b]
  BY <1>1 DEF SignedIn, TypeOK
<1>4. \E R : /\ FollowedBy(a, R) /\ (\A r, s \in R : r = s) /\ \A r \in R : r.do = "private"
             /\ IF a.ok THEN R # {} ELSE R = {}
  <2>1. CASE a.ok
    <3>1. PICK r : FollowedBy(a, {r}) /\ r.do = "private" BY <2>1, ThenIs DEF SignedIn
    <3>2. \A x, y \in {r} : x = y OBVIOUS
    <3>. QED BY <2>1, <3>1, <3>2
  <2>2. CASE ~a.ok
    <3>1. FollowedBy(a, {}) BY <2>2, EndIs DEF SignedIn
    <3>. QED BY <2>2, <3>1
  <2>. QED BY <2>1, <2>2
<1>5. PICK R : /\ FollowedBy(a, R) /\ (\A r, s \in R : r = s) /\ \A r \in R : r.do = "private"
               /\ IF a.ok THEN R # {} ELSE R = {}
  BY <1>4
<1>6. OneTurn(b)' BY <1>2, <1>5, TurnedOnce
<1>7. ASSUME OutOk(b), means'[b] = "out" PROVE Nobody(b)'
  <2>1. ~a.ok /\ means[b] = "out" /\ R = {} BY <1>3, <1>5, <1>7
  <2>2. Nobody(b) /\ Harmless(b, a) BY <1>1, <1>7, <2>1 DEF OutOk, Nobody
  <2>3. a.set = <<>> BY <1>1, <2>1, <2>2 DEF Harmless, Turns
  <2>4. jar' = jar /\ shown'[b] = NoLogin BY <1>1, <1>2, <2>2, <2>3 DEF Nobody
  <2>5. jar[b] = NoCookies
    <3>1. \A x \in Of(b) \ {a} : ~Turns(x.do) BY <1>1, <1>2, OthersIdle
    <3>. QED BY <1>1, <2>2, <3>1 DEF Nobody, Turns
  <2>. QED BY <1>2, <1>5, <2>1, <2>4, <2>5, TurnedNobody
<1>8. ASSUME OutOk(b), InOk(b), "alike" \notin odd, means'[b] = "in" PROVE Somebody(b)'
  <2>0. PICK k : k = jar'[b] OBVIOUS
  <2>1. Current(k) /\ ("elsewhere" \notin odd => shown'[b] \in {NoLogin, k.refresh.login})
    <3>1. CASE means[b] = "out"
      <4>1. a.ok BY <1>3, <1>8, <3>1
      <4>2. Nobody(b) /\ Harmless(b, a) BY <1>1, <1>8, <3>1 DEF OutOk, Nobody
      <4>3. a.set # <<>> /\ Current(a.set[1]) BY <1>1, <1>8, <4>1, <4>2 DEF Harmless, Turns
      <4>4. shown'[b] = NoLogin BY <1>2, <4>2 DEF Nobody
      <4>. QED BY <1>1, <2>0, <4>3, <4>4
    <3>2. CASE means[b] = "in"
      <4>1. Somebody(b) BY <1>8, <3>2 DEF InOk
      <4>2. ~Left(a) BY <1>1 DEF Left
      <4>3. (a.set = <<>> => k = jar[b]) /\ (a.set # <<>> => k = a.set[1]) BY <1>1, <2>0
      <4>4. Current(k) /\ k.refresh.login = jar[b].refresh.login
        BY <1>1, <1>2, <4>1, <4>2, <4>3, TurnAnswered
      <4>. QED BY <1>2, <4>1, <4>4 DEF Somebody, Shows
    <3>3. means[b] \in {"in", "out"} BY <1>1 DEF TypeOK
    <3>. QED BY <3>1, <3>2, <3>3
  <2>2. shown'[b] # NoLogin \/ \E r \in R : r.do = "private"
    <3>1. CASE a.ok BY <1>5, <3>1
    <3>2. CASE ~a.ok
      <4>1. Somebody(b) BY <1>3, <1>8, <3>2 DEF InOk
      <4>2. ~Told(a) BY <1>1 DEF Told
      <4>3. \A x \in Of(b) : ~Told(x) BY <1>1, <1>2, <4>2, OthersIdle
      <4>. QED BY <1>2, <4>1, <4>3 DEF Somebody
    <3>. QED BY <3>1, <3>2
  <2>. QED BY <1>2, <1>5, <2>0, <2>1, <2>2, TurnedSomebody
<1>. QED BY <1>6, <1>7, <1>8 DEF OutOk, InOk

(* The answer to a profile that was to be saved.                           *)
LEMMA SavedOwn ==
  ASSUME AccountsAssumption, TypeOK, AsksTyped, TokensInv, NEW a \in asks, NEW b, b = a.b,
         ProfileSaved(a), OneTurn(b)
  PROVE  OneTurn(b)' /\ (OutOk(b) => OutOk(b)') /\ (InOk(b) => InOk(b)')
<1>1. /\ a \in Ask /\ b \in Browser /\ a.at = "done" /\ a.do = "update" /\ a \in Of(b)
      /\ a.set = <<>> => jar' = jar
      /\ a.set # <<>> => jar'[b] = a.set[1]
  BY AnsweredIs DEF ProfileSaved
<1>2. Turns(a.do) /\ UNCHANGED <<users, expired, odd, means>> /\ FollowedBy(a, {})
  BY <1>1, EndIs DEF ProfileSaved, server, Turns
<1>3. IF a.ok THEN shown'[b] = a.arg ELSE shown'[b] = shown[b]
  BY <1>1 DEF ProfileSaved, TypeOK
<1>4. a.arg # NoLogin BY <1>1 DEF AsksTyped, Named, AccountsAssumption
<1>5. OneTurn(b)' BY <1>2, TurnedOnce
<1>6. ASSUME OutOk(b), means[b] = "out" PROVE FALSE
  BY <1>1, <1>2, <1>6 DEF OutOk, Nobody, Harmless
<1>7. ASSUME InOk(b), means[b] = "in" PROVE Somebody(b)'
  <2>1. Somebody(b) BY <1>7 DEF InOk
  <2>2. ~Left(a) BY <1>1 DEF Left
  <2>3. PICK k : k = jar'[b] OBVIOUS
  <2>4. (a.set = <<>> => k = jar[b]) /\ (a.set # <<>> => k = a.set[1]) BY <1>1, <2>3
  <2>5. /\ Current(k)
        /\ IF a.ok THEN k.refresh.login = a.arg ELSE k.refresh.login = jar[b].refresh.login
    BY <1>1, <1>2, <2>1, <2>2, <2>4, TurnAnswered
  <2>6. "elsewhere" \notin odd => shown'[b] \in {NoLogin, k.refresh.login}
    BY <1>3, <2>1, <2>5 DEF Somebody, Shows
  <2>7. shown'[b] # NoLogin
    <3>1. ~Told(a) BY <1>1 DEF Told
    <3>2. \A x \in Of(b) : ~Told(x) BY <1>1, <1>2, <3>1, OthersIdle
    <3>. QED BY <1>3, <1>4, <2>1, <3>2 DEF Somebody
  <2>. QED BY <1>2, <2>3, <2>5, <2>6, <2>7, TurnedSomebody
<1>. QED BY <1>2, <1>5, <1>6, <1>7 DEF OutOk, InOk

(* The answer to a profile that was to be deleted.                         *)
LEMMA DeletedOwn ==
  ASSUME AccountsAssumption, TypeOK, TokensInv, NEW a \in asks, NEW b, b = a.b,
         ProfileDeleted(a), OneTurn(b)
  PROVE  OneTurn(b)' /\ (OutOk(b) => OutOk(b)') /\ (InOk(b) => InOk(b)')
<1>1. /\ a \in Ask /\ b \in Browser /\ a.at = "done" /\ a.do = "delete" /\ a \in Of(b)
      /\ a.set = <<>> => jar' = jar
      /\ a.set # <<>> => jar'[b] = a.set[1]
  BY AnsweredIs DEF ProfileDeleted
<1>2. Turns(a.do) /\ UNCHANGED <<users, expired, odd>>
  BY <1>1 DEF ProfileDeleted, server, Turns
<1>3. ASSUME OutOk(b), means[b] = "out" PROVE FALSE
  BY <1>1, <1>2, <1>3 DEF OutOk, Nobody, Harmless
<1>4. CASE a.ok
  <2>1. PICK r : FollowedBy(a, {r}) /\ r.do = "logout" BY <1>4, ThenIs DEF ProfileDeleted
  <2>2. shown'[b] = NoLogin /\ means'[b] = "out" BY <1>1, <1>4 DEF ProfileDeleted, TypeOK
  <2>3. \A x, y \in {r} : x = y OBVIOUS
  <2>4. OneTurn(b)' BY <1>2, <2>1, <2>3, TurnedOnce
  <2>5. Nobody(b)' BY <1>2, <2>1, <2>2, TurnedNobody
  <2>. QED BY <2>2, <2>4, <2>5 DEF OutOk, InOk
<1>5. CASE ~a.ok
  <2>1. FollowedBy(a, {}) /\ UNCHANGED <<shown, means>> BY <1>5, EndIs DEF ProfileDeleted
  <2>2. OneTurn(b)' BY <1>2, <2>1, TurnedOnce
  <2>3. ASSUME InOk(b), means[b] = "in" PROVE Somebody(b)'
    <3>1. Somebody(b) BY <2>3 DEF InOk
    <3>2. ~Left(a) BY <1>5 DEF Left
    <3>3. PICK k : k = jar'[b] OBVIOUS
    <3>4. (a.set = <<>> => k = jar[b]) /\ (a.set # <<>> => k = a.set[1]) BY <1>1, <3>3
    <3>5. Current(k) /\ k.refresh.login = jar[b].refresh.login
      BY <1>1, <1>2, <3>1, <3>2, <3>4, TurnAnswered
    <3>6. "elsewhere" \notin odd => shown'[b] \in {NoLogin, k.refresh.login}
      BY <2>1, <3>1, <3>5 DEF Somebody, Shows
    <3>7. shown'[b] # NoLogin
      <4>1. ~Told(a) BY <1>1 DEF Told
      <4>2. \A x \in Of(b) : ~Told(x) BY <1>1, <1>2, <4>1, OthersIdle
      <4>. QED BY <2>1, <3>1, <4>2 DEF Somebody
    <3>. QED BY <1>2, <2>1, <3>3, <3>5, <3>6, <3>7, TurnedSomebody
  <2>. QED BY <1>3, <2>1, <2>2, <2>3 DEF OutOk, InOk
<1>. QED BY <1>4, <1>5

(* The answers that turn nobody, of which one may bring new tokens.        *)
LEMMA OtherOwn ==
  ASSUME AccountsAssumption, TypeOK, TokensInv, NEW a \in asks, NEW b, b = a.b,
         OtherAnswer(a), OneTurn(b)
  PROVE  OneTurn(b)' /\ (OutOk(b) => OutOk(b)') /\ (InOk(b) => InOk(b)')
<1>1. /\ a \in Ask /\ b \in Browser /\ a.at = "done" /\ a.do \in {"list", "logout", "create"}
      /\ a \in Of(b)
      /\ a.set = <<>> => jar' = jar
      /\ a.set # <<>> => jar'[b] = a.set[1]
  BY AnsweredIs DEF OtherAnswer
<1>2. UNCHANGED <<users, expired, odd, means, shown>> /\ FollowedBy(a, {})
  BY EndIs DEF OtherAnswer, server
<1>3. Of(b)' = Of(b) \ {a} BY <1>2, FollowedOf
<1>4. OneTurn(b)' BY <1>3 DEF OneTurn
<1>5. ASSUME NEW k, Current(k) PROVE Current(k)' BY <1>2, <1>5 DEF Current, Good, Stands
<1>6. ASSUME OutOk(b), means[b] = "out" PROVE Nobody(b)'
  <2>1. Nobody(b) /\ Harmless(b, a) BY <1>1, <1>6 DEF OutOk, Nobody
  <2>2. ASSUME NEW x \in Of(b) PROVE Harmless(b, x)'
    <3>1. Harmless(b, x) /\ odd' = odd BY <1>2, <2>1 DEF Nobody
    <3>2. Current(x.set[1]) => Current(x.set[1])' BY <1>5
    <3>. QED BY <3>1, <3>2 DEF Harmless
  <2>3. jar'[b] = NoCookies \/ \E x \in Of(b)' : x.do = "logout"
    <3>1. CASE a.do = "logout"
      <4>1. Shaped(a) BY DEF TokensInv
      <4>2. a.set = <<NoCookies>> BY <1>1, <3>1, <4>1 DEF Shaped
      <4>3. <<NoCookies>>[1] = NoCookies /\ <<NoCookies>> # <<>> OBVIOUS
      <4>. QED BY <1>1, <4>2, <4>3
    <3>2. CASE a.do # "logout"
      <4>1. a.set = <<>> BY <1>1, <2>1, <3>2 DEF Harmless
      <4>. QED BY <1>1, <1>3, <2>1, <3>2, <4>1 DEF Nobody
    <3>. QED BY <3>1, <3>2
  <2>. QED BY <1>2, <1>3, <2>1, <2>2, <2>3 DEF Nobody
<1>7. ASSUME InOk(b), means[b] = "in" PROVE Somebody(b)'
  <2>1. Somebody(b) BY <1>7 DEF InOk
  <2>2. Fits(b, a) /\ a.do # "logout" /\ ~Turns(a.do)
    BY <1>1, <2>1 DEF Somebody, Fits, Uses, Turns
  <2>3. ~Told(a) /\ ~Wrote(a) /\ ~Left(a) BY <2>2 DEF Told, Wrote, Left, Turns
  <2>4. shown'[b] # NoLogin \/ \E x \in Of(b)' : Told(x)'
    BY <1>2, <1>3, <2>1, <2>3 DEF Somebody, Told
  <2>5. CASE a.set = <<>>
    <3>1. jar' = jar /\ ~Pending(a) BY <1>1, <2>2, <2>5 DEF Pending
    <3>2. ASSUME NEW x \in Of(b) PROVE Fits(b, x)'
      <4>1. Fits(b, x) BY <2>1, <3>2 DEF Somebody
      <4>2. Uses(b, x)' /\ Says(b, x)' BY <3>1, <4>1 DEF Fits, Uses, Says
      <4>3. ASSUME Carries(b, x) PROVE Carries(b, x)'
        <5>1. Current(x.set[1])' BY <1>5, <4>3 DEF Carries
        <5>2. Unused(b, x)' BY <1>3, <3>1, <4>3 DEF Carries, Unused
        <5>. QED BY <3>1, <4>3, <5>1, <5>2 DEF Carries
      <4>. QED BY <4>1, <4>2, <4>3 DEF Fits, Left
    <3>3. \A x \in Of(b)' : Fits(b, x)' BY <1>3, <3>2
    <3>4. Good(jar[b].refresh)' \/ \E x \in Of(b)' : Pending(x)'
      BY <1>2, <1>3, <2>1, <3>1 DEF Somebody, Pending, Good
    <3>5. Stands(jar[b].refresh)' \/ \E x \in Of(b)' : Wrote(x)'
      BY <1>2, <1>3, <2>1, <2>3, <3>1 DEF Somebody, Wrote, Stands
    <3>6. Shows(b, jar[b].refresh.login)' BY <1>2, <2>1, <3>1 DEF Somebody, Shows
    <3>7. jar'[b].refresh # NoToken BY <2>1, <3>1 DEF Somebody
    <3>. QED BY <2>4, <3>3, <3>4, <3>5, <3>6, <3>7 DEF Somebody
  <2>6. CASE a.set # <<>>
    <3>1. Renews(a.with) BY <2>2, <2>6 DEF TokensInv, Shaped, Turns
    <3>2. \A x \in Of(b) \ {a} : ~Turns(x.do) BY <1>1, <3>1 DEF OneTurn
    <3>3. Carries(b, a) BY <2>2, <2>3, <2>6 DEF Fits
    <3>4. PICK k : k = jar'[b] /\ k = a.set[1] BY <1>1, <2>6
    <3>5. Current(k) /\ Kin(k.refresh, jar[b].refresh) /\ Unused(b, a)
      BY <2>2, <3>3, <3>4 DEF Carries, Turns
    <3>6. ASSUME NEW x \in Of(b) \ {a} PROVE Fits(b, x)'
      <4>1. Fits(b, x) /\ ~Turns(x.do) BY <2>1, <3>2, <3>6 DEF Somebody
      <4>2. Uses(b, x)' BY <3>4, <3>5, <4>1 DEF Fits, Uses, Kin
      <4>3. Says(b, x)' BY <4>1 DEF Says, Turns
      <4>4. ASSUME x.set # <<>> PROVE Carries(b, x)'
        <5>1. Carries(b, x) BY <4>1, <4>4 DEF Fits, Left, Turns
        <5>2. Current(x.set[1])' BY <1>5, <5>1 DEF Carries
        <5>3. x.set[1].refresh # k.refresh BY <3>4, <3>5, <4>4 DEF Unused
        <5>4. Unused(b, x)' BY <1>3, <3>4, <5>1, <5>3 DEF Carries, Unused
        <5>5. Kin(x.set[1].refresh, k.refresh) BY <3>5, <4>1, <5>1 DEF Carries, Kin, Turns
        <5>. QED BY <3>4, <4>1, <5>2, <5>4, <5>5 DEF Carries, Turns
      <4>. QED BY <4>2, <4>3, <4>4 DEF Fits
    <3>7. \A x \in Of(b)' : Fits(b, x)' BY <1>3, <3>6
    <3>8. jar'[b].refresh # NoToken /\ Good(jar[b].refresh)' /\ Stands(jar[b].refresh)'
      BY <1>2, <3>4, <3>5 DEF Current, Good, Stands
    <3>9. Shows(b, jar[b].refresh.login)'
      BY <1>2, <2>1, <3>4, <3>5 DEF Somebody, Shows, Kin
    <3>. QED BY <2>4, <3>7, <3>8, <3>9 DEF Somebody
  <2>. QED BY <2>5, <2>6
<1>. QED BY <1>2, <1>4, <1>6, <1>7 DEF OutOk, InOk

(* Every answer keeps SessionsInv.                                         *)
LEMMA ComingSessions ==
  ASSUME AccountsAssumption, AccountsInv, TokensInv, SessionInv, NEW a \in asks,
         Comes(a)
  PROVE  TokensInv' /\ SessionInv'
<1>1. TypeOK /\ AsksTyped BY DEF AccountsInv
<1>2. PICK dos \in {{"private"}, {"login"}, {"update"}, {"delete"}, {"list", "logout", "create"}} :
        Answered(a, dos)
  BY DEF Comes, AuthUpdated, SignedIn, ProfileSaved, ProfileDeleted, OtherAnswer
<1>3. /\ UNCHANGED <<server, odd>>
      /\ End(a) \/ \E do : Then(a, do)
  BY DEF Comes, AuthUpdated, SignedIn, ProfileSaved, ProfileDeleted, OtherAnswer
<1>4. TokensInv' BY <1>1, <1>2, <1>3, ComingTokens
<1>5. a.b \in Browser /\ \A d \in Browser : d # a.b => jar'[d] = jar[d] BY <1>1, <1>2, AnsweredIs
<1>6. \A d \in Browser : d # a.b => shown'[d] = shown[d] /\ means'[d] = means[d]
  BY <1>1 DEF Comes, AuthUpdated, SignedIn, ProfileSaved, ProfileDeleted, OtherAnswer, TypeOK
<1>7. \A d : d # a.b => Of(d)' = Of(d)
  <2>1. CASE End(a) BY <2>1, EndIs, FollowedOf
  <2>2. ASSUME NEW do, Then(a, do) PROVE \A d : d # a.b => Of(d)' = Of(d)
    BY <2>2, ThenIs, FollowedOf
  <2>. QED BY <1>3, <2>1, <2>2
<1>8. ASSUME NEW d \in Browser, d # a.b
      PROVE  /\ OneTurn(d) => OneTurn(d)'
             /\ OutOk(d) => OutOk(d)'
             /\ InOk(d) /\ "alike" \notin odd' => InOk(d)'
  <2>1. Apart(d) BY <1>3, <1>5, <1>6, <1>7, <1>8, BrowserApart
  <2>. QED BY <1>1, <1>8, <2>1, ApartKept
<1>9. OneTurn(a.b) => /\ OneTurn(a.b)' /\ (OutOk(a.b) => OutOk(a.b)')
                      /\ (OutOk(a.b) /\ InOk(a.b) /\ "alike" \notin odd => InOk(a.b)')
  <2>1. CASE AuthUpdated(a) BY <1>1, <2>1, AuthOwn
  <2>2. CASE SignedIn(a) BY <1>1, <2>2, SignedInOwn
  <2>3. CASE ProfileSaved(a) BY <1>1, <2>3, SavedOwn
  <2>4. CASE ProfileDeleted(a) BY <1>1, <2>4, DeletedOwn
  <2>5. CASE OtherAnswer(a) BY <1>1, <2>5, OtherOwn
  <2>. QED BY <2>1, <2>2, <2>3, <2>4, <2>5 DEF Comes
<1>10. /\ Straight' = Straight /\ Plain' = Plain
       /\ Plain => Straight /\ "alike" \notin odd /\ "alike" \notin odd'
  BY <1>3 DEF Straight, Plain
<1>. QED BY <1>4, <1>5, <1>8, <1>9, <1>10 DEF SessionInv

(* An answer that is lost is remembered, and leaves the tokens as they     *)
(* are.                                                                    *)
LEMMA LostSessions ==
  ASSUME AccountsInv, TokensInv, NEW a \in asks, AnswerLost(a)
  PROVE  TokensInv' /\ SessionInv'
<1>1. /\ asks' = asks \ {a} /\ UNCHANGED <<users, made, expired, jar>> /\ "lost" \in odd'
  BY DEF AnswerLost, End, Blame, server
<1>2. SessionInv' BY <1>1 DEF SessionInv, Straight, Plain
<1>3. TypeOK /\ a \in Ask BY DEF AccountsInv, TypeOK
<1>4. \A d : Of(d)' \subseteq Of(d) BY <1>1 DEF Of
<1>5. \A d \in Browser : Refs(d)' \subseteq Refs(d)
  <2> SUFFICES ASSUME NEW d \in Browser, NEW t \in Refs(d)' PROVE t \in Refs(d)
    OBVIOUS
  <2>1. \/ t = jar'[d].refresh
        \/ \E x \in Of(d)' : t = x.with.refresh \/ (x.set # <<>> /\ t = x.set[1].refresh)
    BY DEF Refs
  <2>2. jar[d].refresh \in Refs(d) BY InRefs
  <2>3. ASSUME NEW x \in Of(d), t = x.with.refresh \/ (x.set # <<>> /\ t = x.set[1].refresh)
        PROVE  t \in Refs(d)
    BY <2>3, InRefs
  <2>. QED BY <1>1, <1>4, <2>1, <2>2, <2>3
<1>6. odd \subseteq odd' BY DEF AnswerLost, Blame
<1>7. Own' BY <1>5, <1>6 DEF TokensInv, Own
<1>. QED BY <1>1, <1>2, <1>7 DEF TokensInv, RowsMade, Shaped, BringsPair

----------------------------------------------------------------------------
SessionsInv == TokensInv /\ SessionInv

(* Every browser is at first what it was told to be.                       *)
LEMMA InitSessions == ASSUME AccountsAssumption PROVE Init => SessionsInv
<1> SUFFICES ASSUME Init PROVE SessionsInv
  OBVIOUS
<1>1. PICK l \in Login, S \in SUBSET Browser :
        /\ users = [u \in Id |-> IF u = 1 THEN l ELSE NoLogin]
        /\ jar = [b \in Browser |->
                  IF b \in S THEN [access |-> NoToken,
                                   refresh |-> [user |-> 1, login |-> l, n |-> 1]]
                             ELSE NoCookies]
        /\ means = [b \in Browser |-> IF b \in S THEN "in" ELSE "out"]
        /\ shown = [b \in Browser |-> IF b \in S THEN l ELSE NoLogin]
        /\ \A b, c \in S : b = c
  BY DEF Init
<1>2. /\ asks = {} /\ odd = {} /\ expired = {}
      /\ made = [rows |-> 1, tokens |-> 1, second |-> 1]
  BY DEF Init
<1> DEFINE t == [user |-> 1, login |-> l, n |-> 1]
           k == [access |-> NoToken, refresh |-> t]
<1>3. /\ k.access = NoToken /\ k.refresh = t /\ t.user = 1 /\ t.login = l /\ t.n = 1
      /\ t # NoToken
  BY DEF NoToken
<1>4. NoCookies.access = NoToken /\ NoCookies.refresh = NoToken /\ NoToken.n = 0
  BY DEF NoCookies, NoToken
<1>5. \A b \in Browser : jar[b] = IF b \in S THEN k ELSE NoCookies BY <1>1
<1>6. 1 \in Id /\ l # NoLogin BY DEF Id, AccountsAssumption
<1>7. users[1] = l /\ \A u \in Id : users[u] # NoLogin => u = 1 BY <1>1, <1>6
<1> HIDE DEF t, k
<1>8. \A b : Of(b) = {} BY <1>2 DEF Of
<1>9. \A b \in Browser : Refs(b) = {jar[b].refresh} BY <1>8 DEF Refs
<1>11. Own BY <1>1, <1>3, <1>4, <1>5, <1>9 DEF Own
<1>12. RowsMade BY <1>2, <1>7 DEF RowsMade
<1>13. \A b \in Browser : Paired(jar[b]) BY <1>3, <1>4, <1>5 DEF Paired
<1>14. TokensInv BY <1>2, <1>11, <1>12, <1>13 DEF TokensInv
<1>15. ASSUME NEW b \in Browser PROVE OneTurn(b) BY <1>8 DEF OneTurn
<1>16. ASSUME NEW b \in Browser PROVE OutOk(b)
  <2>1. CASE b \in S BY <1>1, <2>1 DEF OutOk
  <2>2. CASE b \notin S BY <1>1, <1>5, <1>8, <2>2 DEF OutOk, Nobody
  <2>. QED BY <2>1, <2>2
<1>17. ASSUME NEW b \in Browser PROVE InOk(b)
  <2>1. CASE b \notin S BY <1>1, <2>1 DEF InOk
  <2>2. CASE b \in S
    <3>1. jar[b] = k /\ shown[b] = l BY <1>1, <1>5, <2>2
    <3>2. Good(k.refresh) /\ Stands(k.refresh) BY <1>2, <1>3, <1>7 DEF Good, Stands
    <3>. QED BY <1>3, <1>6, <1>8, <3>1, <3>2 DEF InOk, Somebody, Shows
  <2>. QED BY <2>1, <2>2
<1>. QED BY <1>14, <1>15, <1>16, <1>17 DEF SessionsInv, SessionInv

LEMMA NextSessions ==
  ASSUME AccountsAssumption
  PROVE  AccountsInv /\ AccountsInv' /\ SessionsInv /\ [Next]_vars => SessionsInv'
<1> SUFFICES ASSUME AccountsInv, AccountsInv', SessionsInv, [Next]_vars PROVE SessionsInv'
  OBVIOUS
<1>1. TokensInv /\ SessionInv BY DEF SessionsInv
<1>2. ASSUME NEW a \in asks, Server(a) PROVE SessionsInv'
  BY <1>1, <1>2, ServerSessions DEF SessionsInv
<1>3. ASSUME NEW b \in Browser, NEW l \in Login, Person(b, l) PROVE SessionsInv'
  BY <1>1, <1>3, PersonSessions DEF SessionsInv
<1>4. ASSUME NEW b \in Browser, AccessExpires(b) PROVE SessionsInv'
  BY <1>1, <1>4, ExpiredSessions DEF SessionsInv
<1>5. ASSUME NEW a \in asks, Comes(a) PROVE SessionsInv'
  BY <1>1, <1>5, ComingSessions DEF SessionsInv
<1>6. ASSUME NEW a \in asks, AnswerLost(a) PROVE SessionsInv'
  BY <1>1, <1>6, LostSessions DEF SessionsInv
<1>7. CASE UNCHANGED vars
  <2>1. /\ UNCHANGED <<users, made, expired, jar, shown, asks, means, odd>>
        /\ UNCHANGED server
    BY <1>7 DEF vars, server
  <2>2. \A d : Of(d)' = Of(d) BY <2>1 DEF Of
  <2>3. \A d \in Browser : Refs(d)' = Refs(d) BY <2>1, <2>2 DEF Refs
  <2>4. TokensInv'
    BY <1>1, <2>1, <2>3 DEF TokensInv, Own, RowsMade, Shaped, BringsPair
  <2>5. ASSUME NEW d \in Browser
        PROVE  /\ OneTurn(d) => OneTurn(d)'
               /\ OutOk(d) => OutOk(d)'
               /\ InOk(d) /\ "alike" \notin odd' => InOk(d)'
    <3>1. Apart(d) BY <2>1, <2>2 DEF Apart, Spared
    <3>2. TypeOK BY DEF AccountsInv
    <3>. QED BY <2>5, <3>1, <3>2, ApartKept
  <2>6. Straight' = Straight /\ Plain' = Plain /\ (Plain => "alike" \notin odd')
    BY <2>1 DEF Straight, Plain
  <2>7. SessionInv' BY <1>1, <2>5, <2>6 DEF SessionInv
  <2>. QED BY <2>4, <2>7 DEF SessionsInv
<1>8. PICK l \in Login : TRUE BY DEF AccountsAssumption
<1>9. CASE Next
  <2>1. \/ \E a \in asks : Server(a) \/ Comes(a) \/ AnswerLost(a)
        \/ \E b \in Browser, m \in Login : Person(b, m)
        \/ \E b \in Browser : AccessExpires(b)
    BY <1>8, <1>9 DEF Next, Server, Comes, Person
  <2>. QED BY <1>2, <1>3, <1>4, <1>5, <1>6, <2>1
<1>. QED BY <1>7, <1>9

(* Tokens belong to one browser unless two of one second were alike, and   *)
(* every browser has what it was told to have, though requests that found  *)
(* one token good may rotate it at once (auth.rs:143-155): none when told  *)
(* to sign out; when told to sign in, a good one, or requests that bring   *)
(* one, each of the same user and used by nobody yet.                      *)
THEOREM SessionsInvariant ==
  ASSUME AccountsAssumption PROVE Spec => [](AccountsInv /\ SessionsInv)
<1>1. Init => SessionsInv BY InitSessions
<1>2. AccountsInv /\ AccountsInv' /\ SessionsInv /\ [Next]_vars => SessionsInv' BY NextSessions
<1>3. Spec => []AccountsInv BY AccountsInvariant
<1>. QED BY <1>1, <1>2, <1>3, PTL DEF Spec

(* No answer that was under way brings the tokens of a browser back that   *)
(* was told to sign out (user_route.rs, Profile.tsx), unless requests that *)
(* turn it crossed or an answer was lost.                                  *)
THEOREM SignedOutHolds == ASSUME AccountsAssumption PROVE Spec => []SignedOutStays
<1>1. SessionsInv => SignedOutStays
  <2> SUFFICES ASSUME SessionsInv, Straight, NEW b \in Browser, Quiet(b), means[b] = "out"
               PROVE  ~Authed(jar[b]) /\ shown[b] = NoLogin
    BY DEF SignedOutStays, Straight
  <2>1. Nobody(b) BY DEF SessionsInv, SessionInv, OutOk
  <2>2. jar[b] = NoCookies /\ shown[b] = NoLogin BY <2>1 DEF Nobody, Quiet
  <2>. QED BY <2>2, NobodyAuthed
<1>. QED BY <1>1, SessionsInvariant, PTL

(* A browser that was told to sign in keeps a good refresh token, however  *)
(* many requests rotate it and whichever of their answers comes last       *)
(* (process_jwt, auth.rs:143-155), and is shown; unless the tokens of one  *)
(* second were alike, a change of the profile was rejected after its token *)
(* was expired, requests that turn it crossed, or an answer was lost.      *)
THEOREM SignedInHolds == ASSUME AccountsAssumption PROVE Spec => []SignedInStays
<1>1. SessionsInv => SignedInStays
  <2> SUFFICES ASSUME SessionsInv, odd \cap {"crossed", "lost", "rejected", "alike"} = {},
                      NEW b \in Browser, Quiet(b), means[b] = "in"
               PROVE  Good(jar[b].refresh) /\ shown[b] # NoLogin
    BY DEF SignedInStays
  <2>1. Plain BY DEF Straight, Plain
  <2>2. Somebody(b) BY <2>1 DEF SessionsInv, SessionInv, InOk
  <2>. QED BY <2>2 DEF Somebody, Quiet
<1>. QED BY <1>1, SessionsInvariant, PTL

(* Who is shown as signed in has tokens that are good, and is shown under  *)
(* the login of his row (Header.tsx, user_route.rs), unless another        *)
(* browser of his changed or deleted it.                                   *)
THEOREM ShownHolds == ASSUME AccountsAssumption PROVE Spec => []ShownIsUser
<1>1. AccountsInv /\ SessionsInv => ShownIsUser
  <2> SUFFICES ASSUME AccountsInv, SessionsInv,
                      odd \cap {"crossed", "lost", "rejected", "alike", "elsewhere"} = {},
                      NEW b \in Browser, Quiet(b), shown[b] # NoLogin
               PROVE  Authed(jar[b]) /\ users[jar[b].refresh.user] = shown[b]
    BY DEF ShownIsUser
  <2>1. Straight /\ Plain /\ "elsewhere" \notin odd BY DEF Straight, Plain
  <2>2. means[b] \in {"in", "out"} BY DEF AccountsInv, TypeOK
  <2>3. means[b] = "in" BY <2>1, <2>2 DEF SessionsInv, SessionInv, OutOk, Nobody
  <2>4. Somebody(b) BY <2>1, <2>3 DEF SessionsInv, SessionInv, InOk
  <2>5. Good(jar[b].refresh) /\ Stands(jar[b].refresh) /\ Shows(b, jar[b].refresh.login)
    BY <2>4 DEF Somebody, Quiet
  <2>. QED BY <2>1, <2>5 DEF Shows, Stands, Good, Authed, UserData
<1>. QED BY <1>1, SessionsInvariant, PTL
=============================================================================
