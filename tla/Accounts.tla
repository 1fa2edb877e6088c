------------------------------ MODULE Accounts ------------------------------
(***************************************************************************)
(* Users, the tokens that stand for them, and the browsers of one person:  *)
(* signing up, in and out, changing and deleting a profile, while tokens   *)
(* run out and are rotated by whatever request finds them so, and answers  *)
(* with their cookies come in any order or not at all.  A refresh token    *)
(* does not run out of its thirty days here.  Tokens name the second they  *)
(* were made in, and two of one user made within it are equal.             *)
(***************************************************************************)
EXTENDS Naturals, FiniteSets

CONSTANTS
  Browser,
  Login,      \* logins and nicknames, which change together here
  NoLogin,
  MaxUser,    \* bound: rows of users ever made
  MaxToken,   \* bound: refresh tokens ever made
  MaxAsks,    \* bound: requests under way
  MaxOdd      \* bound: the person acts while odd has no more members

ASSUME AccountsAssumption ==
  /\ NoLogin \notin Login /\ Login # {}
  /\ {MaxUser, MaxToken} \subseteq Nat \ {0} /\ {MaxAsks, MaxOdd} \subseteq Nat

VARIABLES
  users,      \* the login in each row
  made,       \* how many rows and refresh tokens were made, and the second of the last
  expired,    \* expired_jwts
  jar,        \* the cookies of a browser
  shown,      \* state.user: the login, or NoLogin when not authed
  asks,       \* requests
  means,      \* history: what a browser was last told to be: "in" or "out"
  odd         \* history: what explains a deviation

server == <<users, made, expired>>
vars == <<server, jar, shown, asks, means, odd>>

Id == 1 .. MaxUser
NoToken == [user |-> 0, login |-> NoLogin, n |-> 0]
Token == [user : Id, login : Login, n : 0 .. MaxToken] \cup {NoToken}
Cookies == [access : Token, refresh : Token]
NoCookies == [access |-> NoToken, refresh |-> NoToken]

Ask == [b : Browser, do : {"private", "list", "login", "logout", "create", "update", "delete"},
        arg : Login \cup {NoLogin}, as : Login \cup {NoLogin}, with : Cookies,
        at : {"sent", "checked", "expiring", "rotating", "done"}, ok : BOOLEAN, set : {<<>>} \cup {<<c>> : c \in Cookies},
        login : Login \cup {NoLogin}]
Reason == {"crossed", "alike", "lost", "rejected", "twice", "elsewhere"}

TypeOK ==
  /\ users \in [Id -> Login \cup {NoLogin}]
  /\ made \in [rows : 0 .. MaxUser, tokens : 0 .. MaxToken, second : 0 .. MaxToken]
  /\ made.second <= made.tokens
  /\ expired \subseteq Token \ {NoToken}
  /\ jar \in [Browser -> Cookies] /\ shown \in [Browser -> Login \cup {NoLogin}]
  /\ asks \subseteq Ask
  /\ means \in [Browser -> {"in", "out"}]
  /\ odd \subseteq Reason

(* The person has an account, and may be signed in.                        *)
Init ==
  /\ \E l \in Login, S \in SUBSET Browser :
       /\ users = [u \in Id |-> IF u = 1 THEN l ELSE NoLogin]
       /\ jar = [b \in Browser |-> IF b \in S THEN [access |-> NoToken, refresh |-> [user |-> 1, login |-> l, n |-> 1]] ELSE NoCookies]
       /\ means = [b \in Browser |-> IF b \in S THEN "in" ELSE "out"]
       /\ shown = [b \in Browser |-> IF b \in S THEN l ELSE NoLogin]
       /\ \A b, c \in S : b = c
  /\ made = [rows |-> 1, tokens |-> 1, second |-> 1] /\ expired = {}
  /\ asks = {} /\ odd = {}

If(reason, cond) == IF cond THEN {reason} ELSE {}
Blame(reasons) == odd' = odd \cup reasons

----------------------------------------------------------------------------
(* Tokens.  A refresh token is good until it is listed as expired; nobody  *)
(* asks if the row of its user is still there, or still the same.          *)

Good(t) == t # NoToken /\ t \notin expired
UserData(c) == IF c.access # NoToken THEN c.access ELSE IF Good(c.refresh) THEN c.refresh ELSE NoToken
Authed(c) == UserData(c) # NoToken

Answer(a, ok) == [a EXCEPT !.at = "done", !.ok = ok]
With(a, cookies) == [a EXCEPT !.set = <<cookies>>]
Becomes(a, c) == asks' = (asks \ {a}) \cup {c}

Tokens(u, l, n) ==
  [access |-> [user |-> u, login |-> l, n |-> 0], refresh |-> [user |-> u, login |-> l, n |-> n]]
Known ==
  expired \cup {jar[b].refresh : b \in Browser} \cup {a.with.refresh : a \in asks}
    \cup {a.set[1].refresh : a \in {c \in asks : c.set # <<>>}}

(* New tokens for a row, which come with the answer c.                     *)
Issue(a, c, u, l, reasons) ==
  \E n \in {made.second, made.second + 1} :
    /\ made.tokens < MaxToken
    /\ made' = [made EXCEPT !.tokens = @ + 1, !.second = n]
    /\ Becomes(a, With(c, Tokens(u, l, n)))
    /\ Blame(reasons \cup If("alike", Tokens(u, l, n).refresh \in Known))

(* process_jwt: a response without tokens gets new ones, where the access  *)
(* token has run out.                                                      *)
Processed(a, c) ==
  Becomes(a, IF a.with.access = NoToken /\ Good(a.with.refresh) THEN [c EXCEPT !.at = "expiring"] ELSE c)

Sent(a, do) == a \in asks /\ a.at = "sent" /\ a.do = do
Checked(a, do) == a \in asks /\ a.at = "checked" /\ a.do = do
Rows(l) == {u \in Id : users[u] = l}
Verified(l) == Cardinality(Rows(l)) = 1
Elsewhere(a, u) ==
  \E b \in Browser \ {a.b} :
    \/ jar[b].refresh.user = u
    \/ \E c \in asks : c.b = b /\ (c.with.refresh.user = u \/ (c.set # <<>> /\ c.set[1].refresh.user = u))

(* user/private, and all other requests that ask who the user is.          *)
ReadPrivate(a) ==
  /\ \E do \in {"private", "list"} : Sent(a, do)
  /\ LET user == UserData(a.with)
     IN Processed(a, [Answer(a, user # NoToken) EXCEPT !.login = user.login])
  /\ UNCHANGED <<server, jar, shown, means, odd>>

(* get_jwt_tokens_from_refresh: the token is looked for among the expired  *)
(* once more, and listed with them later, where it may be twice: of two    *)
(* requests with one token either one gets new tokens, or both do.         *)
Verify(a) ==
  /\ a \in asks /\ a.at = "expiring"
  /\ Becomes(a, [a EXCEPT !.at = IF Good(a.with.refresh) THEN "rotating" ELSE "done"])
  /\ UNCHANGED <<server, jar, shown, means, odd>>

(* Mutant: who finds it listed meanwhile is signed out.                    *)
RotateOnce(a) ==
  /\ a \in asks /\ a.at = "rotating"
  /\ LET t == a.with.refresh
         c == [a EXCEPT !.at = "done"]
     IN IF t \in expired THEN Becomes(a, With(c, NoCookies)) /\ UNCHANGED <<made, expired, odd>>
        ELSE expired' = expired \cup {t} /\ Issue(a, c, t.user, t.login, {})
  /\ UNCHANGED <<users, jar, shown, means>>

Rotate(a) ==
  /\ a \in asks /\ a.at = "rotating"
  /\ LET t == a.with.refresh IN
       /\ expired' = expired \cup {t}
       /\ Issue(a, [a EXCEPT !.at = "done"], t.user, t.login, {})
  /\ UNCHANGED <<users, jar, shown, means>>

(* Who is authed already is told yes.                                      *)
LogIn(a) ==
  /\ Sent(a, "login")
  /\ CASE Authed(a.with) -> Processed(a, Answer(a, TRUE)) /\ UNCHANGED <<made, odd>>
       [] ~Authed(a.with) /\ Verified(a.arg) ->
            \E u \in Rows(a.arg) : Issue(a, Answer(a, TRUE), u, a.arg, {})
       [] OTHER -> Becomes(a, Answer(a, FALSE)) /\ UNCHANGED <<made, odd>>
  /\ UNCHANGED <<users, expired, jar, shown, means>>

LogOut(a) ==
  /\ Sent(a, "logout")
  /\ Becomes(a, With(Answer(a, TRUE), NoCookies))
  /\ UNCHANGED <<server, jar, shown, means, odd>>

(* validate, then the statement that writes the row: of two requests for   *)
(* one login both may find it free.                                        *)
Free(l, u) == Rows(l) \subseteq {u}
Racing(a) == \E c \in asks \ {a} : c.at = "checked" /\ c.arg = a.arg

(* Mutant: nobody looks for the login.                                     *)
CreateUserUnchecked(a) ==
  /\ Sent(a, "create")
  /\ Becomes(a, [a EXCEPT !.at = "checked"])
  /\ UNCHANGED <<server, jar, shown, means, odd>>

CreateUser(a) ==
  /\ Sent(a, "create")
  /\ IF Free(a.arg, 0) THEN Becomes(a, [a EXCEPT !.at = "checked"]) ELSE Processed(a, Answer(a, FALSE))
  /\ Blame(If("twice", Racing(a)))
  /\ UNCHANGED <<server, jar, shown, means>>

InsertUser(a) ==
  /\ Checked(a, "create") /\ made.rows < MaxUser
  /\ users' = [users EXCEPT ![made.rows + 1] = a.arg]
  /\ made' = [made EXCEPT !.rows = @ + 1]
  /\ Processed(a, Answer(a, TRUE))
  /\ UNCHANGED <<expired, jar, shown, means, odd>>

(* The token is expired before the new data is looked at.                  *)
UpdateUser(a) ==
  /\ Sent(a, "update")
  /\ LET t == a.with.refresh IN
     IF t = NoToken \/ ~Verified(a.as) \/ ~Good(t)
     THEN Processed(a, Answer(a, FALSE)) /\ UNCHANGED <<expired, odd>>
     ELSE /\ expired' = expired \cup {t}
          /\ Becomes(a, IF Free(a.arg, t.user) THEN [a EXCEPT !.at = "checked"] ELSE Answer(a, FALSE))
          /\ Blame(If("rejected", ~Free(a.arg, t.user)) \cup If("twice", Racing(a)))
  /\ UNCHANGED <<users, made, jar, shown, means>>

WriteUser(a) ==
  /\ Checked(a, "update")
  /\ LET u == a.with.refresh.user IN
       /\ users' = IF users[u] = NoLogin THEN users ELSE [users EXCEPT ![u] = a.arg]
       /\ Issue(a, Answer(a, TRUE), u, a.arg, If("elsewhere", Elsewhere(a, u)))
  /\ UNCHANGED <<expired, jar, shown, means>>

(* The login is that of the token.                                         *)
DeleteUser(a) ==
  /\ Sent(a, "delete")
  /\ LET t == a.with.refresh IN
     IF Good(t) /\ Verified(t.login)
     THEN /\ expired' = expired \cup {t}
          /\ users' = [users EXCEPT ![t.user] = NoLogin]
          /\ Becomes(a, With(Answer(a, TRUE), NoCookies))
          /\ Blame(If("elsewhere", Elsewhere(a, t.user)))
     ELSE Processed(a, Answer(a, FALSE)) /\ UNCHANGED <<users, expired, odd>>
  /\ UNCHANGED <<made, jar, shown, means>>

----------------------------------------------------------------------------
(* A browser.                                                              *)

Of(b) == {a \in asks : a.b = b}
Quiet(b) == Of(b) = {}
Busy(b) == \E a \in Of(b) : a.do \in {"update", "delete"}
Attending(b) == Cardinality(odd) <= MaxOdd /\ ~Busy(b)
Request(b, do, arg, cookies) ==
  [b |-> b, do |-> do, arg |-> arg, as |-> shown[b], with |-> cookies,
   at |-> "sent", ok |-> FALSE, set |-> <<>>, login |-> NoLogin]

(* Requests that turn a browser into somebody or nobody, and those whose   *)
(* answers bring new tokens for the one it was.                            *)
Turns(do) == do \in {"private", "login", "logout", "update", "delete"}
Renews(c) == c.access = NoToken /\ c.refresh # NoToken
Crossing(b, do) ==
  \E a \in Of(b) : \/ Turns(a.do) /\ (Turns(do) \/ Renews(jar[b]))
                   \/ Turns(do) /\ Renews(a.with)
Send(b, do, arg) ==
  /\ Attending(b) /\ Cardinality(asks) < MaxAsks
  /\ asks' = asks \cup {Request(b, do, arg, jar[b])}
  /\ Blame(If("crossed", Crossing(b, do)))

SignIn(b, l) ==
  /\ shown[b] = NoLogin
  /\ Send(b, "login", l)
  /\ UNCHANGED <<server, jar, shown, means>>

SignUp(b, l) ==
  /\ made.rows < MaxUser
  /\ Send(b, "create", l)
  /\ UNCHANGED <<server, jar, shown, means>>

(* Mutant: the server is not told.                                         *)
SignOutHere(b) ==
  /\ shown[b] # NoLogin
  /\ shown' = [shown EXCEPT ![b] = NoLogin]
  /\ means' = [means EXCEPT ![b] = "out"]
  /\ Attending(b)
  /\ UNCHANGED <<server, jar, asks, odd>>

SignOut(b) ==
  /\ shown[b] # NoLogin
  /\ shown' = [shown EXCEPT ![b] = NoLogin]
  /\ means' = [means EXCEPT ![b] = "out"]
  /\ Send(b, "logout", NoLogin)
  /\ UNCHANGED <<server, jar>>

(* Profile: new data, with the login that is shown, or away with it.       *)
SaveProfile(b, l) ==
  /\ shown[b] # NoLogin
  /\ Send(b, "update", l)
  /\ UNCHANGED <<server, jar, shown, means>>

DeleteProfile(b) ==
  /\ shown[b] # NoLogin
  /\ Send(b, "delete", NoLogin)
  /\ UNCHANGED <<server, jar, shown, means>>

(* A page that asks for what only the user may see, and Header when the    *)
(* application is loaded again.                                            *)
Visit(b) ==
  /\ Send(b, "list", NoLogin)
  /\ UNCHANGED <<server, jar, shown, means>>

Launch(b) ==
  /\ Quiet(b)
  /\ shown' = [shown EXCEPT ![b] = NoLogin]
  /\ Send(b, "private", NoLogin)
  /\ UNCHANGED <<server, jar, means>>

AccessExpires(b) ==
  /\ jar[b].access # NoToken
  /\ jar' = [jar EXCEPT ![b].access = NoToken]
  /\ UNCHANGED <<server, shown, asks, means, odd>>

(* Answers.  The cookies come with them.                                   *)

Answered(a, dos) ==
  /\ a \in asks /\ a.at = "done" /\ a.do \in dos
  /\ jar' = IF a.set = <<>> THEN jar ELSE [jar EXCEPT ![a.b] = a.set[1]]

Then(a, do) == asks' = (asks \ {a}) \cup {Request(a.b, do, NoLogin, jar'[a.b])}
End(a) == asks' = asks \ {a}

(* updateAuth: the user, then the keys of the user's boards.               *)
AuthUpdated(a) ==
  /\ Answered(a, {"private"})
  /\ IF a.ok THEN shown' = [shown EXCEPT ![a.b] = a.login] /\ Then(a, "list")
     ELSE End(a) /\ UNCHANGED shown
  /\ UNCHANGED <<server, means, odd>>

SignedIn(a) ==
  /\ Answered(a, {"login"})
  /\ IF a.ok THEN means' = [means EXCEPT ![a.b] = "in"] /\ Then(a, "private")
     ELSE End(a) /\ UNCHANGED means
  /\ UNCHANGED <<server, shown, odd>>

(* Mutant: what is shown stays.                                            *)
ProfileSavedKeeps(a) ==
  /\ Answered(a, {"update"})
  /\ End(a)
  /\ UNCHANGED <<server, shown, means, odd>>

ProfileSaved(a) ==
  /\ Answered(a, {"update"})
  /\ shown' = IF a.ok THEN [shown EXCEPT ![a.b] = a.arg] ELSE shown
  /\ End(a)
  /\ UNCHANGED <<server, means, odd>>

(* logOut.                                                                 *)
ProfileDeleted(a) ==
  /\ Answered(a, {"delete"})
  /\ IF a.ok
     THEN /\ shown' = [shown EXCEPT ![a.b] = NoLogin] /\ means' = [means EXCEPT ![a.b] = "out"]
          /\ Then(a, "logout")
     ELSE End(a) /\ UNCHANGED <<shown, means>>
  /\ UNCHANGED <<server, odd>>

OtherAnswer(a) ==
  /\ Answered(a, {"list", "logout", "create"})
  /\ End(a)
  /\ UNCHANGED <<server, shown, means, odd>>

(* The answer is lost, and its cookies with it.                            *)
AnswerLost(a) ==
  /\ a \in asks /\ a.at = "done"
  /\ End(a)
  /\ Blame({"lost"})
  /\ UNCHANGED <<server, jar, shown, means>>

Next ==
  \/ \E a \in asks : ReadPrivate(a)
  \/ \E a \in asks : Verify(a)
  \/ \E a \in asks : Rotate(a)
  \/ \E a \in asks : LogIn(a)
  \/ \E a \in asks : LogOut(a)
  \/ \E a \in asks : CreateUser(a)
  \/ \E a \in asks : InsertUser(a)
  \/ \E a \in asks : UpdateUser(a)
  \/ \E a \in asks : WriteUser(a)
  \/ \E a \in asks : DeleteUser(a)
  \/ \E b \in Browser, l \in Login : SignIn(b, l)
  \/ \E b \in Browser, l \in Login : SignUp(b, l)
  \/ \E b \in Browser : SignOut(b)
  \/ \E b \in Browser, l \in Login : SaveProfile(b, l)
  \/ \E b \in Browser : DeleteProfile(b)
  \/ \E b \in Browser : Visit(b)
  \/ \E b \in Browser : Launch(b)
  \/ \E b \in Browser : AccessExpires(b)
  \/ \E a \in asks : AuthUpdated(a)
  \/ \E a \in asks : SignedIn(a)
  \/ \E a \in asks : ProfileSaved(a)
  \/ \E a \in asks : ProfileDeleted(a)
  \/ \E a \in asks : OtherAnswer(a)
  \/ \E a \in asks : AnswerLost(a)

Spec == Init /\ [][Next]_vars

----------------------------------------------------------------------------
(* When all is answered, a browser that was told to sign out has no tokens *)
(* that are good, and shows nobody: no answer that was under way brings    *)
(* them back.                                                              *)
SignedOutStays ==
  odd \cap {"crossed", "lost"} = {}
    => \A b \in Browser : Quiet(b) /\ means[b] = "out" => ~Authed(jar[b]) /\ shown[b] = NoLogin

(* One that was told to sign in stays so and is shown until it is told to  *)
(* sign out, however often its tokens run out, and in whatever order       *)
(* requests that found them so rotate one token at once: unless two of     *)
(* one second are equal, for then the other one is expired as well.        *)
SignedInStays ==
  odd \cap {"crossed", "lost", "rejected", "alike"} = {}
    => \A b \in Browser : Quiet(b) /\ means[b] = "in"
         => Good(jar[b].refresh) /\ shown[b] # NoLogin

(* Who is shown as signed in is so, and is shown under the login that his  *)
(* row has and can be verified with (user_route.rs:88, 140).               *)
ShownIsUser ==
  odd \cap {"crossed", "lost", "rejected", "alike", "elsewhere"} = {}
    => \A b \in Browser : Quiet(b) /\ shown[b] # NoLogin
         => Authed(jar[b]) /\ users[jar[b].refresh.user] = shown[b]

(* A login is that of one row: verify_password finds it (user.rs:203).     *)
LoginsUnique ==
  "twice" \notin odd => \A l \in Login : Cardinality(Rows(l)) <= 1
=============================================================================
