------------------------------ MODULE Sessions -------------------------------
(***************************************************************************)
(* The shop's users and their sessions: internal/api/user.go over the      *)
(* users and user_sessions tables of internal/store/user.go.  Invite codes *)
(* are left to Accounts, where a referrer is bound.                        *)
(*                                                                         *)
(* Tabs send requests with the cookie of their browser.  A request takes   *)
(* one step for each call of the store; its answer sets the cookie.        *)
(***************************************************************************)
EXTENDS Clock, Sequences, FiniteSets

CONSTANTS
  Tab,          \* requests at work at once
  Browser,      \* the browser of each tab
  Name,         \* usernames; validUsername excludes an "@"
  Typed,        \* e-mail addresses as they are typed; validEmail asks for an "@"
  Lower,        \* the address in lower case
  Life,         \* seven days
  MaxUsers,     \* bound: users ever created
  MaxTokens     \* bound: sessions ever issued

ASSUME SessionsAssumption ==
  /\ Lower \in [Typed -> Typed]
  /\ Name \cap Typed = {}
  /\ Life \in Nat

VARIABLES
  users,        \* the rows of users in id order
  sessions,     \* user_sessions: a function from tokens to rows, never purged
  cookies,      \* the cookie user_session of each browser
  tab,          \* the request of each tab
  proved,       \* history: for each token the user whose password its client knew
  ended         \* history: when a logout deleted the session of each token

sessionVars == <<users, sessions, cookies, tab, proved, ended>>

NoToken == 0
Guest == 0        \* the user_id a handler reads when no middleware set one
Route == {"strict", "open"}
Browsers == {Browser[t] : t \in Tab}
Users == DOMAIN users
IdleTab == [pc |-> "idle"]

SessionsInit ==
  /\ users = <<>>
  /\ sessions = [k \in {} |-> 0]
  /\ cookies = [b \in Browsers |-> NoToken]
  /\ tab = [t \in Tab |-> IdleTab]
  /\ proved = <<>>
  /\ ended = [k \in {} |-> 0]

At(t, pc) == tab[t].pc = pc
Answered(t) == tab' = [tab EXCEPT ![t] = IdleTab]

-----------------------------------------------------------------------------
\* GetUserByLogin: WHERE username = ? OR email = ? LIMIT 1; with no ORDER BY it
\* may return any user that matches.
Matches(login) == {u \in Users : users[u].name = login \/ users[u].email = login}

\* handleRegister looks for the name, not for the address; an error of that
\* query is dropped and counts as a free name.
Register(t) ==
  /\ At(t, "idle") /\ Len(users) < MaxUsers
  /\ \E n \in Name, e \in Typed, failed \in BOOLEAN :
       /\ failed \/ Matches(n) = {}
       /\ tab' = [tab EXCEPT ![t] = [pc |-> "create", name |-> n, email |-> Lower[e]]]
  /\ UNCHANGED <<users, sessions, cookies, proved, ended>>

\* A defect of the table: no constraint, the handler's look is all there is.
NeverTaken(n) == FALSE

\* username is UNIQUE; email has an index that is not.
Taken(n) == \E u \in Users : users[u].name = n

\* CreateUser, and its error when a concurrent request was faster.
Create(t) ==
  /\ At(t, "create")
  /\ IF Taken(tab[t].name)
     THEN Answered(t) /\ UNCHANGED users
     ELSE /\ Len(users) < MaxUsers
          /\ users' = Append(users, [name |-> tab[t].name, email |-> tab[t].email])
          /\ tab' = [tab EXCEPT ![t] = [pc |-> "issue", user |-> Len(users) + 1]]
  /\ UNCHANGED <<sessions, cookies, proved, ended>>

\* handleLogin with the right password of a user, all of whom have status 1: what
\* is typed is not put in lower case.
Login(t) ==
  /\ At(t, "idle")
  /\ \E login \in Name \cup Typed : \E u \in Matches(login) :
       tab' = [tab EXCEPT ![t] = [pc |-> "issue", user |-> u]]
  /\ UNCHANGED <<users, sessions, cookies, proved, ended>>

\* issueSession: a new token; the row of one the browser already has stays.
Issue(t) ==
  /\ At(t, "issue") /\ Len(proved) < MaxTokens
  /\ LET k == Len(proved) + 1
     IN /\ sessions' = [j \in DOMAIN sessions \cup {k} |->
                          IF j = k THEN [user |-> tab[t].user, expires |-> now + Life]
                          ELSE sessions[j]]
        /\ proved' = Append(proved, tab[t].user)
        /\ tab' = [tab EXCEPT ![t] = [pc |-> "answer", cookie |-> k]]
  /\ UNCHANGED <<users, cookies, ended>>

\* The answer of a login or a logout sets the cookie, whatever it has become.
SetCookie(t) ==
  /\ At(t, "answer")
  /\ cookies' = [cookies EXCEPT ![Browser[t]] = tab[t].cookie]
  /\ Answered(t)
  /\ UNCHANGED <<users, sessions, proved, ended>>

\* issueSession fails: the answer is 500, and a user just registered exists.
IssueFails(t) ==
  /\ At(t, "issue")
  /\ Answered(t)
  /\ UNCHANGED <<users, sessions, cookies, proved, ended>>

\* handleLogout: DeleteSession, whose error is dropped, then the answer clears
\* the cookie either way.  Without a cookie there is nothing to delete.
Logout(t) ==
  /\ At(t, "idle")
  /\ LET k == cookies[Browser[t]]
     IN \/ /\ k # NoToken
           /\ sessions' = [j \in DOMAIN sessions \ {k} |-> sessions[j]]
           /\ ended' = [j \in DOMAIN ended \cup {k} |-> IF j \in DOMAIN ended THEN ended[j]
                                                        ELSE now]
        \/ UNCHANGED <<sessions, ended>>
  /\ tab' = [tab EXCEPT ![t] = [pc |-> "answer", cookie |-> NoToken]]
  /\ UNCHANGED <<users, cookies, proved>>

\* A request leaves with the cookie its browser has then, if any, for a route
\* that refuses guests (RequireUserStrict, or a handler that looks itself as the
\* profile's and the referrals' do) or for one behind InjectUser alone (the
\* orders and the balance log).
Visit(t) ==
  /\ At(t, "idle")
  /\ \E route \in Route :
       tab' = [tab EXCEPT ![t] = [pc |-> "ask", token |-> cookies[Browser[t]], route |-> route]]
  /\ UNCHANGED <<users, sessions, cookies, proved, ended>>

\* A defect: the row is enough, whenever it expires.
LivesForEver(k) == k \in DOMAIN sessions

\* GetSession and its expiry.
Lives(k) == k \in DOMAIN sessions /\ now <= sessions[k].expires

\* The middleware: a live session is served as its user.  Without one, or when
\* GetSession fails, a strict route answers 401 and an open one serves a guest.
RequireUser(t) ==
  /\ At(t, "ask")
  /\ LET k == tab[t].token
     IN \/ /\ Lives(k)
           /\ tab' = [tab EXCEPT ![t] = [pc |-> "serve", user |-> sessions[k].user,
                                         token |-> k, at |-> now]]
        \/ /\ tab[t].route = "open"
           /\ tab' = [tab EXCEPT ![t] = [pc |-> "serve", user |-> Guest, route |-> tab[t].route]]
        \/ /\ tab[t].route = "strict"
           /\ Answered(t)
  /\ UNCHANGED <<users, sessions, cookies, proved, ended>>

\* The handler answers.
Serve(t) ==
  /\ At(t, "serve")
  /\ Answered(t)
  /\ UNCHANGED <<users, sessions, cookies, proved, ended>>

SessionsNext ==
  /\ \E t \in Tab :
       \/ Register(t) \/ Create(t) \/ Login(t) \/ Issue(t) \/ IssueFails(t)
       \/ SetCookie(t) \/ Logout(t) \/ Visit(t) \/ RequireUser(t) \/ Serve(t)
  /\ UNCHANGED now

SessionsSpec ==
  /\ ClockInit /\ SessionsInit
  /\ [][SessionsNext \/ (Tick /\ UNCHANGED sessionVars)]_<<now, sessionVars>>

-----------------------------------------------------------------------------
SessionsTypeOK ==
  /\ users \in Seq([name : Name, email : Typed])
  /\ DOMAIN sessions \subseteq DOMAIN proved
  /\ \A k \in DOMAIN sessions : sessions[k] \in [user : Users, expires : Nat]
  /\ cookies \in [Browsers -> DOMAIN proved \cup {NoToken}]
  /\ \A t \in Tab : tab[t].pc \in {"idle", "create", "issue", "answer", "ask", "serve"}
  /\ proved \in Seq(Users)
  /\ DOMAIN ended \subseteq DOMAIN proved

\* However registrations overlap, and whatever their look at the table missed,
\* one user at most answers to a name: it is nobody else's name, nor anybody's
\* address (CreateUser's UNIQUE username, validEmail's "@").
NameUnambiguous == \A n \in Name : Cardinality(Matches(n)) <= 1

\* A request runs as the user whose registration or password its token goes back
\* to; it was let in within the seven days of that token, and not after a logout
\* deleted its session, from whichever tab.  Only a route that is open to guests
\* serves without one.
VisitsExplained ==
  \A t \in Tab : At(t, "serve") =>
    IF tab[t].user = Guest THEN tab[t].route = "open"
    ELSE LET k == tab[t].token
         IN /\ tab[t].user = proved[k]
            /\ k \in DOMAIN sessions => tab[t].at <= sessions[k].expires
            /\ k \in DOMAIN ended => tab[t].at <= ended[k]
=============================================================================
