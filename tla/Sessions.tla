------------------------------ MODULE Sessions ------------------------------
(***************************************************************************)
(* A browser session: the cookies oauth_state, access_token and            *)
(* refresh_token, which the tabs of one browser share, and the endpoints   *)
(* that set, clear and read them.                                          *)
(*                                                                         *)
(* The server keeps nothing: whatever it knows of a session is in the      *)
(* cookies a request carries.  A call therefore has three moments.  When   *)
(* it is sent, the cookies of that moment go with it; when it is handled,  *)
(* signatures and expiries are compared with the clock; when its answer    *)
(* arrives, the cookies it sets replace those the jar holds then.  Calls   *)
(* of several tabs overlap, overtake each other and get lost, and the      *)
(* rate limiter may refuse any of them.  A restart of the server changes   *)
(* nothing: the secret comes from the environment.                         *)
(*                                                                         *)
(* Data abstraction.  Only the server makes tokens and states, so a token  *)
(* is its claims, and random states are numbered.                          *)
(***************************************************************************)
EXTENDS Integers

CONSTANTS Users,       \* GitHub accounts: the claim sub
          Tabs,        \* each makes one call at a time
          None,        \* an absent cookie, nobody
          AccessTime,  \* lifetime of an access token: an hour
          RefreshTime, \* lifetime of a refresh token: seven days
          AccessAge,   \* MaxAge of the cookie access_token: 3600 seconds
          RefreshAge,  \* MaxAge of refresh_token: 604800 seconds
          StateAge,    \* MaxAge of oauth_state: 600 seconds
          MaxNow,      \* bound of the clock
          MaxStates    \* bound of the states handed out

StateValue == [state : Nat]   \* a random state
Token == [sub : Users, type : {"access", "refresh"}, exp : Nat]

Cookies == {"oauth_state", "access_token", "refresh_token"}
Maybe(S) == S \cup {None}
Values  == StateValue \cup Token

\* A cookie in the jar; a cookie in an answer, which may be one that clears it.
Kept    == [value : Values, dies : Nat]
Cleared == [value |-> None, age |-> -1]
Sets    == [value : Values, age : Nat] \cup {Cleared}

Ops == {"state", "login", "logout", "refresh", "act"}

\* A call: the cookies it was sent with, the state in its body, whether it has
\* been handled and when, and what the answer sets; the user it acted for.
Call == [op : Ops, sent : [Cookies -> Maybe(Values)], body : Maybe(StateValue),
         handled : BOOLEAN, at : Nat, sub : Maybe(Users), late : BOOLEAN,
         spends : BOOLEAN, set : [Cookies -> Maybe(Sets)]]

ASSUME SessionsAssumption ==
  /\ {AccessTime, RefreshTime, StateAge} \subseteq Nat \ {0}
  /\ AccessAge = AccessTime /\ RefreshAge = RefreshTime
  /\ None \notin Users \cup Values \cup Kept \cup Sets \cup Call

VARIABLES
  now,      \* the time
  states,   \* how many states have been handed out
  jar,      \* the browser's cookies, those that are alive
  call,     \* the call each tab waits for
  \* History variables: they record what happened and guard nothing.
  session,  \* the account of the last login or logout (None) that arrived
  late,     \* the cookies come from a call that was older than that
  issued,   \* when the tokens that arrived last were made
  spent     \* the states of logins whose answer has arrived

history == <<session, late, issued, spent>>
vars    == <<now, states, jar, call, history>>

Init ==
  /\ now = 0 /\ states = 0
  /\ jar = [c \in Cookies |-> None]
  /\ call = [t \in Tabs |-> None]
  /\ session = None /\ late = FALSE /\ issued = 0 /\ spent = {}

----------------------------------------------------------------------------
(* Tokens and cookies.                                                     *)

\* Faulty variant of Generate: the claim type is left out.
GenerateUntyped(u, type, time) == [sub |-> u, exp |-> now + time]

\* generateToken
Generate(u, type, time) == [sub |-> u, type |-> type, exp |-> now + time]

\* ParseToken, and the checks of JWTMiddleware
Parses(v, type) == v # None /\ v.exp > now /\ v.type = type

NoCookie == [c \in Cookies |-> None]

\* Faulty variant of Tokens: the refresh token's cookie lives no longer than
\* that of the access token.
ShortTokens(u) ==
  [NoCookie EXCEPT
     !["access_token"]  = [value |-> Generate(u, "access", AccessTime), age |-> AccessAge],
     !["refresh_token"] = [value |-> Generate(u, "refresh", RefreshTime), age |-> AccessAge]]

\* The cookies of user u that login and refresh set.
Tokens(u) ==
  [NoCookie EXCEPT
     !["access_token"]  = [value |-> Generate(u, "access", AccessTime), age |-> AccessAge],
     !["refresh_token"] = [value |-> Generate(u, "refresh", RefreshTime), age |-> RefreshAge]]

\* Faulty variant of Renewed: the refresh token is not renewed.
AccessRenewed(u) == [Tokens(u) EXCEPT !["refresh_token"] = None]

\* What a refresh sets.
Renewed(u) == Tokens(u)

\* Faulty variant of SignedOut: the path is not that of refresh_token, so that
\* the browser keeps it.
AccessCleared == [NoCookie EXCEPT !["access_token"] = Cleared]

\* What a logout sets.
SignedOut == [NoCookie EXCEPT !["access_token"] = Cleared, !["refresh_token"] = Cleared]

\* Faulty variant of Checked: only a login that succeeds clears the state.
NotChecked == NoCookie

\* What a login sets as soon as its state has been compared.
Checked == [NoCookie EXCEPT !["oauth_state"] = Cleared]

\* The state in the body of a login is the one in its cookie.
Matches(t) == call[t].op = "login" /\ call[t].sent["oauth_state"] = call[t].body

\* The answer to tab t's call, which acted for user u.
Answer(t, set, u) ==
  call' = [call EXCEPT ![t].handled = TRUE, ![t].at = now,
                       ![t].set = set, ![t].sub = u,
                       ![t].spends = Matches(t), ![t].sent = NoCookie]

Pending(t, op) == call[t] # None /\ ~call[t].handled /\ call[t].op = op

----------------------------------------------------------------------------
\* A tab makes a call, with the cookies of the moment (the path of
\* oauth_state and refresh_token is /api/auth, that of access_token is /).
Send(t, op, body) ==
  /\ call[t] = None
  /\ call' = [call EXCEPT ![t] =
       [op |-> op, body |-> body,
        sent |-> [c \in Cookies |->
                   IF jar[c] = None \/ (op = "act" /\ c # "access_token")
                   THEN None ELSE jar[c].value],
        handled |-> FALSE, at |-> 0, sub |-> None, late |-> late,
        spends |-> FALSE, set |-> NoCookie]]
  /\ UNCHANGED <<now, states, jar, history>>

\* A new random state.
State(t) ==
  /\ Pending(t, "state")
  /\ states < MaxStates
  /\ states' = states + 1
  /\ Answer(t, [NoCookie EXCEPT !["oauth_state"] = [value |-> [state |-> states'], age |-> StateAge]],
            None)
  /\ UNCHANGED <<now, jar, history>>

LoginRefused(t) ==
  /\ Pending(t, "login")
  /\ ~Matches(t)
  /\ Answer(t, NoCookie, None)
  /\ UNCHANGED <<now, states, jar, history>>

\* The exchange of the code, GetUser, the upsert or the signing of a token fails.
LoginFails(t) ==
  /\ Pending(t, "login")
  /\ Matches(t)
  /\ Answer(t, Checked, None)
  /\ UNCHANGED <<now, states, jar, history>>

\* GitHub says that it is user u who signs in.  The cookies go out before
\* the first collection starts.
Login(t, u) ==
  /\ Pending(t, "login")
  /\ Matches(t)
  /\ Answer(t, [Tokens(u) EXCEPT !["oauth_state"] = Checked["oauth_state"]], u)
  /\ UNCHANGED <<now, states, jar, history>>

Logout(t) ==
  /\ Pending(t, "logout")
  /\ Answer(t, SignedOut, None)
  /\ UNCHANGED <<now, states, jar, history>>

Refresh(t) ==
  /\ Pending(t, "refresh")
  /\ LET v == call[t].sent["refresh_token"] IN
       IF Parses(v, "refresh") THEN Answer(t, Renewed(v.sub), v.sub)
                               ELSE Answer(t, NoCookie, None)
  /\ UNCHANGED <<now, states, jar, history>>

\* Me, MyRepos, Sync and ToggleVisibility behind JWTMiddleware.
Act(t) ==
  /\ Pending(t, "act")
  /\ LET v == call[t].sent["access_token"] IN
       Answer(t, NoCookie, IF Parses(v, "access") THEN v.sub ELSE None)
  /\ UNCHANGED <<now, states, jar, history>>

\* The rate limiter of /api/auth answers 429, the body of a login has no code,
\* a refresh can sign no token, or there is no randomness for a state.
Refuse(t) ==
  /\ call[t] # None /\ ~call[t].handled /\ call[t].op # "act"
  /\ call' = [call EXCEPT ![t].handled = TRUE, ![t].sent = NoCookie]
  /\ UNCHANGED <<now, states, jar, history>>

----------------------------------------------------------------------------
\* What the answer leaves in the jar.
After(t, c) ==
  LET set == call[t].set[c] IN
  IF set = None THEN jar[c]
  ELSE IF set.age > 0 THEN [value |-> set.value, dies |-> now + set.age]
  ELSE None

BringsTokens(t) == call[t].op \in {"login", "refresh"} /\ call[t].sub # None
Decides(t)      == (BringsTokens(t) /\ call[t].op = "login") \/ call[t].set = SignedOut

\* The answer arrives.
Arrive(t) ==
  /\ call[t] # None /\ call[t].handled
  /\ jar' = [c \in Cookies |-> After(t, c)]
  /\ call' = [s \in Tabs |->
       IF s = t \/ call[s] = None THEN None
       ELSE [call[s] EXCEPT !.late = @ \/ Decides(t)]]
  /\ session' = IF Decides(t) THEN call[t].sub ELSE session
  /\ late' = IF Decides(t) THEN FALSE ELSE late \/ (BringsTokens(t) /\ call[t].late)
  /\ issued' = IF BringsTokens(t) THEN call[t].at ELSE issued
  /\ spent' = IF call[t].spends THEN spent \cup {call[t].body} ELSE spent
  /\ UNCHANGED <<now, states>>

\* The request or its answer is lost, or the tab is closed.
Lose(t) ==
  /\ call[t] # None
  /\ call' = [call EXCEPT ![t] = None]
  /\ UNCHANGED <<now, states, jar, history>>

\* Cookies that have come of age are dropped.
Tick ==
  /\ now < MaxNow
  /\ now' = now + 1
  /\ jar' = [c \in Cookies |-> IF jar[c] # None /\ jar[c].dies > now + 1
                               THEN jar[c] ELSE None]
  /\ UNCHANGED <<states, call, history>>

Next ==
  \/ \E t \in Tabs, op \in Ops \ {"login"} : Send(t, op, None)
  \/ \E t \in Tabs, n \in 1 .. states : Send(t, "login", [state |-> n])
  \/ \E t \in Tabs : State(t) \/ LoginRefused(t) \/ LoginFails(t)
  \/ \E t \in Tabs, u \in Users : Login(t, u)
  \/ \E t \in Tabs : Logout(t) \/ Refresh(t) \/ Act(t) \/ Refuse(t)
  \/ \E t \in Tabs : Arrive(t) \/ Lose(t)
  \/ Tick

Spec == Init /\ [][Next]_vars

----------------------------------------------------------------------------
TypeOK ==
  /\ now \in Nat /\ states \in Nat
  /\ jar \in [Cookies -> Maybe(Kept)]
  /\ call \in [Tabs -> Maybe(Call)]
  /\ session \in Maybe(Users) /\ late \in BOOLEAN
  /\ issued \in Nat /\ spent \subseteq StateValue

Holds(c, u) == jar[c] # None => jar[c].value.sub = u

\* The two tokens in a jar are never of different accounts, whichever calls
\* of whichever tabs overtake each other: a page that refreshes goes on as the
\* account it has been showing.
OneUserPerJar ==
  (jar["access_token"] # None /\ jar["refresh_token"] # None) =>
    jar["access_token"].value.sub = jar["refresh_token"].value.sub

\* The browser is signed in as the last login said, and not at all after the
\* last logout, and later requests are served as that account: only an answer
\* to a call that was already under way then can undo it.
LastWordCounts ==
  /\ ~late => \A c \in {"access_token", "refresh_token"} :
       IF session = None THEN jar[c] = None ELSE Holds(c, session)
  /\ \A t \in Tabs : (call[t] # None /\ ~call[t].late /\ call[t].op = "act") =>
       call[t].sub \in {None, session}

\* Who comes back in time is not asked to log in again: until the tokens that
\* arrived last expire, the jar holds them, and the server will take them.
StaysSignedIn ==
  session # None =>
    /\ now < issued + AccessTime =>
         jar["access_token"] # None /\ Parses(jar["access_token"].value, "access")
    /\ now < issued + RefreshTime =>
         jar["refresh_token"] # None /\ Parses(jar["refresh_token"].value, "refresh")

\* Once the answer of a login has arrived, whether it succeeded or not, no
\* later login is sent with the same state.
StateIsSpent ==
  jar["oauth_state"] # None => jar["oauth_state"].value \notin spent
=============================================================================
