--------------------------- MODULE SessionsProofs ---------------------------
(***************************************************************************)
(* Whose session a browser is in, for any number of accounts and tabs, any *)
(* lifetimes, and any order in which answers arrive.                       *)
(*                                                                         *)
(* The invariant follows a token on its way: from the jar into a call, by  *)
(* a refresh into the cookies of the answer, and from there into the jar   *)
(* again.  Everywhere both tokens go together, and as long as no call is   *)
(* older than the last login or logout, they are of the account it left.   *)
(* Two sections at the end are about time and about states: what is in the *)
(* jar expires no earlier than its token, and a state under way is unspent *)
(* until its own login has been answered.                                  *)
(***************************************************************************)
EXTENDS Sessions, TLAPS

TokenCookies == {"access_token", "refresh_token"}

\* A cookie of an answer that brings a token of user u.
Brings(v, u) == v # None /\ v.age > 0 /\ v.value \in Token /\ v.value.sub = u

\* An answer sets both tokens, for the user it acted for, clears both, or
\* leaves both alone.
BothOrNone(t) ==
  \/ BringsTokens(t) /\ \A c \in TokenCookies : Brings(call[t].set[c], call[t].sub)
  \/ call[t].sub = None /\ call[t].set = SignedOut
  \/ ~BringsTokens(t) /\ \A c \in TokenCookies : call[t].set[c] = None

\* What is sent under the name of a token is one; a login sends a state.
InPlace(t) ==
  /\ \A c \in TokenCookies : call[t].sent[c] \in Maybe(Token)
  /\ call[t].op = "login" \/ call[t].spends => call[t].body \in StateValue

\* A call not older than the last login or logout acts for the account it left.
UpToDate(t) ==
  ~call[t].late =>
    /\ \A c \in TokenCookies : call[t].sent[c] # None =>
         session # None /\ call[t].sent[c].sub = session
    /\ call[t].op \in {"refresh", "act"} => call[t].sub \in {None, session}

CallOK(t) == call[t] # None => BothOrNone(t) /\ InPlace(t) /\ UpToDate(t)

\* The jar holds tokens under their names, two of the same account; it is the
\* account of the last login unless an older call had the last word.
JarOK ==
  /\ \A c \in TokenCookies : jar[c] # None => jar[c].value \in Token
  /\ OneUserPerJar
  /\ ~late => \A c \in TokenCookies :
       IF session = None THEN jar[c] = None ELSE Holds(c, session)

SessionInv == TypeOK /\ (\A t \in Tabs : CallOK(t)) /\ JarOK

----------------------------------------------------------------------------
(* Calls, answers and what they set.                                       *)

\* None is no cookie and no call.
LEMMA Present ==
  ASSUME TypeOK
  PROVE  /\ \A t \in Tabs : call[t] # None => call[t] \in Call
         /\ \A c \in Cookies : jar[c] # None => jar[c] \in Kept
         /\ None \notin Call /\ None \notin Kept /\ None \notin Sets
         /\ None \notin Values /\ None \notin Users
BY SessionsAssumption DEF TypeOK, Maybe

\* What the endpoints set is what a browser can be told.
LEMMA SetsAreSets ==
  ASSUME TypeOK
  PROVE  /\ NoCookie \in [Cookies -> Maybe(Sets)]
         /\ Checked \in [Cookies -> Maybe(Sets)]
         /\ SignedOut \in [Cookies -> Maybe(Sets)]
         /\ \A c \in TokenCookies :
              NoCookie[c] = None /\ Checked[c] = None /\ SignedOut[c] = Cleared
         /\ NoCookie["oauth_state"] = None /\ Checked["oauth_state"] = Cleared
BY DEF NoCookie, Checked, SignedOut, Cookies, Sets, Maybe, TokenCookies

\* The tokens of a user.
LEMMA TokensAreTokens ==
  ASSUME TypeOK, NEW u \in Users
  PROVE  /\ Tokens(u) \in [Cookies -> Maybe(Sets)]
         /\ \A c \in TokenCookies : Brings(Tokens(u)[c], u)
<1> DEFINE a == [value |-> Generate(u, "access", AccessTime), age |-> AccessAge]
           b == [value |-> Generate(u, "refresh", RefreshTime), age |-> RefreshAge]
<1>1. Generate(u, "access", AccessTime) \in Token /\ Generate(u, "refresh", RefreshTime) \in Token
  BY SessionsAssumption DEF TypeOK, Generate, Token
<1>2. a \in Sets /\ b \in Sets
  BY <1>1, SessionsAssumption DEF Sets, Values
<1>3. Brings(a, u) /\ Brings(b, u)
  <2>1. a.value.sub = u /\ b.value.sub = u
    BY DEF Generate
  <2>2. a # None /\ b # None
    BY <1>2, Present
  <2> QED
    BY <1>1, <2>1, <2>2, SessionsAssumption DEF Brings
<1>4. Tokens(u) = [NoCookie EXCEPT !["access_token"] = a, !["refresh_token"] = b]
  BY DEF Tokens
<1> HIDE DEF a, b
<1> QED
  BY <1>2, <1>3, <1>4 DEF NoCookie, Cookies, Maybe, TokenCookies

\* An answer changes its own call, in these fields.
LEMMA Answered ==
  ASSUME TypeOK, NEW t \in Tabs, call[t] # None,
         NEW set \in [Cookies -> Maybe(Sets)], NEW u \in Maybe(Users),
         Answer(t, set, u)
  PROVE  /\ call' \in [Tabs -> Maybe(Call)]
         /\ \A s \in Tabs \ {t} : call'[s] = call[s]
         /\ call'[t] # None
         /\ call'[t].op = call[t].op /\ call'[t].late = call[t].late
         /\ call'[t].body = call[t].body /\ call'[t].spends = Matches(t)
         /\ call'[t].handled /\ call'[t].at = now
         /\ call'[t].set = set /\ call'[t].sub = u /\ call'[t].sent = NoCookie
<1> DEFINE c == [call[t] EXCEPT !.handled = TRUE, !.at = now, !.set = set, !.sub = u,
                                !.spends = Matches(t), !.sent = NoCookie]
<1>1. call[t] \in Call
  BY Present
<1>2. NoCookie \in [Cookies -> Maybe(Values)] /\ Matches(t) \in BOOLEAN /\ now \in Nat
  BY DEF NoCookie, Maybe, Matches, TypeOK
<1>3. c \in Call
  BY <1>1, <1>2 DEF Call
<1>4. /\ c.op = call[t].op /\ c.late = call[t].late /\ c.body = call[t].body
      /\ c.spends = Matches(t) /\ c.handled /\ c.at = now
      /\ c.set = set /\ c.sub = u /\ c.sent = NoCookie
  BY <1>1 DEF Call
<1>5. call' = [call EXCEPT ![t] = c]
  BY DEF Answer
<1> HIDE DEF c
<1> QED
  BY <1>3, <1>4, <1>5, Present DEF TypeOK, Maybe

\* A cookie that arrives replaces that of the jar.
LEMMA Arrived ==
  ASSUME TypeOK, NEW t \in Tabs, call[t] # None, NEW c \in Cookies
  PROVE  /\ After(t, c) \in Maybe(Kept)
         /\ call[t].set[c] = None => After(t, c) = jar[c]
         /\ call[t].set[c] = Cleared => After(t, c) = None
         /\ call[t].set[c] # None /\ call[t].set[c].age > 0 =>
              /\ After(t, c) = [value |-> call[t].set[c].value, dies |-> now + call[t].set[c].age]
              /\ After(t, c).value = call[t].set[c].value
              /\ After(t, c).dies = now + call[t].set[c].age
              /\ After(t, c) # None
<1>1. call[t].set[c] \in Maybe(Sets)
  BY Present DEF Call
<1>2. jar[c] \in Maybe(Kept) /\ now \in Nat
  BY DEF TypeOK
<1>3. CASE call[t].set[c] = None
  <2>1. call[t].set[c] # Cleared
    BY <1>3, Present DEF Sets
  <2> QED
    BY <1>2, <1>3, <2>1 DEF After
<1>4. CASE call[t].set[c] = Cleared
  <2>1. call[t].set[c] # None /\ call[t].set[c].age = -1
    BY <1>4, Present DEF Cleared, Sets
  <2> QED
    BY <2>1, <1>4 DEF After, Maybe
<1>5. CASE call[t].set[c] \in [value : Values, age : Nat]
  <2>1. call[t].set[c] # None /\ call[t].set[c] # Cleared
    BY <1>5, Present DEF Sets, Cleared
  <2>2. call[t].set[c].age > 0 =>
          [value |-> call[t].set[c].value, dies |-> now + call[t].set[c].age] \in Kept
    BY <1>2, <1>5 DEF Kept
  <2> QED
    BY <2>1, <2>2, Present DEF After, Maybe
<1> QED
  BY <1>1, <1>3, <1>4, <1>5 DEF Maybe, Sets

\* A cookie out of date is dropped, the others stay.
LEMMA Aged ==
  ASSUME TypeOK, Tick
  PROVE  /\ now' \in Nat /\ jar' \in [Cookies -> Maybe(Kept)]
         /\ \A c \in Cookies : jar'[c] = None \/ jar'[c] = jar[c]
BY DEF TypeOK, Tick, Maybe

----------------------------------------------------------------------------
(* Types.                                                                  *)

\* The type of the calls is kept by each action on them.
LEMMA CallTypes ==
  ASSUME TypeOK, NEW t \in Tabs
  PROVE  /\ \A op \in Ops, body \in Maybe(StateValue) :
              Send(t, op, body) => call' \in [Tabs -> Maybe(Call)]
         /\ State(t) => call' \in [Tabs -> Maybe(Call)]
         /\ LoginRefused(t) => call' \in [Tabs -> Maybe(Call)]
         /\ LoginFails(t) => call' \in [Tabs -> Maybe(Call)]
         /\ \A u \in Users : Login(t, u) => call' \in [Tabs -> Maybe(Call)]
         /\ Logout(t) => call' \in [Tabs -> Maybe(Call)]
         /\ Refuse(t) => call' \in [Tabs -> Maybe(Call)]
         /\ Arrive(t) => call' \in [Tabs -> Maybe(Call)]
         /\ Lose(t) => call' \in [Tabs -> Maybe(Call)]
<1>1. ASSUME NEW op \in Ops, NEW body \in Maybe(StateValue), Send(t, op, body)
      PROVE  call' \in [Tabs -> Maybe(Call)]
  <2> DEFINE s == [c \in Cookies |->
                     IF jar[c] = None \/ (op = "act" /\ c # "access_token")
                     THEN None ELSE jar[c].value]
             n == [op |-> op, body |-> body, sent |-> s, handled |-> FALSE, at |-> 0,
                   sub |-> None, late |-> late, spends |-> FALSE, set |-> NoCookie]
  <2>1. s \in [Cookies -> Maybe(Values)]
    BY Present DEF Kept, Maybe
  <2>2. call' = [call EXCEPT ![t] = n]
    BY <1>1 DEF Send
  <2> HIDE DEF s
  <2>3. n \in Call
    BY <2>1, SetsAreSets DEF Call, TypeOK, Maybe
  <2> HIDE DEF n
  <2> QED
    BY <2>2, <2>3 DEF TypeOK, Maybe
<1>2. ASSUME State(t) PROVE call' \in [Tabs -> Maybe(Call)]
  <2> DEFINE v == [value |-> [state |-> states'], age |-> StateAge]
  <2>1. v \in Sets
    BY <1>2, SessionsAssumption DEF State, TypeOK, Sets, Values, StateValue
  <2> HIDE DEF v
  <2>2. [NoCookie EXCEPT !["oauth_state"] = v] \in [Cookies -> Maybe(Sets)]
    BY <2>1 DEF NoCookie, Maybe
  <2>3. Answer(t, [NoCookie EXCEPT !["oauth_state"] = v], None) /\ call[t] # None
    BY <1>2 DEF State, Pending, v
  <2> QED
    BY <2>2, <2>3, Answered DEF Maybe
<1>3. LoginRefused(t) => call' \in [Tabs -> Maybe(Call)]
  BY SetsAreSets, Answered DEF LoginRefused, Pending, Maybe
<1>4. LoginFails(t) => call' \in [Tabs -> Maybe(Call)]
  BY SetsAreSets, Answered DEF LoginFails, Pending, Maybe
<1>5. ASSUME NEW u \in Users, Login(t, u) PROVE call' \in [Tabs -> Maybe(Call)]
  <2>1. [Tokens(u) EXCEPT !["oauth_state"] = Checked["oauth_state"]] \in [Cookies -> Maybe(Sets)]
    BY TokensAreTokens, SetsAreSets DEF Cookies
  <2> QED
    BY <1>5, <2>1, Answered DEF Login, Pending, Maybe
<1>6. Logout(t) => call' \in [Tabs -> Maybe(Call)]
  BY SetsAreSets, Answered DEF Logout, Pending, Maybe
<1>7. ASSUME Refuse(t) PROVE call' \in [Tabs -> Maybe(Call)]
  <2> DEFINE n == [call[t] EXCEPT !.handled = TRUE, !.sent = NoCookie]
  <2>1. n \in Call
    BY <1>7, Present DEF Refuse, Call, NoCookie, Maybe
  <2>2. call' = [call EXCEPT ![t] = n]
    BY <1>7 DEF Refuse
  <2> HIDE DEF n
  <2> QED
    BY <2>1, <2>2 DEF TypeOK, Maybe
<1>8. ASSUME Arrive(t) PROVE call' \in [Tabs -> Maybe(Call)]
  <2>1. ASSUME NEW s \in Tabs, call[s] # None
        PROVE  [call[s] EXCEPT !.late = @ \/ Decides(t)] \in Call
    BY <2>1, Present DEF Call, Decides
  <2> QED
    BY <1>8, <2>1 DEF Arrive, Maybe
<1>9. Lose(t) => call' \in [Tabs -> Maybe(Call)]
  BY DEF Lose, TypeOK, Maybe
<1> QED
  BY <1>1, <1>2, <1>3, <1>4, <1>5, <1>6, <1>7, <1>8, <1>9

\* The answers to a refresh and to a page need the tokens sent to be tokens.
LEMMA TokenCallTypes ==
  ASSUME SessionInv, NEW t \in Tabs
  PROVE  /\ Refresh(t) => call' \in [Tabs -> Maybe(Call)]
         /\ Act(t) => call' \in [Tabs -> Maybe(Call)]
<1> USE DEF SessionInv
<1>1. ASSUME call[t] # None
      PROVE  /\ call[t].sent["refresh_token"] # None => call[t].sent["refresh_token"].sub \in Users
             /\ call[t].sent["access_token"] # None => call[t].sent["access_token"].sub \in Users
  BY <1>1 DEF CallOK, InPlace, TokenCookies, Maybe, Token
<1>2. ASSUME Refresh(t) PROVE call' \in [Tabs -> Maybe(Call)]
  <2>0. call[t] # None
    BY <1>2 DEF Refresh, Pending
  <2> DEFINE v == call[t].sent["refresh_token"]
  <2>1. CASE Parses(v, "refresh")
    <3>1. v.sub \in Users
      BY <2>0, <2>1, <1>1 DEF Parses
    <3>2. Answer(t, Renewed(v.sub), v.sub)
      BY <1>2, <2>1 DEF Refresh
    <3>3. Renewed(v.sub) \in [Cookies -> Maybe(Sets)]
      BY <3>1, TokensAreTokens DEF Renewed
    <3> HIDE DEF v
    <3> QED
      BY <2>0, <3>1, <3>2, <3>3, Answered DEF Maybe
  <2>2. CASE ~Parses(v, "refresh")
    <3>1. Answer(t, NoCookie, None)
      BY <1>2, <2>2 DEF Refresh
    <3> QED
      BY <2>0, <3>1, SetsAreSets, Answered DEF Maybe
  <2> QED
    BY <2>1, <2>2
<1>3. ASSUME Act(t) PROVE call' \in [Tabs -> Maybe(Call)]
  <2>0. call[t] # None
    BY <1>3 DEF Act, Pending
  <2> DEFINE u == IF Parses(call[t].sent["access_token"], "access")
                  THEN call[t].sent["access_token"].sub ELSE None
  <2>1. u \in Maybe(Users)
    BY <2>0, <1>1 DEF Parses, Maybe
  <2>2. Answer(t, NoCookie, u)
    BY <1>3 DEF Act
  <2> HIDE DEF u
  <2> QED
    BY <2>0, <2>1, <2>2, SetsAreSets, Answered
<1> QED
  BY <1>2, <1>3

\* Every step keeps the types.
LEMMA TypesKept ==
  ASSUME SessionInv, [Next]_vars
  PROVE  TypeOK'
<1> USE DEF SessionInv
<1>1. ASSUME NEW t \in Tabs, NEW op \in Ops \ {"login"}, Send(t, op, None)
      PROVE  TypeOK'
  BY <1>1, CallTypes DEF Send, TypeOK, Maybe, history
<1>2. ASSUME NEW t \in Tabs, NEW n \in 1 .. states, Send(t, "login", [state |-> n])
      PROVE  TypeOK'
  <2>1. [state |-> n] \in Maybe(StateValue) /\ "login" \in Ops
    BY DEF TypeOK, StateValue, Maybe, Ops
  <2> QED
    BY <1>2, <2>1, CallTypes DEF Send, TypeOK, history
<1>3. ASSUME NEW t \in Tabs, State(t) PROVE TypeOK'
  <2>1. call' \in [Tabs -> Maybe(Call)]
    BY <1>3, CallTypes
  <2>2. states' \in Nat /\ UNCHANGED <<now, jar, history>>
    BY <1>3 DEF State, TypeOK
  <2> QED
    BY <2>1, <2>2 DEF TypeOK, history
<1>4. ASSUME NEW t \in Tabs, LoginRefused(t) \/ LoginFails(t) PROVE TypeOK'
  BY <1>4, CallTypes DEF LoginRefused, LoginFails, TypeOK, history
<1>5. ASSUME NEW t \in Tabs, NEW u \in Users, Login(t, u) PROVE TypeOK'
  BY <1>5, CallTypes DEF Login, TypeOK, history
<1>6. ASSUME NEW t \in Tabs, Logout(t) PROVE TypeOK'
  BY <1>6, CallTypes DEF Logout, TypeOK, history
<1>7. ASSUME NEW t \in Tabs, Refresh(t) PROVE TypeOK'
  BY <1>7, TokenCallTypes DEF Refresh, TypeOK, history
<1>8. ASSUME NEW t \in Tabs, Act(t) PROVE TypeOK'
  BY <1>8, TokenCallTypes DEF Act, TypeOK, history
<1>9. ASSUME NEW t \in Tabs, Refuse(t) PROVE TypeOK'
  BY <1>9, CallTypes DEF Refuse, TypeOK, history
<1>10. ASSUME NEW t \in Tabs, Arrive(t) PROVE TypeOK'
  <2>1. call[t] # None /\ call[t] \in Call
    BY <1>10, Present DEF Arrive
  <2>2. jar' \in [Cookies -> Maybe(Kept)]
    BY <1>10, <2>1, Arrived DEF Arrive
  <2>3. session' \in Maybe(Users) /\ issued' \in Nat
    BY <1>10, <2>1 DEF Arrive, TypeOK, Call
  <2>4. late' \in BOOLEAN
    BY <1>10, <2>1 DEF Arrive, TypeOK, Call, BringsTokens
  <2>5. spent' \subseteq StateValue
    BY <1>10, <2>1 DEF Arrive, TypeOK, CallOK, InPlace
  <2>6. call' \in [Tabs -> Maybe(Call)] /\ now' \in Nat /\ states' \in Nat
    BY <1>10, CallTypes DEF Arrive, TypeOK
  <2> QED
    BY <2>2, <2>3, <2>4, <2>5, <2>6 DEF TypeOK
<1>11. ASSUME NEW t \in Tabs, Lose(t) PROVE TypeOK'
  BY <1>11, CallTypes DEF Lose, TypeOK, history
<1>12. ASSUME Tick PROVE TypeOK'
  <2>1. now' \in Nat /\ jar' \in [Cookies -> Maybe(Kept)]
    BY <1>12, Aged
  <2> QED
    BY <1>12, <2>1 DEF Tick, TypeOK, history
<1>13. ASSUME UNCHANGED vars PROVE TypeOK'
  BY <1>13 DEF vars, history, TypeOK
<1> QED
  BY <1>1, <1>2, <1>3, <1>4, <1>5, <1>6, <1>7, <1>8, <1>9, <1>10, <1>11, <1>12,
     <1>13 DEF Next

----------------------------------------------------------------------------
(* Calls on their way.                                                     *)

\* A step about one call concerns neither the others nor the jar.
LEMMA OthersKept ==
  ASSUME SessionInv, NEW t \in Tabs, CallOK(t)',
         \A s \in Tabs \ {t} : call'[s] = call[s],
         UNCHANGED <<jar, session, late>>
  PROVE  (\A s \in Tabs : CallOK(s)') /\ JarOK'
<1>1. ASSUME NEW s \in Tabs \ {t} PROVE CallOK(s)'
  BY <1>1 DEF SessionInv, CallOK, BothOrNone, InPlace, UpToDate, BringsTokens
<1>2. JarOK'
  BY DEF SessionInv, JarOK, OneUserPerJar, Holds
<1> QED
  BY <1>1, <1>2

\* A call that is sent carries what the jar holds.
LEMMA SendKept ==
  ASSUME SessionInv, NEW t \in Tabs, NEW op \in Ops, NEW body,
         op = "login" => body \in StateValue, Send(t, op, body)
  PROVE  CallOK(t)' /\ \A s \in Tabs \ {t} : call'[s] = call[s]
<1> DEFINE n == call'[t]
<1>1. /\ n.op = op /\ n.body = body /\ n.late = late /\ n.sub = None
      /\ n.set = NoCookie /\ n.spends = FALSE
      /\ \A c \in TokenCookies : n.sent[c] = None \/ (jar[c] # None /\ n.sent[c] = jar[c].value)
  BY DEF Send, SessionInv, TypeOK, TokenCookies, Cookies
<1>2. BothOrNone(t)'
  BY <1>1, SetsAreSets DEF BothOrNone, BringsTokens, SessionInv
<1>3. InPlace(t)'
  BY <1>1 DEF InPlace, SessionInv, JarOK, Maybe
<1>4. UpToDate(t)'
  <2>1. ASSUME ~late, NEW c \in TokenCookies, jar[c] # None
        PROVE  session # None /\ jar[c].value.sub = session
    BY <2>1 DEF SessionInv, JarOK, Holds
  <2>2. session' = session
    BY DEF Send, history
  <2> QED
    BY <1>1, <2>1, <2>2 DEF UpToDate
<1> QED
  BY <1>2, <1>3, <1>4 DEF Send, SessionInv, TypeOK, CallOK

\* An answer that brings no tokens.
LEMMA EmptyAnswer ==
  ASSUME SessionInv, NEW t \in Tabs, call[t] # None,
         NEW set \in [Cookies -> Maybe(Sets)], NEW u \in Maybe(Users),
         Answer(t, set, u), session' = session,
         \/ u = None /\ set = SignedOut
         \/ /\ \A c \in TokenCookies : set[c] = None
            /\ u = None \/ call[t].op = "act",
         ~call[t].late => u \in {None, session}
  PROVE  CallOK(t)' /\ \A s \in Tabs \ {t} : call'[s] = call[s]
<1>1. /\ call'[t].op = call[t].op /\ call'[t].late = call[t].late
      /\ call'[t].body = call[t].body /\ call'[t].spends = Matches(t)
      /\ call'[t].set = set /\ call'[t].sub = u /\ call'[t].sent = NoCookie
      /\ \A s \in Tabs \ {t} : call'[s] = call[s]
  BY Answered DEF SessionInv
<1>2. BothOrNone(t)'
  BY <1>1 DEF BothOrNone, BringsTokens
<1>3. InPlace(t)'
  BY <1>1, SetsAreSets DEF InPlace, SessionInv, CallOK, Matches, Maybe
<1>4. UpToDate(t)'
  BY <1>1, SetsAreSets DEF UpToDate, SessionInv
<1> QED
  BY <1>1, <1>2, <1>3, <1>4 DEF CallOK

\* An answer that brings the tokens of a user, who is the right one.
LEMMA TokenAnswer ==
  ASSUME SessionInv, NEW t \in Tabs, call[t] # None,
         NEW set \in [Cookies -> Maybe(Sets)], NEW u \in Users,
         Answer(t, set, u), session' = session,
         call[t].op \in {"login", "refresh"},
         \A c \in TokenCookies : Brings(set[c], u),
         ~call[t].late /\ call[t].op = "refresh" => u = session
  PROVE  CallOK(t)' /\ \A s \in Tabs \ {t} : call'[s] = call[s]
<1>0. u \in Maybe(Users) /\ u # None
  BY Present DEF SessionInv, Maybe
<1>1. /\ call'[t].op = call[t].op /\ call'[t].late = call[t].late
      /\ call'[t].body = call[t].body /\ call'[t].spends = Matches(t)
      /\ call'[t].set = set /\ call'[t].sub = u /\ call'[t].sent = NoCookie
      /\ \A s \in Tabs \ {t} : call'[s] = call[s]
  BY <1>0, Answered DEF SessionInv
<1>2. BothOrNone(t)'
  BY <1>0, <1>1 DEF BothOrNone, BringsTokens, Brings
<1>3. InPlace(t)'
  BY <1>1, SetsAreSets DEF InPlace, SessionInv, CallOK, Matches, Maybe
<1>4. UpToDate(t)'
  BY <1>1, SetsAreSets DEF UpToDate, SessionInv
<1> QED
  BY <1>1, <1>2, <1>3, <1>4 DEF CallOK

\* What a refresh or a page finds in a call is a token of the account that
\* the last login left, unless the call is older.
LEMMA SentToken ==
  ASSUME SessionInv, NEW t \in Tabs, call[t] # None, NEW c \in TokenCookies,
         call[t].sent[c] # None
  PROVE  /\ call[t].sent[c].sub \in Users
         /\ ~call[t].late => call[t].sent[c].sub = session
BY DEF SessionInv, CallOK, InPlace, UpToDate, Maybe, Token

LEMMA RefreshKept ==
  ASSUME SessionInv, NEW t \in Tabs, Refresh(t)
  PROVE  CallOK(t)' /\ \A s \in Tabs \ {t} : call'[s] = call[s]
<1>0. call[t] # None /\ call[t].op = "refresh" /\ session' = session
  BY DEF Refresh, Pending, history
<1> DEFINE v == call[t].sent["refresh_token"]
<1>1. CASE Parses(v, "refresh")
  <2>1. v.sub \in Users /\ (~call[t].late => v.sub = session)
    BY <1>0, <1>1, SentToken DEF Parses, TokenCookies
  <2>2. Answer(t, Renewed(v.sub), v.sub)
    BY <1>1 DEF Refresh
  <2>3. /\ Renewed(v.sub) \in [Cookies -> Maybe(Sets)]
        /\ \A c \in TokenCookies : Brings(Renewed(v.sub)[c], v.sub)
    BY <2>1, TokensAreTokens DEF Renewed, SessionInv
  <2> HIDE DEF v
  <2> QED
    BY <1>0, <2>1, <2>2, <2>3, TokenAnswer
<1>2. CASE ~Parses(v, "refresh")
  <2>1. Answer(t, NoCookie, None) /\ None \in Maybe(Users)
    BY <1>2 DEF Refresh, Maybe
  <2> QED
    BY <1>0, <2>1, SetsAreSets, EmptyAnswer DEF SessionInv
<1> QED
  BY <1>1, <1>2

LEMMA ActKept ==
  ASSUME SessionInv, NEW t \in Tabs, Act(t)
  PROVE  CallOK(t)' /\ \A s \in Tabs \ {t} : call'[s] = call[s]
<1>0. call[t] # None /\ call[t].op = "act" /\ session' = session
  BY DEF Act, Pending, history
<1> DEFINE u == IF Parses(call[t].sent["access_token"], "access")
                THEN call[t].sent["access_token"].sub ELSE None
<1>1. u \in Maybe(Users) /\ (~call[t].late => u \in {None, session})
  BY <1>0, SentToken DEF Parses, TokenCookies, Maybe
<1>2. Answer(t, NoCookie, u)
  BY DEF Act
<1> HIDE DEF u
<1> QED
  BY <1>0, <1>1, <1>2, SetsAreSets, EmptyAnswer DEF SessionInv

LEMMA LoginKept ==
  ASSUME SessionInv, NEW t \in Tabs, NEW u \in Users, Login(t, u)
  PROVE  CallOK(t)' /\ \A s \in Tabs \ {t} : call'[s] = call[s]
<1>0. call[t] # None /\ call[t].op = "login" /\ session' = session
  BY DEF Login, Pending, history
<1> DEFINE set == [Tokens(u) EXCEPT !["oauth_state"] = Checked["oauth_state"]]
<1>1. /\ set \in [Cookies -> Maybe(Sets)]
      /\ \A c \in TokenCookies : set[c] = Tokens(u)[c]
  BY TokensAreTokens, SetsAreSets DEF SessionInv, Cookies, TokenCookies
<1>2. \A c \in TokenCookies : Brings(set[c], u)
  BY <1>1, TokensAreTokens DEF SessionInv
<1>3. Answer(t, set, u)
  BY DEF Login
<1> HIDE DEF set
<1> QED
  BY <1>0, <1>1, <1>2, <1>3, TokenAnswer

\* The answers of the other endpoints.
LEMMA OtherAnswers ==
  ASSUME SessionInv, NEW t \in Tabs,
         State(t) \/ LoginRefused(t) \/ LoginFails(t) \/ Logout(t)
  PROVE  CallOK(t)' /\ \A s \in Tabs \ {t} : call'[s] = call[s]
<1>0. call[t] # None /\ session' = session /\ None \in Maybe(Users)
  BY DEF State, LoginRefused, LoginFails, Logout, Pending, history, Maybe
<1>1. CASE State(t)
  <2> DEFINE v == [value |-> [state |-> states'], age |-> StateAge]
             set == [NoCookie EXCEPT !["oauth_state"] = v]
  <2>1. v \in Sets
    BY <1>1, SessionsAssumption DEF SessionInv, State, TypeOK, Sets, Values, StateValue
  <2>2. Answer(t, set, None)
    BY <1>1 DEF State
  <2> HIDE DEF v
  <2>3. set \in [Cookies -> Maybe(Sets)] /\ \A c \in TokenCookies : set[c] = None
    BY <2>1 DEF NoCookie, Maybe, Cookies, TokenCookies
  <2> HIDE DEF set
  <2> QED
    BY <1>0, <2>2, <2>3, EmptyAnswer
<1>2. CASE LoginRefused(t)
  BY <1>0, <1>2, SetsAreSets, EmptyAnswer DEF LoginRefused, SessionInv
<1>3. CASE LoginFails(t)
  BY <1>0, <1>3, SetsAreSets, EmptyAnswer DEF LoginFails, SessionInv
<1>4. CASE Logout(t)
  BY <1>0, <1>4, SetsAreSets, EmptyAnswer DEF Logout, SessionInv
<1> QED
  BY <1>1, <1>2, <1>3, <1>4

LEMMA RefuseKept ==
  ASSUME SessionInv, NEW t \in Tabs, Refuse(t)
  PROVE  CallOK(t)' /\ \A s \in Tabs \ {t} : call'[s] = call[s]
<1>1. call[t] # None /\ call[t] \in Call /\ session' = session
  BY Present DEF Refuse, SessionInv, history
<1>2. /\ call'[t].op = call[t].op /\ call'[t].late = call[t].late
      /\ call'[t].body = call[t].body /\ call'[t].spends = call[t].spends
      /\ call'[t].set = call[t].set /\ call'[t].sub = call[t].sub
      /\ call'[t].sent = NoCookie
      /\ \A s \in Tabs \ {t} : call'[s] = call[s]
  BY <1>1 DEF Refuse, Call, SessionInv, TypeOK
<1> QED
  BY <1>1, <1>2, SetsAreSets
  DEF SessionInv, CallOK, BothOrNone, BringsTokens, InPlace, UpToDate, Maybe

----------------------------------------------------------------------------
(* The jar.                                                                *)

\* What a call leaves of the tokens in the jar: those of its user, none, or
\* those that were there; and it speaks of the session accordingly.
LEMMA ArrivalDecides ==
  ASSUME SessionInv, NEW t \in Tabs, Arrive(t)
  PROVE  \/ /\ BringsTokens(t)
            /\ \A c \in TokenCookies :
                 /\ jar'[c] # None /\ jar'[c].value \in Token
                 /\ jar'[c].value.sub = call[t].sub
            /\ \/ session' = call[t].sub /\ ~late'
               \/ /\ session' = session /\ ~Decides(t)
                  /\ ~late' => ~late /\ call[t].sub = session
         \/ /\ Decides(t) /\ session' = None
            /\ \A c \in TokenCookies : jar'[c] = None
         \/ /\ ~Decides(t) /\ session' = session /\ late' = late
            /\ \A c \in TokenCookies : jar'[c] = jar[c]
<1>1. /\ call[t] # None /\ CallOK(t) /\ TokenCookies \subseteq Cookies
      /\ \A c \in Cookies : jar'[c] = After(t, c)
      /\ session' = IF Decides(t) THEN call[t].sub ELSE session
      /\ late' = IF Decides(t) THEN FALSE ELSE late \/ (BringsTokens(t) /\ call[t].late)
  BY DEF Arrive, SessionInv, TokenCookies, Cookies
<1>2. TypeOK /\ late \in BOOLEAN
  BY DEF SessionInv, TypeOK
<1>3. CASE BringsTokens(t) /\ \A c \in TokenCookies : Brings(call[t].set[c], call[t].sub)
  <2>1. \A c \in TokenCookies : /\ jar'[c] # None /\ jar'[c].value \in Token
                                 /\ jar'[c].value.sub = call[t].sub
    BY <1>1, <1>2, <1>3, Arrived DEF Brings
  <2>2. call[t].sub # None
    BY <1>3 DEF BringsTokens
  <2>3. call[t].op = "refresh" /\ ~call[t].late => call[t].sub = session
    BY <1>1, <2>2 DEF CallOK, UpToDate
  <2>4. Decides(t) => session' = call[t].sub /\ ~late'
    BY <1>1
  <2>5. ~Decides(t) => call[t].op = "refresh"
    BY <1>3 DEF Decides, BringsTokens
  <2>6. ~Decides(t) => session' = session /\ (~late' => ~late /\ call[t].sub = session)
    BY <1>1, <1>3, <2>3, <2>5
  <2> QED
    BY <1>3, <2>1, <2>4, <2>6
<1>4. CASE call[t].sub = None /\ call[t].set = SignedOut
  <2>1. \A c \in TokenCookies : jar'[c] = None
    BY <1>1, <1>2, <1>4, SetsAreSets, Arrived
  <2> QED
    BY <1>1, <1>4, <2>1 DEF Decides
<1>5. CASE ~BringsTokens(t) /\ \A c \in TokenCookies : call[t].set[c] = None
  <2>1. \A c \in TokenCookies : jar'[c] = jar[c]
    BY <1>1, <1>2, <1>5, Arrived
  <2>2. Cleared # None
    BY <1>2, Present DEF Sets
  <2>3. call[t].set # SignedOut
    BY <1>2, <1>5, <2>2, SetsAreSets DEF TokenCookies
  <2> QED
    BY <1>1, <1>2, <1>5, <2>1, <2>3 DEF Decides
<1> QED
  BY <1>1, <1>3, <1>4, <1>5 DEF CallOK, BothOrNone

\* When an answer arrives, the calls still on their way are late if it was the
\* last word on the session, and unchanged if not.
LEMMA ArriveKeepsCalls ==
  ASSUME SessionInv, NEW t \in Tabs, Arrive(t), NEW s \in Tabs
  PROVE  CallOK(s)'
<1>1. CASE s = t \/ call[s] = None
  BY <1>1 DEF Arrive, CallOK
<1>2. CASE s # t /\ call[s] # None
  <2>1. call[s] \in Call /\ Decides(t) \in BOOLEAN
    BY <1>2, Present DEF SessionInv, Decides
  <2>2. call'[s] = [call[s] EXCEPT !.late = @ \/ Decides(t)]
    BY <1>2 DEF Arrive
  <2>3. /\ call'[s].op = call[s].op /\ call'[s].sent = call[s].sent
        /\ call'[s].body = call[s].body /\ call'[s].spends = call[s].spends
        /\ call'[s].set = call[s].set /\ call'[s].sub = call[s].sub
    BY <2>1, <2>2 DEF Call
  <2>4. call'[s].late = (call[s].late \/ Decides(t))
    BY <2>1, <2>2 DEF Call
  <2>5. BothOrNone(s) /\ InPlace(s) /\ UpToDate(s)
    BY <1>2 DEF SessionInv, CallOK
  <2>6. BothOrNone(s)' /\ InPlace(s)'
    BY <2>3, <2>5 DEF BothOrNone, BringsTokens, InPlace
  <2>7. ~call'[s].late => ~call[s].late /\ session' = session
    BY <2>4 DEF Arrive
  <2>8. UpToDate(s)'
    BY <2>3, <2>5, <2>7 DEF UpToDate
  <2> QED
    BY <2>6, <2>8 DEF CallOK
<1> QED
  BY <1>1, <1>2

LEMMA ArriveKeepsJar ==
  ASSUME SessionInv, NEW t \in Tabs, Arrive(t)
  PROVE  JarOK'
<1>1. JarOK
  BY DEF SessionInv
<1>2. CASE /\ BringsTokens(t)
           /\ \A c \in TokenCookies :
                /\ jar'[c] # None /\ jar'[c].value \in Token
                /\ jar'[c].value.sub = call[t].sub
           /\ \/ session' = call[t].sub /\ ~late'
              \/ session' = session /\ (~late' => ~late /\ call[t].sub = session)
  <2>1. call[t].sub # None
    BY <1>2 DEF BringsTokens
  <2>2. ~late' => session' = call[t].sub
    BY <1>2
  <2> QED
    BY <1>2, <2>1, <2>2 DEF JarOK, OneUserPerJar, Holds, TokenCookies
<1>3. CASE session' = None /\ \A c \in TokenCookies : jar'[c] = None
  BY <1>3 DEF JarOK, OneUserPerJar, Holds, TokenCookies
<1>4. CASE session' = session /\ late' = late /\ \A c \in TokenCookies : jar'[c] = jar[c]
  BY <1>1, <1>4 DEF JarOK, OneUserPerJar, Holds, TokenCookies
<1> QED
  BY <1>2, <1>3, <1>4, ArrivalDecides

\* Time only takes cookies out of the jar; a call that is lost takes nothing.
LEMMA TickKept ==
  ASSUME SessionInv, Tick
  PROVE  (\A t \in Tabs : CallOK(t)') /\ JarOK'
<1>1. \A c \in TokenCookies : jar'[c] = None \/ jar'[c] = jar[c]
  BY Aged DEF SessionInv, TokenCookies, Cookies
<1>2. call' = call /\ session' = session /\ late' = late
  BY DEF Tick, history
<1>3. JarOK'
  BY <1>1, <1>2 DEF SessionInv, JarOK, OneUserPerJar, Holds, TokenCookies
<1>4. ASSUME NEW t \in Tabs PROVE CallOK(t)'
  BY <1>2 DEF SessionInv, CallOK, BothOrNone, InPlace, UpToDate, BringsTokens
<1> QED
  BY <1>3, <1>4

LEMMA LoseKept ==
  ASSUME SessionInv, NEW t \in Tabs, Lose(t)
  PROVE  CallOK(t)' /\ \A s \in Tabs \ {t} : call'[s] = call[s]
BY DEF SessionInv, Lose, TypeOK, CallOK

----------------------------------------------------------------------------
(* The invariant.                                                          *)

LEMMA SessionInvInit ==
  ASSUME Init
  PROVE  SessionInv
BY DEF Init, SessionInv, TypeOK, Maybe, CallOK, JarOK, OneUserPerJar, Holds,
       TokenCookies, Cookies

LEMMA SessionInvStep ==
  ASSUME SessionInv, [Next]_vars
  PROVE  SessionInv'
<1>0. TypeOK'
  BY TypesKept
<1> SUFFICES (\A t \in Tabs : CallOK(t)') /\ JarOK'
  BY <1>0 DEF SessionInv
<1>1. ASSUME NEW t \in Tabs, NEW op \in Ops \ {"login"}, Send(t, op, None)
      PROVE  (\A s \in Tabs : CallOK(s)') /\ JarOK'
  BY <1>1, SendKept, OthersKept DEF Send, history
<1>2. ASSUME NEW t \in Tabs, NEW n \in 1 .. states, Send(t, "login", [state |-> n])
      PROVE  (\A s \in Tabs : CallOK(s)') /\ JarOK'
  <2>1. [state |-> n] \in StateValue /\ "login" \in Ops
    BY DEF StateValue, Ops, SessionInv, TypeOK
  <2> QED
    BY <1>2, <2>1, SendKept, OthersKept DEF Send, history
<1>3. ASSUME NEW t \in Tabs, State(t) \/ LoginRefused(t) \/ LoginFails(t) \/ Logout(t)
      PROVE  (\A s \in Tabs : CallOK(s)') /\ JarOK'
  <2>1. UNCHANGED <<jar, session, late>>
    BY <1>3 DEF State, LoginRefused, LoginFails, Logout, history
  <2> QED
    BY <1>3, <2>1, OtherAnswers, OthersKept
<1>4. ASSUME NEW t \in Tabs, NEW u \in Users, Login(t, u)
      PROVE  (\A s \in Tabs : CallOK(s)') /\ JarOK'
  BY <1>4, LoginKept, OthersKept DEF Login, history
<1>5. ASSUME NEW t \in Tabs, Refresh(t)
      PROVE  (\A s \in Tabs : CallOK(s)') /\ JarOK'
  BY <1>5, RefreshKept, OthersKept DEF Refresh, history
<1>6. ASSUME NEW t \in Tabs, Act(t)
      PROVE  (\A s \in Tabs : CallOK(s)') /\ JarOK'
  BY <1>6, ActKept, OthersKept DEF Act, history
<1>7. ASSUME NEW t \in Tabs, Refuse(t)
      PROVE  (\A s \in Tabs : CallOK(s)') /\ JarOK'
  BY <1>7, RefuseKept, OthersKept DEF Refuse, history
<1>8. ASSUME NEW t \in Tabs, Arrive(t)
      PROVE  (\A s \in Tabs : CallOK(s)') /\ JarOK'
  BY <1>8, ArriveKeepsCalls, ArriveKeepsJar
<1>9. ASSUME NEW t \in Tabs, Lose(t)
      PROVE  (\A s \in Tabs : CallOK(s)') /\ JarOK'
  BY <1>9, LoseKept, OthersKept DEF Lose, history
<1>10. ASSUME Tick PROVE (\A s \in Tabs : CallOK(s)') /\ JarOK'
  BY <1>10, TickKept
<1>11. ASSUME UNCHANGED vars PROVE (\A s \in Tabs : CallOK(s)') /\ JarOK'
  BY <1>11 DEF vars, history, SessionInv, CallOK, BothOrNone, InPlace, UpToDate,
     BringsTokens, JarOK, OneUserPerJar, Holds
<1> QED
  BY <1>1, <1>2, <1>3, <1>4, <1>5, <1>6, <1>7, <1>8, <1>9, <1>10, <1>11 DEF Next

\* For any accounts, tabs and lifetimes: however answers overtake each other,
\* the tokens in a jar are of one account (OneUserPerJar), and unless a call
\* older than the last login or logout had the last word, of the account that
\* one left, which is also whom requests are served as (LastWordCounts).
THEOREM OneSession == Spec => [](TypeOK /\ OneUserPerJar /\ LastWordCounts)
<1>1. Init => SessionInv
  BY SessionInvInit
<1>2. SessionInv /\ [Next]_vars => SessionInv'
  BY SessionInvStep
<1>3. SessionInv => TypeOK /\ OneUserPerJar /\ LastWordCounts
  BY DEF SessionInv, JarOK, TokenCookies, CallOK, UpToDate, LastWordCounts
<1> QED
  BY <1>1, <1>2, <1>3, PTL DEF Spec

----------------------------------------------------------------------------
(* What a step may do to a call.                                           *)

Type(c)     == IF c = "access_token" THEN "access" ELSE "refresh"
Lifetime(c) == IF c = "access_token" THEN AccessTime ELSE RefreshTime

\* The token for cookie c that was made at a given time.
Made(v, c, time) == v.type = Type(c) /\ v.exp = time + Lifetime(c)

\* A call is left alone, or refused;
Keeps(t) ==
  /\ call[t] # None
  /\ call'[t].op = call[t].op /\ call'[t].body = call[t].body
  /\ call'[t].at = call[t].at /\ call'[t].sub = call[t].sub
  /\ call'[t].spends = call[t].spends /\ call'[t].set = call[t].set
  /\ call'[t].sent \in {call[t].sent, NoCookie}

\* it is sent, with the state that is in the jar;
Begins(t) ==
  /\ call'[t].set = NoCookie /\ call'[t].sub = None /\ ~call'[t].spends
  /\ \/ call'[t].sent["oauth_state"] = None
     \/ /\ jar["oauth_state"] # None
        /\ call'[t].sent["oauth_state"] = jar["oauth_state"].value

\* it is answered with a new state;
GivesState(t) ==
  /\ states' = states + 1
  /\ call'[t].set["oauth_state"] = [value |-> [state |-> states + 1], age |-> StateAge]
  /\ call'[t].op = "state" /\ ~call'[t].spends /\ call'[t].sent = NoCookie
  /\ \A s \in Tabs \ {t} : call'[s] = call[s]

\* or it is answered with tokens made now, or none, and at most clears the state.
Replies(t) ==
  /\ call[t] # None
  /\ call'[t].body = call[t].body /\ call'[t].at = now /\ call'[t].sent = NoCookie
  /\ call'[t].spends = Matches(t)
  /\ call'[t].set["oauth_state"] \in {None, Cleared}
  /\ call'[t].spends => call'[t].set["oauth_state"] = Cleared
  /\ BringsTokens(t)' => \A c \in TokenCookies :
       Made(call'[t].set[c].value, c, now) /\ call'[t].set[c].age = Lifetime(c)

\* The tokens of a user are made now, for the lifetimes of their cookies.
LEMMA TokensAreMade ==
  ASSUME NEW u
  PROVE  /\ \A c \in TokenCookies : /\ Made(Tokens(u)[c].value, c, now)
                                    /\ Tokens(u)[c].age = Lifetime(c)
         /\ Tokens(u)["oauth_state"] = None
<1> DEFINE a == [value |-> Generate(u, "access", AccessTime), age |-> AccessAge]
           b == [value |-> Generate(u, "refresh", RefreshTime), age |-> RefreshAge]
<1>1. Tokens(u) = [NoCookie EXCEPT !["access_token"] = a, !["refresh_token"] = b]
  BY DEF Tokens
<1>2. Made(a.value, "access_token", now) /\ a.age = Lifetime("access_token")
  BY SessionsAssumption DEF Generate, Made, Type, Lifetime
<1>3. Made(b.value, "refresh_token", now) /\ b.age = Lifetime("refresh_token")
  BY SessionsAssumption DEF Generate, Made, Type, Lifetime
<1> HIDE DEF a, b
<1>4. /\ Tokens(u)["access_token"] = a /\ Tokens(u)["refresh_token"] = b
      /\ Tokens(u)["oauth_state"] = None
  BY <1>1 DEF NoCookie, Cookies
<1> QED
  BY <1>2, <1>3, <1>4 DEF TokenCookies

\* A call that is answered without tokens or a new state.
LEMMA EmptyReplies ==
  ASSUME SessionInv, NEW t \in Tabs, call[t] # None,
         NEW set \in [Cookies -> Maybe(Sets)], NEW u \in Maybe(Users),
         Answer(t, set, u), set["oauth_state"] \in {None, Cleared},
         Matches(t) => set["oauth_state"] = Cleared,
         u = None \/ call[t].op \notin {"login", "refresh"}
  PROVE  Replies(t) /\ \A s \in Tabs \ {t} : call'[s] = call[s]
<1>1. /\ call'[t].op = call[t].op /\ call'[t].body = call[t].body
      /\ call'[t].spends = Matches(t) /\ call'[t].at = now
      /\ call'[t].set = set /\ call'[t].sub = u /\ call'[t].sent = NoCookie
      /\ \A s \in Tabs \ {t} : call'[s] = call[s]
  BY Answered DEF SessionInv
<1> QED
  BY <1>1 DEF Replies, BringsTokens

\* A call that is answered with tokens.
LEMMA TokenReplies ==
  ASSUME SessionInv, NEW t \in Tabs, call[t] # None,
         NEW set \in [Cookies -> Maybe(Sets)], NEW u \in Users,
         Answer(t, set, u), set["oauth_state"] \in {None, Cleared},
         Matches(t) => set["oauth_state"] = Cleared,
         \A c \in TokenCookies : set[c] = Tokens(u)[c]
  PROVE  Replies(t) /\ \A s \in Tabs \ {t} : call'[s] = call[s]
<1>0. u \in Maybe(Users)
  BY DEF Maybe
<1>1. /\ call'[t].body = call[t].body
      /\ call'[t].spends = Matches(t) /\ call'[t].at = now
      /\ call'[t].set = set /\ call'[t].sent = NoCookie
      /\ \A s \in Tabs \ {t} : call'[s] = call[s]
  BY <1>0, Answered DEF SessionInv
<1>2. \A c \in TokenCookies : /\ Made(call'[t].set[c].value, c, now)
                              /\ call'[t].set[c].age = Lifetime(c)
  BY <1>1, TokensAreMade
<1> QED
  BY <1>1, <1>2 DEF Replies

LEMMA StateGives ==
  ASSUME SessionInv, NEW t \in Tabs, State(t)
  PROVE  GivesState(t)
<1> DEFINE v == [value |-> [state |-> states + 1], age |-> StateAge]
           set == [NoCookie EXCEPT !["oauth_state"] = v]
<1>1. v \in Sets
  BY SessionsAssumption DEF SessionInv, TypeOK, Sets, Values, StateValue
<1>2. call[t] # None /\ call[t].op = "state" /\ states' = states + 1 /\ ~Matches(t)
  BY DEF State, Pending, Matches
<1>3. Answer(t, set, None)
  BY <1>2 DEF State
<1> HIDE DEF v
<1>4. set \in [Cookies -> Maybe(Sets)] /\ set["oauth_state"] = v /\ None \in Maybe(Users)
  BY <1>1 DEF NoCookie, Maybe, Cookies
<1> HIDE DEF set
<1>5. /\ call'[t].op = call[t].op /\ call'[t].spends = Matches(t)
      /\ call'[t].set = set /\ call'[t].sent = NoCookie
      /\ \A s \in Tabs \ {t} : call'[s] = call[s]
  BY <1>2, <1>3, <1>4, Answered DEF SessionInv
<1> QED
  BY <1>2, <1>4, <1>5 DEF GivesState, v

LEMMA LoginReplies ==
  ASSUME SessionInv, NEW t \in Tabs,
         LoginRefused(t) \/ LoginFails(t) \/ \E u \in Users : Login(t, u)
  PROVE  Replies(t) /\ \A s \in Tabs \ {t} : call'[s] = call[s]
<1>0. call[t] # None /\ None \in Maybe(Users)
  BY DEF LoginRefused, LoginFails, Login, Pending, Maybe
<1>1. CASE LoginRefused(t)
  BY <1>0, <1>1, SetsAreSets, EmptyReplies DEF LoginRefused, SessionInv
<1>2. CASE LoginFails(t)
  BY <1>0, <1>2, SetsAreSets, EmptyReplies DEF LoginFails, SessionInv
<1>3. ASSUME NEW u \in Users, Login(t, u)
      PROVE  Replies(t) /\ \A s \in Tabs \ {t} : call'[s] = call[s]
  <2> DEFINE set == [Tokens(u) EXCEPT !["oauth_state"] = Checked["oauth_state"]]
  <2>1. /\ set \in [Cookies -> Maybe(Sets)] /\ set["oauth_state"] = Cleared
        /\ \A c \in TokenCookies : set[c] = Tokens(u)[c]
    BY TokensAreTokens, SetsAreSets DEF SessionInv, Cookies, TokenCookies
  <2>2. Answer(t, set, u)
    BY <1>3 DEF Login
  <2> HIDE DEF set
  <2> QED
    BY <1>0, <2>1, <2>2, TokenReplies
<1> QED
  BY <1>1, <1>2, <1>3

LEMMA RefreshReplies ==
  ASSUME SessionInv, NEW t \in Tabs, Refresh(t)
  PROVE  Replies(t) /\ \A s \in Tabs \ {t} : call'[s] = call[s]
<1>0. call[t] # None /\ ~Matches(t) /\ None \in Maybe(Users)
  BY DEF Refresh, Pending, Matches, Maybe
<1> DEFINE v == call[t].sent["refresh_token"]
<1>1. CASE Parses(v, "refresh")
  <2>1. v.sub \in Users
    BY <1>0, <1>1, SentToken DEF Parses, TokenCookies
  <2>2. Answer(t, Renewed(v.sub), v.sub)
    BY <1>1 DEF Refresh
  <2> HIDE DEF v
  <2>3. Tokens(v.sub) \in [Cookies -> Maybe(Sets)] /\ Tokens(v.sub)["oauth_state"] = None
    BY <2>1, TokensAreTokens, TokensAreMade DEF SessionInv
  <2> QED
    BY <1>0, <2>1, <2>2, <2>3, TokenReplies DEF Renewed
<1>2. CASE ~Parses(v, "refresh")
  <2>1. Answer(t, NoCookie, None)
    BY <1>2 DEF Refresh
  <2> QED
    BY <1>0, <2>1, SetsAreSets, EmptyReplies DEF SessionInv
<1> QED
  BY <1>1, <1>2

LEMMA OtherReplies ==
  ASSUME SessionInv, NEW t \in Tabs, Logout(t) \/ Act(t)
  PROVE  Replies(t) /\ \A s \in Tabs \ {t} : call'[s] = call[s]
<1>0. call[t] # None /\ ~Matches(t) /\ None \in Maybe(Users)
  BY DEF Logout, Act, Pending, Matches, Maybe
<1>1. CASE Logout(t)
  <2>1. SignedOut["oauth_state"] = None
    BY DEF SignedOut, NoCookie, Cookies
  <2> QED
    BY <1>0, <1>1, <2>1, SetsAreSets, EmptyReplies DEF Logout, SessionInv
<1>2. CASE Act(t)
  <2> DEFINE u == IF Parses(call[t].sent["access_token"], "access")
                  THEN call[t].sent["access_token"].sub ELSE None
  <2>1. u \in Maybe(Users) /\ call[t].op = "act"
    BY <1>0, <1>2, SentToken DEF Act, Pending, Parses, TokenCookies, Maybe
  <2>2. Answer(t, NoCookie, u)
    BY <1>2 DEF Act
  <2> HIDE DEF u
  <2> QED
    BY <1>0, <2>1, <2>2, SetsAreSets, EmptyReplies DEF SessionInv
<1> QED
  BY <1>1, <1>2

\* These are all the ways for a call to change and not to end.
LEMMA CallSteps ==
  ASSUME SessionInv, [Next]_vars, NEW s \in Tabs, call'[s] # None
  PROVE  Keeps(s) \/ Begins(s) \/ GivesState(s) \/ Replies(s)
<1> DEFINE Goal == Keeps(s) \/ Begins(s) \/ GivesState(s) \/ Replies(s)
<1>a. call'[s] = call[s] => Goal
  BY DEF Keeps
<1>b. ASSUME NEW t \in Tabs, Replies(t), \A x \in Tabs \ {t} : call'[x] = call[x]
      PROVE  Goal
  BY <1>a, <1>b
<1>1. ASSUME NEW t \in Tabs, NEW op \in Ops, NEW body, Send(t, op, body)
      PROVE  Goal
  <2>1. CASE s = t
    <3> DEFINE n == call'[t]
    <3>1. /\ n.set = NoCookie /\ n.sub = None /\ n.spends = FALSE
          /\ \/ n.sent["oauth_state"] = None
             \/ /\ jar["oauth_state"] # None
                /\ n.sent["oauth_state"] = jar["oauth_state"].value
      BY <1>1 DEF Send, SessionInv, TypeOK, Cookies
    <3> QED
      BY <2>1, <3>1 DEF Begins
  <2>2. CASE s # t
    BY <1>1, <1>a, <2>2 DEF Send, SessionInv, TypeOK
  <2> QED
    BY <2>1, <2>2
<1>2. ASSUME NEW t \in Tabs, State(t) PROVE Goal
  <2>1. GivesState(t)
    BY <1>2, StateGives
  <2>2. s # t => call'[s] = call[s]
    BY <2>1 DEF GivesState
  <2> QED
    BY <1>a, <2>1, <2>2
<1>3. ASSUME NEW t \in Tabs,
             \/ LoginRefused(t) \/ LoginFails(t) \/ (\E u \in Users : Login(t, u))
             \/ Logout(t) \/ Refresh(t) \/ Act(t)
      PROVE  Goal
  BY <1>3, <1>b, LoginReplies, RefreshReplies, OtherReplies
<1>4. ASSUME NEW t \in Tabs, Refuse(t) PROVE Goal
  <2>1. call[t] # None /\ call[t] \in Call
    BY <1>4, Present DEF Refuse, SessionInv
  <2>2. Keeps(t) /\ \A x \in Tabs \ {t} : call'[x] = call[x]
    BY <1>4, <2>1 DEF Refuse, Call, SessionInv, TypeOK, Keeps
  <2> QED
    BY <1>a, <2>2
<1>5. ASSUME NEW t \in Tabs, Arrive(t) PROVE Goal
  <2>1. s # t /\ call[s] # None
    BY <1>5 DEF Arrive
  <2>2. call[s] \in Call
    BY <2>1, Present DEF SessionInv
  <2>3. call'[s] = [call[s] EXCEPT !.late = @ \/ Decides(t)]
    BY <1>5, <2>1 DEF Arrive
  <2> QED
    BY <2>1, <2>2, <2>3 DEF Call, Keeps
<1>6. ASSUME NEW t \in Tabs, Lose(t) PROVE Goal
  BY <1>6, <1>a DEF Lose, SessionInv, TypeOK
<1>7. ASSUME Tick \/ UNCHANGED vars PROVE Goal
  BY <1>7, <1>a DEF Tick, vars
<1>8. "login" \in Ops
  BY DEF Ops
<1> HIDE DEF Goal
<1>9. Goal
  BY <1>1, <1>2, <1>3, <1>4, <1>5, <1>6, <1>7, <1>8 DEF Next
<1> QED
  BY <1>9 DEF Goal

\* The jar, the time and what has arrived change when an answer arrives or
\* time passes; states are only handed out one by one.
LEMMA JarSteps ==
  ASSUME SessionInv, [Next]_vars
  PROVE  /\ \/ \E t \in Tabs : Arrive(t)
            \/ Tick
            \/ UNCHANGED <<now, jar, session, issued, spent>>
         /\ now' \in {now, now + 1} /\ states' \in {states, states + 1}
BY DEF Next, vars, history, Send, State, LoginRefused, LoginFails, Login, Logout,
       Refresh, Act, Refuse, Arrive, Lose, Tick

----------------------------------------------------------------------------
(* How long a session lasts.                                               *)

\* The tokens that an answer brings last from when it was made, as do their
\* cookies from when they arrive.
OnTime(t) == call[t] # None /\ BringsTokens(t) =>
  /\ call[t].at <= now
  /\ \A c \in TokenCookies : /\ Made(call[t].set[c].value, c, call[t].at)
                             /\ call[t].set[c].age = Lifetime(c)

\* The jar keeps the tokens that arrived last until they expire.
JarLasts == session # None => \A c \in TokenCookies : now < issued + Lifetime(c) =>
  /\ jar[c] # None /\ Made(jar[c].value, c, issued)
  /\ jar[c].dies >= issued + Lifetime(c)

LastingInv == SessionInv /\ (\A t \in Tabs : OnTime(t)) /\ JarLasts

LEMMA Lifetimes ==
  ASSUME NEW c \in TokenCookies
  PROVE  c \in Cookies /\ Lifetime(c) \in Nat \ {0}
BY SessionsAssumption DEF TokenCookies, Cookies, Lifetime

LEMMA OnTimeStep ==
  ASSUME LastingInv, [Next]_vars, NEW s \in Tabs
  PROVE  OnTime(s)'
<1> SUFFICES ASSUME call'[s] # None, BringsTokens(s)'
             PROVE  /\ call'[s].at <= now'
                    /\ \A c \in TokenCookies : /\ Made(call'[s].set[c].value, c, call'[s].at)
                                               /\ call'[s].set[c].age = Lifetime(c)
  BY DEF OnTime, Made, Type, Lifetime
<1>0. SessionInv /\ OnTime(s)
  BY DEF LastingInv
<1>1. now \in Nat /\ now' \in Nat /\ now <= now'
  BY <1>0, JarSteps DEF SessionInv, TypeOK
<1>2. CASE Keeps(s)
  <2>1. call[s] # None /\ BringsTokens(s) /\ call[s].at \in Nat
    BY <1>0, <1>2, Present DEF Keeps, BringsTokens, SessionInv, Call
  <2> QED
    BY <1>0, <1>1, <1>2, <2>1 DEF Keeps, OnTime
<1>3. CASE Begins(s)
  BY <1>3 DEF Begins, BringsTokens
<1>4. CASE GivesState(s)
  BY <1>4 DEF GivesState, BringsTokens
<1>5. CASE Replies(s)
  BY <1>1, <1>5 DEF Replies
<1> QED
  BY <1>0, <1>2, <1>3, <1>4, <1>5, CallSteps

LEMMA JarLastsStep ==
  ASSUME LastingInv, [Next]_vars
  PROVE  JarLasts'
<1> SUFFICES ASSUME session' # None, NEW c \in TokenCookies, now' < issued' + Lifetime(c)
             PROVE  /\ jar'[c] # None /\ Made(jar'[c].value, c, issued')
                    /\ jar'[c].dies >= issued' + Lifetime(c)
  BY DEF JarLasts, Made, Type, Lifetime
<1>0. SessionInv /\ TypeOK /\ JarLasts /\ now \in Nat /\ issued \in Nat
  BY DEF LastingInv, SessionInv, TypeOK
<1>1. c \in Cookies /\ Lifetime(c) \in Nat \ {0}
  BY Lifetimes
<1>2. ASSUME NEW t \in Tabs, Arrive(t)
      PROVE  /\ jar'[c] # None /\ Made(jar'[c].value, c, issued')
             /\ jar'[c].dies >= issued' + Lifetime(c)
  <2>0. /\ call[t] # None /\ now' = now /\ jar'[c] = After(t, c)
        /\ issued' = IF BringsTokens(t) THEN call[t].at ELSE issued
    BY <1>1, <1>2 DEF Arrive
  <2>1. CASE BringsTokens(t)
    <3>1. OnTime(t) /\ call[t].at \in Nat
      BY <2>0, <1>0, Present DEF LastingInv, Call
    <3>2. /\ Made(call[t].set[c].value, c, call[t].at) /\ call[t].at <= now
          /\ call[t].set[c].age = Lifetime(c)
      BY <2>0, <2>1, <3>1 DEF OnTime
    <3>3. call[t].set[c] # None
      BY <2>0, <2>1, <1>0 DEF SessionInv, CallOK, BothOrNone, Brings, BringsTokens
    <3>4. /\ jar'[c] # None /\ jar'[c].value = call[t].set[c].value
          /\ jar'[c].dies = now + Lifetime(c)
      BY <1>0, <1>1, <2>0, <3>2, <3>3, Arrived
    <3> QED
      BY <1>0, <1>1, <2>0, <2>1, <3>1, <3>2, <3>4
  <2>2. CASE ~BringsTokens(t)
    <3>1. jar'[c] = jar[c] /\ session' = session
      BY <1>0, <1>2, <2>2, ArrivalDecides
    <3> QED
      BY <1>0, <2>0, <2>2, <3>1 DEF JarLasts
  <2> QED
    BY <2>1, <2>2
<1>3. CASE Tick
  <2>1. now' = now + 1 /\ session' = session /\ issued' = issued
    BY <1>3 DEF Tick, history
  <2>2. /\ jar[c] # None /\ Made(jar[c].value, c, issued)
        /\ jar[c].dies >= issued + Lifetime(c)
    BY <1>0, <1>1, <2>1 DEF JarLasts
  <2>3. jar[c].dies \in Nat
    BY <1>0, <1>1, <2>2, Present DEF Kept
  <2>4. jar'[c] = jar[c]
    BY <1>0, <1>1, <1>3, <2>1, <2>2, <2>3 DEF Tick
  <2> QED
    BY <2>1, <2>2, <2>4
<1>4. CASE UNCHANGED <<now, jar, session, issued, spent>>
  BY <1>0, <1>4 DEF JarLasts
<1> QED
  BY <1>0, <1>2, <1>3, <1>4, JarSteps

LEMMA LastingInvInit ==
  ASSUME Init
  PROVE  LastingInv
<1>1. SessionInv
  BY SessionInvInit
<1> QED
  BY <1>1 DEF Init, LastingInv, OnTime, JarLasts

\* Who signs in stays signed in until the tokens that arrived last expire, for
\* any lifetimes and however long answers take, because a cookie is counted
\* from a later moment than its token (StaysSignedIn).
THEOREM SessionsLast == Spec => []StaysSignedIn
<1>1. Init => LastingInv
  BY LastingInvInit
<1>2. LastingInv /\ [Next]_vars => LastingInv'
  BY SessionInvStep, OnTimeStep, JarLastsStep DEF LastingInv
<1>3. LastingInv => StaysSignedIn
  <2> SUFFICES ASSUME LastingInv, session # None
               PROVE  /\ now < issued + AccessTime =>
                           /\ jar["access_token"] # None
                           /\ Parses(jar["access_token"].value, "access")
                      /\ now < issued + RefreshTime =>
                           /\ jar["refresh_token"] # None
                           /\ Parses(jar["refresh_token"].value, "refresh")
    BY DEF StaysSignedIn
  <2>1. TypeOK /\ JarLasts
    BY DEF LastingInv, SessionInv
  <2>2. \A c \in TokenCookies : jar[c] # None => jar[c].value # None
    BY <2>1, Present DEF Kept, TokenCookies, Cookies
  <2>3. ASSUME NEW c \in TokenCookies, now < issued + Lifetime(c)
        PROVE  jar[c] # None /\ Parses(jar[c].value, Type(c))
    BY <2>1, <2>2, <2>3, Lifetimes DEF JarLasts, Made, Parses, TypeOK
  <2> QED
    BY <2>3 DEF TokenCookies, Lifetime, Type
<1> QED
  BY <1>1, <1>2, <1>3, PTL DEF Spec

----------------------------------------------------------------------------
(* States are used once.                                                   *)

\* The answer of call t offers a state, which is not in the jar yet.
Offers(t)  == call[t] # None /\ call[t].set["oauth_state"] \notin {None, Cleared}
Offered(t) == call[t].set["oauth_state"].value

\* A call was sent with a state, or its answer will spend it.
Carries(t, v) == /\ call[t] # None
                 /\ \/ call[t].sent["oauth_state"] = v
                    \/ call[t].spends /\ call[t].body = v

\* A state has reached the browser.
Seen(v) == \/ v \in spent
           \/ jar["oauth_state"] # None /\ jar["oauth_state"].value = v
           \/ \E t \in Tabs : Carries(t, v)

\* A state on its way to the browser is another than all that got there, and
\* than the others on their way.
OfferIsNew(t) == Offers(t) =>
  /\ call[t].set["oauth_state"].age = StateAge
  /\ Offered(t) \in StateValue /\ Offered(t).state <= states
  /\ ~Seen(Offered(t))
  /\ \A s \in Tabs \ {t} : Offers(s) => Offered(s) # Offered(t)

\* An answer that spends a state clears the cookie.
SpendingClears(t) ==
  call[t] # None /\ call[t].spends => call[t].set["oauth_state"] = Cleared

StatesInv ==
  /\ SessionInv /\ StateIsSpent
  /\ \A v \in StateValue : Seen(v) => v.state <= states
  /\ \A t \in Tabs : OfferIsNew(t) /\ SpendingClears(t)

\* What a call carries it was sent with, or was in the jar when it was sent.
LEMMA CarriedIsSeen ==
  ASSUME SessionInv, [Next]_vars, NEW t \in Tabs, NEW v \in StateValue, Carries(t, v)'
  PROVE  Seen(v)
<1>0. call'[t] # None /\ v # None /\ NoCookie["oauth_state"] = None
  <2>1. TypeOK
    BY DEF SessionInv
  <2>2. v \in Values
    BY DEF Values
  <2> QED
    BY <2>1, <2>2, Present, SetsAreSets DEF Carries
<1>1. \/ call'[t].sent["oauth_state"] = v
      \/ call'[t].spends /\ call'[t].body = v
  BY DEF Carries
<1>2. CASE Keeps(t)
  BY <1>0, <1>1, <1>2 DEF Keeps, Seen, Carries
<1>3. CASE Begins(t)
  BY <1>0, <1>1, <1>3 DEF Begins, Seen
<1>4. CASE GivesState(t)
  BY <1>0, <1>1, <1>4 DEF GivesState
<1>5. CASE Replies(t)
  BY <1>0, <1>1, <1>5 DEF Replies, Matches, Seen, Carries
<1> QED
  BY <1>0, <1>2, <1>3, <1>4, <1>5, CallSteps

\* A state comes to be seen only by the arrival of the answer that offers it.
LEMMA SeenByArrival ==
  ASSUME StatesInv, [Next]_vars, NEW v \in StateValue, Seen(v)', ~Seen(v)
  PROVE  \E t \in Tabs : Arrive(t) /\ Offers(t) /\ Offered(t) = v
<1>0. SessionInv /\ TypeOK /\ "oauth_state" \in Cookies
  BY DEF StatesInv, SessionInv, Cookies
<1>1. \A t \in Tabs : ~Carries(t, v)'
  BY <1>0, CarriedIsSeen
<1>2. \/ v \in spent' \ spent
      \/ jar'["oauth_state"] # None /\ jar'["oauth_state"].value = v
  BY <1>1 DEF Seen
<1>3. ~(jar["oauth_state"] # None /\ jar["oauth_state"].value = v)
  BY DEF Seen
<1>4. CASE Tick
  <2>1. jar'["oauth_state"] = None \/ jar'["oauth_state"] = jar["oauth_state"]
    BY <1>0, <1>4, Aged
  <2> QED
    BY <1>2, <1>3, <1>4, <2>1 DEF Tick, history
<1>5. CASE UNCHANGED <<now, jar, session, issued, spent>>
  BY <1>2, <1>3, <1>5
<1>6. ASSUME NEW t \in Tabs, Arrive(t)
      PROVE  Offers(t) /\ Offered(t) = v
  <2>1. /\ call[t] # None /\ jar'["oauth_state"] = After(t, "oauth_state")
        /\ spent' = IF call[t].spends THEN spent \cup {call[t].body} ELSE spent
    BY <1>0, <1>6 DEF Arrive
  <2>2. v \notin spent' \ spent
    BY <2>1 DEF Seen, Carries
  <2>3. jar'["oauth_state"] # None /\ jar'["oauth_state"].value = v
    BY <1>2, <2>2
  <2>4. Offers(t)
    BY <1>0, <1>3, <2>1, <2>3, Arrived DEF Offers
  <2>5. OfferIsNew(t)
    BY DEF StatesInv
  <2>6. call[t].set["oauth_state"] # None /\ call[t].set["oauth_state"].age > 0
    BY <2>4, <2>5, SessionsAssumption DEF OfferIsNew, Offers
  <2> QED
    BY <1>0, <2>1, <2>3, <2>4, <2>6, Arrived DEF Offered
<1> QED
  BY <1>0, <1>4, <1>5, <1>6, JarSteps

\* The states offered after a step: one that was offered before it, or the
\* one that is handed out by it.
LEMMA OffersStep ==
  ASSUME StatesInv, [Next]_vars, NEW t \in Tabs, Offers(t)'
  PROVE  \/ Offers(t) /\ call'[t].set = call[t].set
         \/ GivesState(t)
<1>0. SessionInv /\ call'[t] # None /\ NoCookie["oauth_state"] = None
  BY SetsAreSets DEF StatesInv, SessionInv, Offers
<1>1. call'[t].set["oauth_state"] \notin {None, Cleared}
  BY DEF Offers, Cleared
<1>2. CASE Keeps(t)
  BY <1>1, <1>2 DEF Keeps, Offers
<1>3. CASE Begins(t)
  BY <1>0, <1>1, <1>3 DEF Begins
<1>4. CASE Replies(t)
  BY <1>1, <1>4 DEF Replies
<1> QED
  BY <1>0, <1>2, <1>3, <1>4, CallSteps

LEMMA OfferIsNewStep ==
  ASSUME StatesInv, [Next]_vars, NEW t \in Tabs
  PROVE  OfferIsNew(t)'
<1> SUFFICES ASSUME Offers(t)', NEW v, v = call'[t].set["oauth_state"].value
             PROVE  /\ call'[t].set["oauth_state"].age = StateAge
                    /\ v \in StateValue /\ v.state <= states'
                    /\ ~Seen(v)'
                    /\ \A s \in Tabs \ {t} :
                         Offers(s)' => call'[s].set["oauth_state"].value # v
  BY DEF OfferIsNew, Offered, Seen, Carries, StateValue
<1>0. SessionInv /\ states \in Nat /\ states' \in Nat /\ states <= states'
  BY JarSteps DEF StatesInv, SessionInv, TypeOK
<1>o. \A s \in Tabs : Offers(s) => Offered(s) \in StateValue /\ Offered(s).state <= states
  BY DEF StatesInv, OfferIsNew
<1>1. CASE Offers(t) /\ call'[t].set = call[t].set
  <2>1. OfferIsNew(t) /\ v = Offered(t)
    BY <1>1 DEF StatesInv, Offered
  <2>2. v \in StateValue /\ v.state \in Nat /\ v.state <= states /\ ~Seen(v)
    BY <1>1, <2>1 DEF OfferIsNew, StateValue
  <2>3. ~Seen(v)'
    <3>1. SUFFICES ASSUME Seen(v)' PROVE FALSE
      OBVIOUS
    <3>2. PICK s \in Tabs : Arrive(s) /\ Offers(s) /\ Offered(s) = v
      BY <2>2, <3>1, SeenByArrival
    <3>3. s # t
      BY <3>2 DEF Arrive, Offers
    <3> QED
      BY <1>1, <2>1, <3>2, <3>3 DEF OfferIsNew
  <2>4. ASSUME NEW s \in Tabs \ {t}, Offers(s)'
        PROVE  call'[s].set["oauth_state"].value # v
    <3>1. CASE Offers(s) /\ call'[s].set = call[s].set
      BY <1>1, <2>1, <3>1 DEF OfferIsNew, Offered
    <3>2. CASE GivesState(s)
      <4>1. call'[s].set["oauth_state"].value = [state |-> states + 1]
        BY <3>2 DEF GivesState
      <4>2. call'[s].set["oauth_state"].value.state = states + 1
        BY <4>1
      <4> QED
        BY <1>0, <2>2, <4>2
    <3> QED
      BY <2>4, <3>1, <3>2, OffersStep
  <2>5. call'[t].set["oauth_state"].age = StateAge
    BY <1>1, <2>1 DEF OfferIsNew
  <2>6. v.state <= states'
    BY <1>0, <2>2
  <2> QED
    BY <2>2, <2>3, <2>4, <2>5, <2>6
<1>2. CASE GivesState(t)
  <2>1. /\ v = [state |-> states + 1] /\ call'[t].set["oauth_state"].age = StateAge
        /\ states' = states + 1
    BY <1>2 DEF GivesState
  <2>2. v \in StateValue /\ v.state = states + 1
    BY <1>0, <2>1 DEF StateValue
  <2>3. ~Seen(v)'
    <3>1. SUFFICES ASSUME Seen(v)' PROVE FALSE
      OBVIOUS
    <3>2. CASE Seen(v)
      BY <1>0, <2>2, <3>2 DEF StatesInv
    <3>3. CASE \E s \in Tabs : Offers(s) /\ Offered(s) = v
      BY <1>0, <1>o, <2>2, <3>3
    <3> QED
      BY <2>2, <3>1, <3>2, <3>3, SeenByArrival
  <2>4. ASSUME NEW s \in Tabs \ {t}, Offers(s)'
        PROVE  call'[s].set["oauth_state"].value # v
    <3>1. call'[s] = call[s]
      BY <1>2 DEF GivesState
    <3>2. Offers(s) /\ call'[s].set["oauth_state"].value = Offered(s)
      BY <2>4, <3>1 DEF Offers, Offered, Cleared
    <3>3. Offered(s).state <= states /\ Offered(s) \in StateValue
      BY <1>o, <3>2
    <3> QED
      BY <1>0, <2>2, <3>2, <3>3 DEF StateValue
  <2> QED
    BY <1>0, <2>1, <2>2, <2>3, <2>4
<1> QED
  BY <1>1, <1>2, OffersStep

LEMMA SpendingClearsStep ==
  ASSUME StatesInv, [Next]_vars, NEW t \in Tabs
  PROVE  SpendingClears(t)'
<1> SUFFICES ASSUME call'[t] # None, call'[t].spends
             PROVE  call'[t].set["oauth_state"] = Cleared
  BY DEF SpendingClears, Cleared
<1>1. SessionInv /\ SpendingClears(t)
  BY DEF StatesInv
<1> QED
  BY <1>1, CallSteps DEF Keeps, Begins, GivesState, Replies, SpendingClears

\* The jar never gets a state that is spent, nor a login spends one that it leaves.
LEMMA StateIsSpentStep ==
  ASSUME StatesInv, [Next]_vars
  PROVE  StateIsSpent'
<1> SUFFICES ASSUME jar'["oauth_state"] # None
             PROVE  jar'["oauth_state"].value \notin spent'
  BY DEF StateIsSpent
<1>0. SessionInv /\ TypeOK /\ StateIsSpent /\ "oauth_state" \in Cookies
  BY DEF StatesInv, SessionInv, Cookies
<1>1. ASSUME NEW t \in Tabs, Arrive(t)
      PROVE  jar'["oauth_state"].value \notin spent'
  <2>1. /\ call[t] # None /\ jar'["oauth_state"] = After(t, "oauth_state")
        /\ spent' = IF call[t].spends THEN spent \cup {call[t].body} ELSE spent
    BY <1>0, <1>1 DEF Arrive
  <2>2. call[t].set["oauth_state"] # Cleared
    BY <1>0, <2>1, Arrived
  <2>3. spent' = spent
    BY <2>1, <2>2 DEF StatesInv, SpendingClears
  <2>4. CASE call[t].set["oauth_state"] = None
    BY <1>0, <2>1, <2>3, <2>4, Arrived DEF StateIsSpent
  <2>5. CASE call[t].set["oauth_state"] # None
    <3>1. Offers(t) /\ OfferIsNew(t)
      BY <2>1, <2>2, <2>5 DEF Offers, StatesInv
    <3>2. call[t].set["oauth_state"].age > 0 /\ Offered(t) \notin spent
      BY <3>1, SessionsAssumption DEF OfferIsNew, Seen
    <3> QED
      BY <1>0, <2>1, <2>3, <2>5, <3>2, Arrived DEF Offered
  <2> QED
    BY <2>4, <2>5
<1>2. CASE Tick
  <2>1. jar'["oauth_state"] = jar["oauth_state"] /\ spent' = spent
    BY <1>0, <1>2, Aged DEF Tick, history
  <2> QED
    BY <1>0, <2>1 DEF StateIsSpent
<1>3. CASE UNCHANGED <<now, jar, session, issued, spent>>
  BY <1>0, <1>3 DEF StateIsSpent
<1> QED
  BY <1>0, <1>1, <1>2, <1>3, JarSteps

LEMMA StatesInvStep ==
  ASSUME StatesInv, [Next]_vars
  PROVE  StatesInv'
<1>1. SessionInv /\ SessionInv'
  BY SessionInvStep DEF StatesInv
<1>2. ASSUME NEW v \in StateValue, Seen(v)' PROVE v.state <= states'
  <2>1. v.state \in Nat /\ states \in Nat /\ states' \in Nat /\ states <= states'
    BY <1>1, JarSteps DEF StateValue, SessionInv, TypeOK
  <2>2. v.state <= states
    <3>1. CASE Seen(v)
      BY <3>1 DEF StatesInv
    <3>2. CASE \E t \in Tabs : Offers(t) /\ Offered(t) = v
      BY <3>2 DEF StatesInv, OfferIsNew
    <3> QED
      BY <1>2, <3>1, <3>2, SeenByArrival
  <2> QED
    BY <2>1, <2>2
<1>3. \A v \in StateValue' : Seen(v)' => v.state <= states'
  BY <1>2 DEF StateValue
<1> QED
  BY <1>1, <1>3, StateIsSpentStep, OfferIsNewStep, SpendingClearsStep DEF StatesInv

LEMMA StatesInvInit ==
  ASSUME Init
  PROVE  StatesInv
<1>1. SessionInv
  BY SessionInvInit
<1>2. \A c \in Cookies : jar[c] = None
  BY DEF Init
<1>3. \A t \in Tabs : call[t] = None
  BY DEF Init
<1>4. spent = {} /\ jar["oauth_state"] = None
  BY <1>2 DEF Init, Cookies
<1>5. \A v : ~Seen(v)
  BY <1>3, <1>4 DEF Seen, Carries
<1> QED
  BY <1>1, <1>3, <1>4, <1>5 DEF StatesInv, StateIsSpent, OfferIsNew, Offers, SpendingClears

\* A state serves one login, with any number of tabs that ask for states and
\* sign in at once, answers late or lost: the answer that says that a state
\* was compared also takes it out of the jar, and no answer still under way
\* can bring it back (StateIsSpent).
THEOREM StatesServeOnce == Spec => []StateIsSpent
<1>1. Init => StatesInv
  BY StatesInvInit
<1>2. StatesInv /\ [Next]_vars => StatesInv'
  BY StatesInvStep
<1>3. StatesInv => StateIsSpent
  BY DEF StatesInv
<1> QED
  BY <1>1, <1>2, <1>3, PTL DEF Spec
=============================================================================
