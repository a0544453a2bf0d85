---------------------------- MODULE SyncHealing ----------------------------
(***************************************************************************)
(* What the background collector is for: whatever failures, crashes and    *)
(* races have left behind in the store, it repairs.  This module lets the  *)
(* world calm down at some moment: from then on SyncJobs takes only its    *)
(* ordinary steps, the collector goes its rounds, and clients may still    *)
(* log in and sync as often as they like.                                  *)
(***************************************************************************)
EXTENDS SyncJobs

VARIABLE calm   \* nothing goes wrong from now on

healingVars == <<vars, calm>>

\* The steps the collector is not asked to withstand for ever.
Disturbance ==
  \/ \E w \in Workers : Stumble(w)
  \/ \E u \in Users : CollectSkip(u)
  \/ Crash
  \/ \E w \in Handlers, r \in Repos, b \in BOOLEAN : ToggleStart(w, r, b)
  \/ \E r \in Repos, o \in Owners : GitHubMove(r, o)

Ordinary ==
  \/ \E w \in Handlers, u \in Users : LoginStart(w, u) \/ SyncStart(w, u)
  \/ CollectorTick
  \/ \E u \in Users : CollectStart(u)
  \/ CollectEnd
  \/ \E w \in Workers : Proceed(w)
  \/ Tick
  \/ GitHubActivity

HealingInit == Init /\ calm = FALSE

HealingNext ==
  \/ Ordinary /\ UNCHANGED calm
  \/ ~calm /\ Disturbance /\ UNCHANGED calm
  \/ ~calm /\ calm' = TRUE /\ UNCHANGED vars

\* Go runs every goroutine that can run; GitHub and the database answer or
\* fail eventually; the ticker keeps firing.  (A client's next request is
\* not owed to anyone.)
Fairness ==
  /\ \A w \in Workers : WF_vars(Proceed(w) \/ Stumble(w))
  /\ WF_vars(Loop)

HealingSpec == HealingInit /\ [][HealingNext]_healingVars /\ Fairness

----------------------------------------------------------------------------
\* Everything about a registered user is what GitHub says (but the repositories
\* of an account that has more than a page of them), and the rankings are
\* computed from what is stored.
CaughtUp(u) ==
  users[u] # None =>
    /\ \A y \in Years : contributions[u][y] = ghVersion
    /\ streak_rankings[u] = contributions[u]
    /\ Cardinality({r \in Repos : ghOwner[r] = u}) <= PageSize =>
         \A r \in Repos : ghOwner[r] = u =>
           repositories[r] # None /\ repositories[r].stats = ghVersion
    /\ Fresh(u) /\ Listed(u)

\* The repositories that count for u, or that jobs of u are told of.
Concerns(r, u) == Owned(r, u) \/ ghOwner[r] = u

\* What is stored about u is what GitHub says, and the rankings agree with it.
StoreSettled(u) ==
  /\ \A y \in Years : contributions[u][y] = ghVersion
  /\ streak_rankings[u] = contributions[u]
  /\ \A r \in Repos : Concerns(r, u) =>
       /\ repositories[r] # None
       /\ repositories[r].stats = ghVersion \/ ghOwner[r] = None
  /\ user_rankings[u] = TotalsOf(u) /\ Listed(u)

\* What job w has fetched about u, or read of it, is what is stored.
JobSettled(w, u) ==
  /\ \A r \in Repos : Concerns(r, u) =>
       work[w].repos[r] \in {None, repositories[r].stats}
  /\ user[w] = u =>
       /\ pc[w] # "togglePublic"
       /\ \A y \in Years : work[w].fetched[y] \in {None, ghVersion}
       /\ \A r \in Repos : work[w].repos[r] # None => repositories[r] # None
       /\ pc[w] = "rankUserWrite" => read[w] = TotalsOf(u)
       /\ pc[w] = "deleteWrite" => read[w] = PrivateOf(u)
       /\ pc[w] = "rankReposWrite" => read[w] = PublicOf(u)

Settled(u) == StoreSettled(u) /\ \A w \in Workers : JobSettled(w, u)

\* A round brings everything about u up to date: the account's repositories fit
\* on a page, and none of its rows is an account's whose rounds refresh it instead.
InReach(u) ==
  /\ users[u] # None
  /\ Cardinality({r \in Repos : ghOwner[r] = u}) <= PageSize
  /\ \A r \in Repos : Owned(r, u) => ghOwner[r] \in {u, None}

\* The collector heals the store: once failures, crashes, toggles and moves
\* cease (and GitHub's data rests, which MaxVersion ensures), every
\* registered user is caught up in the end and stays so, and settled if a round
\* reaches all that counts, although logins and syncs go on and their jobs
\* interleave with the collector's.
CollectorHeals ==
  <>calm => \A u \in Users : <>[](CaughtUp(u) /\ (InReach(u) => Settled(u)))

\* This step lets a toggle of u through.
Toggles(u) == \E w \in Handlers : pc[w] = "idle" /\ kind'[w] = "toggle" /\ user'[w] = u

\* Healed stays healed: once a user is caught up and nothing older is under way,
\* only GitHub, or a toggle of the user's, changes that.  Logins, syncs and
\* rounds of the collector, however they interleave, whichever of their calls
\* fail and wherever the process crashes, do not.
HealedStays ==
  [][\A u \in Users :
       Settled(u) => Settled(u)' \/ Toggles(u) \/ ~UNCHANGED <<ghVersion, ghOwner>>]_vars
=============================================================================
