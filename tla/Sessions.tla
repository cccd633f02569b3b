------------------------------- MODULE Sessions -------------------------------
(***************************************************************************)
(* A browser session: the refresh-token families of api/routes_auth.py and  *)
(* the client of lib/api.ts, whose requests rotate the pair of tokens they  *)
(* share when an access token has expired.  Pair n is the n-th access token *)
(* with the n-th refresh token.  On the server, a refresh is a read and,    *)
(* later, a commit; in the browser, the code between two awaits is a step.  *)
(***************************************************************************)
EXTENDS Naturals, FiniteSets

CONSTANTS
  Requests,   \* requests the page may have in flight
  MaxPairs,   \* bound: pairs of tokens issued in a behaviour
  MaxBroken   \* bound: requests without a usable answer

ASSUME BoundsAssumption == MaxPairs \in Nat \ {0} /\ MaxBroken \in Nat

VARIABLES
  issued,     \* pairs issued so far
  family,     \* family_id of each refresh token, named after its first pair
  revoked,    \* refresh tokens with a revoked_at
  stale,      \* the access tokens 1 .. stale have expired
  expired,    \* the refresh tokens 1 .. expired have expired
  held,       \* the pair the browser holds, None without one
  user,       \* App's user: the page shows the session
  at,         \* where each request is
  kind,       \* what it is for
  pair,       \* the access token it carries; granted or signed in, its new pair
  token,      \* the refresh token it presents
  doomed,     \* the family a replay has read, on the server
  retried,    \* the retried parameter of request()
  overlapped, \* history: families with two refreshes or logouts in flight at once
  torn,       \* history: families with a refresh or logout without its answer
  reused,     \* history: families in which a replay was detected
  closed,     \* history: families whose user signed out
  broken      \* requests without a usable answer so far

tokenVars == <<issued, family, revoked>>
clockVars == <<stale, expired>>
pageVars == <<held, user>>
requestVars == <<at, kind, pair, token, doomed, retried>>
historyVars == <<overlapped, torn, reused, closed>>
vars == <<tokenVars, clockVars, pageVars, requestVars, historyVars, broken>>

None == 0
Pairs == 1 .. MaxPairs
Kinds == {"me", "runs", "call", "login", "logout"}
OnServer == {"refreshing", "rotating", "revoking"}
Refusals == {"refused", "erred"}   \* a 401; an error
Locations == {"idle", "sent", "ok", "denied", "broken", "granted"} \cup Refusals \cup OnServer

Init ==
  /\ issued = 0
  /\ family = [n \in Pairs |-> None]
  /\ revoked = {}
  /\ stale = 0 /\ expired = 0
  /\ held = None /\ user = FALSE
  /\ at = [q \in Requests |-> "idle"]
  /\ kind = [q \in Requests |-> "call"]
  /\ pair = [q \in Requests |-> None]
  /\ token = [q \in Requests |-> None]
  /\ doomed = [q \in Requests |-> {}]
  /\ retried = [q \in Requests |-> FALSE]
  /\ overlapped = {} /\ torn = {} /\ reused = {} /\ closed = {}
  /\ broken = 0

-----------------------------------------------------------------------------
(* The page.                                                               *)

(* request() sends what q is for, with the access token held at that moment. *)
Send(q, what, carried, again) ==
  /\ at' = [at EXCEPT ![q] = "sent"]
  /\ kind' = [kind EXCEPT ![q] = what]
  /\ pair' = [pair EXCEPT ![q] = carried]
  /\ retried' = [retried EXCEPT ![q] = again]

(* request() returns or throws.                                            *)
Done(q) ==
  /\ at' = [at EXCEPT ![q] = "idle"]
  /\ kind' = [kind EXCEPT ![q] = "call"]
  /\ pair' = [pair EXCEPT ![q] = None]
  /\ token' = [token EXCEPT ![q] = None]
  /\ retried' = [retried EXCEPT ![q] = FALSE]

(* clearTokens and App's signOut.                                          *)
SignOut == held' = None /\ user' = FALSE

(* A refresh or a logout of family f is between its sending and its answer. *)
InFlight(q, f) ==
  /\ \/ at[q] \in OnServer \cup Refusals \cup {"granted"}
     \/ kind[q] = "logout" /\ at[q] \in {"sent", "ok"}
  /\ family[token[q]] = f

(* The families of the refreshes and logouts among these requests.          *)
Unanswered(some) == {f \in Pairs : \E q \in some : InFlight(q, f)}

(* q presents the refresh token the page holds.                            *)
Present(q) ==
  /\ token' = [token EXCEPT ![q] = held]
  /\ overlapped' = IF \E p \in Requests \ {q} : InFlight(p, family[held])
                   THEN overlapped \cup {family[held]} ELSE overlapped

(* The page is loaded again: the answers under way are lost, and with tokens *)
(* in sessionStorage it loads the session.                                 *)
Reload ==
  /\ broken < MaxBroken
  /\ \A p \in Requests : at[p] \notin OnServer \cup {"sent"}
  /\ \E q \in Requests :
       LET opening(p) == p = q /\ held # None IN
       /\ at' = [p \in Requests |-> IF opening(p) THEN "sent" ELSE "idle"]
       /\ kind' = [p \in Requests |-> IF opening(p) THEN "me" ELSE "call"]
       /\ pair' = [p \in Requests |-> IF opening(p) THEN held ELSE None]
  /\ token' = [p \in Requests |-> None]
  /\ retried' = [p \in Requests |-> FALSE]
  /\ torn' = torn \cup Unanswered(Requests)
  /\ user' = FALSE
  /\ broken' = broken + 1
  /\ UNCHANGED <<tokenVars, clockVars, held, doomed, overlapped, reused, closed>>

(* A handler of the page makes its request.                                *)
StartCall(q) ==
  /\ at[q] = "idle" /\ user
  /\ Send(q, "call", held, FALSE)
  /\ UNCHANGED <<tokenVars, clockVars, pageVars, token, doomed, historyVars, broken>>

(* SignIn, whose buttons are disabled while it is busy.                    *)
StartLogin(q) ==
  /\ at[q] = "idle" /\ ~user
  /\ \A p \in Requests : at[p] # "idle" => kind[p] # "login"
  /\ Send(q, "login", held, FALSE)
  /\ UNCHANGED <<tokenVars, clockVars, pageVars, token, doomed, historyVars, broken>>

(* api.logout presents the refresh token, if there is one.  Fault: it has   *)
(* cleared the tokens before.                                              *)
PresentedNever == FALSE
Presented == held # None

StartLogout(q) ==
  /\ at[q] = "idle" /\ user
  /\ IF Presented
     THEN Send(q, "logout", held, FALSE) /\ Present(q) /\ UNCHANGED <<pageVars, doomed, closed>>
     ELSE /\ SignOut
          /\ closed' = IF held = None THEN closed ELSE closed \cup {family[held]}
          /\ UNCHANGED <<requestVars, overlapped>>
  /\ UNCHANGED <<tokenVars, clockVars, torn, reused, broken>>

-----------------------------------------------------------------------------
(* The server.                                                             *)

(* _issue_pair adds a pair to family f, or opens a family with it.  Fault:    *)
(* the new family has no name.                                             *)
IssueUnnamed(f) ==
  /\ issued < MaxPairs
  /\ issued' = issued + 1
  /\ family' = [family EXCEPT ![issued'] = f]
Issue(f) ==
  /\ issued < MaxPairs
  /\ issued' = issued + 1
  /\ family' = [family EXCEPT ![issued'] = IF f = None THEN issued' ELSE f]

Family(f) == {n \in 1 .. issued : family[n] = f}
LiveIn(f) == Family(f) \ revoked

(* current_user: the access token is there and has not expired.            *)
Authenticated(n) == n # None /\ n > stale

Answer(q) ==
  /\ at[q] = "sent" /\ kind[q] \in {"me", "runs", "call"}
  /\ at' = [at EXCEPT ![q] = IF Authenticated(pair[q]) THEN "ok" ELSE "denied"]
  /\ UNCHANGED <<tokenVars, clockVars, pageVars, kind, pair, token, doomed, retried,
                 historyVars, broken>>

(* login: the credentials open a family, or are refused.                   *)
Login(q) ==
  /\ at[q] = "sent" /\ kind[q] = "login"
  /\ \/ Issue(None) /\ at' = [at EXCEPT ![q] = "ok"] /\ pair' = [pair EXCEPT ![q] = issued']
     \/ at' = [at EXCEPT ![q] = "denied"] /\ UNCHANGED <<issued, family, pair>>
  /\ UNCHANGED <<revoked, clockVars, pageVars, kind, token, doomed, retried, historyVars, broken>>

(* logout revokes the token it is given, and nothing else.                 *)
Logout(q) ==
  /\ at[q] = "sent" /\ kind[q] = "logout"
  /\ revoked' = revoked \cup {token[q]}
  /\ at' = [at EXCEPT ![q] = "ok"]
  /\ UNCHANGED <<issued, family, clockVars, pageVars, kind, pair, token, doomed, retried,
                 historyVars, broken>>

(* A replay dooms every token of the family.  Fault: only the one presented. *)
DoomedAlone(q) == {token[q]}
Doomed(q) == Family(family[token[q]])

(* refresh reads the record: a replay, whose family it reads as well, an     *)
(* expired token, or a live one.                                           *)
RefreshRead(q) ==
  /\ at[q] = "refreshing"
  /\ IF token[q] \in revoked
     THEN /\ at' = [at EXCEPT ![q] = "revoking"]
          /\ doomed' = [doomed EXCEPT ![q] = Doomed(q)]
     ELSE /\ at' = [at EXCEPT ![q] = IF token[q] <= expired THEN "refused" ELSE "rotating"]
          /\ UNCHANGED doomed
  /\ UNCHANGED <<tokenVars, clockVars, pageVars, kind, pair, token, retried,
                 historyVars, broken>>

(* What a commit is answered with: the acknowledgement of the database may    *)
(* be lost, and the refresh then fails although it took effect.             *)
Committed(q, answer) ==
  \/ at' = [at EXCEPT ![q] = answer] /\ UNCHANGED broken
  \/ /\ broken < MaxBroken /\ broken' = broken + 1
     /\ at' = [at EXCEPT ![q] = "erred"]

(* The commit of a rotation: the token is revoked and a successor joins its *)
(* family.  Faults: the token stays as it is; its successor is revoked.     *)
ConsumedNever(n) == {}
ConsumedSuccessor(n) == {issued'}
Consumed(n) == {n}

Rotate(q) ==
  /\ at[q] = "rotating"
  /\ Issue(family[token[q]])
  /\ revoked' = revoked \cup Consumed(token[q])
  /\ Committed(q, "granted")
  /\ pair' = [pair EXCEPT ![q] = issued']
  /\ UNCHANGED <<clockVars, pageVars, kind, token, doomed, retried, historyVars>>

(* The commit of a replay.  A successor that joined the family since it was *)
(* read survives.                                                          *)
Revoke(q) ==
  /\ at[q] = "revoking"
  /\ revoked' = revoked \cup doomed[q]
  /\ doomed' = [doomed EXCEPT ![q] = {}]
  /\ reused' = reused \cup {family[token[q]]}
  /\ Committed(q, "refused")
  /\ UNCHANGED <<issued, family, clockVars, pageVars, kind, pair, token, retried,
                 overlapped, torn, closed>>

(* A refresh is answered with an error and has changed nothing: it is over a *)
(* rate limit, or a read or the commit failed and was rolled back.          *)
RefreshFails(q) ==
  /\ broken < MaxBroken
  /\ at[q] \in OnServer
  /\ at' = [at EXCEPT ![q] = "erred"]
  /\ doomed' = [doomed EXCEPT ![q] = {}]
  /\ broken' = broken + 1
  /\ UNCHANGED <<tokenVars, clockVars, pageVars, kind, pair, token, retried, historyVars>>

(* The answer is lost, whatever it was, before or after the server acts, or  *)
(* a request other than a refresh is answered with an error.                *)
Break(q) ==
  /\ broken < MaxBroken
  /\ at[q] \notin {"idle", "denied", "broken"}
  /\ at' = [at EXCEPT ![q] = "broken"]
  /\ doomed' = [doomed EXCEPT ![q] = {}]
  /\ torn' = torn \cup Unanswered({q})
  /\ broken' = broken + 1
  /\ UNCHANGED <<tokenVars, clockVars, pageVars, kind, pair, token, retried,
                 overlapped, reused, closed>>

-----------------------------------------------------------------------------
(* The answers.                                                            *)

(* The user has signed out, and the page with them.                        *)
Close(q) ==
  /\ SignOut
  /\ closed' = closed \cup {family[token[q]]}
  /\ Done(q)

(* loadSession reads the user and then the runs; a handler returns or makes  *)
(* its next request, also when the page has signed out meanwhile.           *)
Receive(q) ==
  /\ at[q] = "ok"
  /\ \/ /\ kind[q] \in {"call", "runs"} /\ Done(q) /\ UNCHANGED <<pageVars, closed>>
     \/ /\ kind[q] = "call" /\ Send(q, "call", held, FALSE)
        /\ UNCHANGED <<pageVars, token, closed>>
     \/ /\ kind[q] = "me" /\ Send(q, "runs", held, FALSE)
        /\ user' = TRUE /\ UNCHANGED <<held, token, closed>>
     \/ /\ kind[q] = "login" /\ Send(q, "me", pair[q], FALSE)
        /\ held' = pair[q] /\ UNCHANGED <<user, token, closed>>
     \/ /\ kind[q] = "logout" /\ Close(q)
  /\ UNCHANGED <<tokenVars, clockVars, doomed, overlapped, torn, reused, broken>>

(* A 401: the first time, the page presents its refresh token; without one, *)
(* it signs out.  A session that cannot be loaded signs out in any case.     *)
Denied(q) ==
  /\ at[q] = "denied"
  /\ IF ~retried[q] /\ held # None
     THEN /\ at' = [at EXCEPT ![q] = "refreshing"]
          /\ Present(q)
          /\ UNCHANGED <<pageVars, kind, pair, retried>>
     ELSE /\ IF ~retried[q] \/ kind[q] \in {"me", "runs"} THEN SignOut ELSE UNCHANGED pageVars
          /\ Done(q)
          /\ UNCHANGED overlapped
  /\ UNCHANGED <<tokenVars, clockVars, doomed, torn, reused, closed, broken>>

(* rotate stores the new pair and the request is made once more.  Fault: the *)
(* old pair stays.                                                         *)
StoredNever(q) == token[q]
Stored(q) == pair[q]

Granted(q) ==
  /\ at[q] = "granted"
  /\ held' = Stored(q)
  /\ Send(q, kind[q], held', TRUE)
  /\ token' = [token EXCEPT ![q] = None]
  /\ UNCHANGED <<tokenVars, clockVars, user, doomed, historyVars, broken>>

(* Any answer but a pair clears the tokens and signs out (!response.ok).     *)
Refused(q) ==
  /\ at[q] \in Refusals
  /\ SignOut
  /\ Done(q)
  /\ UNCHANGED <<tokenVars, clockVars, doomed, historyVars, broken>>

(* A request that throws: api.logout signs out all the same, loadSession too. *)
Failed(q) ==
  /\ at[q] = "broken"
  /\ \/ kind[q] = "logout" /\ Close(q)
     \/ kind[q] \in {"me", "runs"} /\ SignOut /\ Done(q) /\ UNCHANGED closed
     \/ kind[q] \in {"call", "login"} /\ Done(q) /\ UNCHANGED <<pageVars, closed>>
  /\ UNCHANGED <<tokenVars, clockVars, doomed, overlapped, torn, reused, broken>>

-----------------------------------------------------------------------------
(* The clock: pairs expire in the order of their issue, the access token of  *)
(* a pair before its refresh token.                                         *)
ExpireAccess ==
  /\ stale < issued /\ stale' = stale + 1
  /\ UNCHANGED <<tokenVars, expired, pageVars, requestVars, historyVars, broken>>

ExpireRefresh ==
  /\ expired < stale /\ expired' = expired + 1
  /\ UNCHANGED <<tokenVars, stale, pageVars, requestVars, historyVars, broken>>

Next ==
  \/ \E q \in Requests :
       \/ StartCall(q) \/ StartLogin(q) \/ StartLogout(q)
       \/ Answer(q) \/ Login(q) \/ Logout(q)
       \/ RefreshRead(q) \/ Rotate(q) \/ Revoke(q) \/ RefreshFails(q) \/ Break(q)
       \/ Receive(q) \/ Denied(q) \/ Granted(q) \/ Refused(q) \/ Failed(q)
  \/ Reload \/ ExpireAccess \/ ExpireRefresh

Spec == Init /\ [][Next]_vars

-----------------------------------------------------------------------------
(* Every variable stays within its type, and every token issued belongs to a *)
(* family that an earlier login, or the same, has opened.                   *)
TypeOK ==
  /\ issued \in 0 .. MaxPairs
  /\ family \in [Pairs -> {None} \cup Pairs]
  /\ \A n \in 1 .. issued : family[n] \in 1 .. n
  /\ revoked \subseteq 1 .. issued
  /\ stale \in 0 .. issued /\ expired \in 0 .. stale
  /\ held \in 0 .. issued /\ user \in BOOLEAN
  /\ at \in [Requests -> Locations]
  /\ kind \in [Requests -> Kinds]
  /\ pair \in [Requests -> 0 .. issued]
  /\ token \in [Requests -> 0 .. issued]
  /\ doomed \in [Requests -> SUBSET (1 .. issued)]
  /\ retried \in [Requests -> BOOLEAN]
  /\ overlapped \subseteq Pairs /\ torn \subseteq Pairs
  /\ reused \subseteq Pairs /\ closed \subseteq Pairs
  /\ broken \in 0 .. MaxBroken

(* Rotation keeps one live refresh token in a family, whatever is lost, as   *)
(* long as no two refreshes or logouts of it overlap (tokens.py, refresh).   *)
OneLiveToken ==
  \A f \in Pairs \ overlapped : Cardinality(LiveIn(f)) <= 1

(* A detected replay leaves no live token in the family, then or later,      *)
(* unless a rotation overlapped it (refresh, "revoke the entire family").    *)
ReplayKillsFamily ==
  \A f \in reused \ overlapped : LiveIn(f) = {}

(* The same without the exception, as SECURITY.md says it: "Using a rotated   *)
(* refresh token revokes every token in its family".                        *)
ReplayEndsFamily == \A f \in reused : LiveIn(f) = {}

(* A sign-out ends the session on both sides, then and later (logout,         *)
(* api.logout), in every family in which no refresh or sign-out overlapped    *)
(* another and every refresh and every sign-out had its answer.  The page may *)
(* hold a consumed token otherwise, whose logout is a no-op.                *)
SignOutComplete ==
  \A f \in closed \ (overlapped \cup torn) :
    LiveIn(f) = {} /\ (held # None => family[held] # f)

(* Once every request has settled, the token the page holds, if any, has not  *)
(* been revoked: its next 401 is not taken for a replay.  Excepted are        *)
(* families with two refreshes or sign-outs at once, and those in which a     *)
(* refresh or sign-out never had its answer (rotate, request).              *)
HeldIsLive ==
  (held # None /\ \A q \in Requests : at[q] = "idle")
     => held \notin revoked \/ family[held] \in overlapped \cup torn

(* A step that takes the page's tokens away ends a request q for one of these *)
(* reasons (request, rotate, api.logout, loadSession): the user signed out;   *)
(* the session could not be loaded; the refresh of q itself was answered with *)
(* an error; or with a 401, and then its token had expired, or its family had *)
(* two refreshes at once or one without an answer before.  A refresh that is  *)
(* alone, in time and follows no lost answer is never taken for a replay.    *)
SignOutReason(q) ==
  \/ kind[q] = "logout"
  \/ kind[q] \in {"me", "runs"} /\ (at[q] = "broken" \/ (at[q] = "denied" /\ retried[q]))
  \/ at[q] = "erred"
  \/ /\ at[q] = "refused"
     /\ token[q] <= expired \/ family[token[q]] \in overlapped \cup torn

SignOutExplained ==
  [][ held # None /\ held' = None
        => \E q \in Requests : at[q] # "idle" /\ at'[q] = "idle" /\ SignOutReason(q) ]_vars

=============================================================================
