---------------------------- MODULE SessionsProofs ----------------------------
(***************************************************************************)
(* Theorems of Sessions, for any number of requests, tokens and lost answers: *)
(* the types, the one live token of a family, the end of a replayed one, what *)
(* a sign-out leaves, the token the page holds, and why it is signed out.    *)
(***************************************************************************)
EXTENDS Sessions, FiniteSetTheorems, TLAPS

-----------------------------------------------------------------------------
(* Types.                                                                  *)

(* A request that is refreshing or signing out presents a token; a replay has *)
(* read tokens of the family it found.                                     *)
Presenting ==
  /\ \A q \in Requests :
       /\ at[q] \in OnServer \cup {"granted", "refused", "erred"} => token[q] # None
       /\ kind[q] = "logout" /\ at[q] # "idle"
            => token[q] # None /\ at[q] \in {"sent", "ok", "broken"}
       /\ at[q] = "revoking" => \A n \in doomed[q] : family[n] = family[token[q]]
  /\ reused \subseteq 1 .. issued

SInv == TypeOK /\ Presenting

LEMMA InitSInv == Init => SInv
<1> SUFFICES ASSUME Init PROVE SInv
  OBVIOUS
<1> USE BoundsAssumption DEF Init, None, Pairs
<1>1. TypeOK
  <2>1. family \in [Pairs -> {None} \cup Pairs] /\ issued \in 0 .. MaxPairs /\ broken \in 0 .. MaxBroken
    OBVIOUS
  <2>2. at \in [Requests -> Locations] /\ kind \in [Requests -> Kinds]
    BY DEF Locations, Refusals, Kinds
  <2>3. revoked \subseteq 1 .. issued /\ stale \in 0 .. issued /\ expired \in 0 .. stale /\ held \in 0 .. issued
    OBVIOUS
  <2>4. /\ pair \in [Requests -> 0 .. issued] /\ token \in [Requests -> 0 .. issued]
        /\ doomed \in [Requests -> SUBSET (1 .. issued)] /\ retried \in [Requests -> BOOLEAN]
    OBVIOUS
  <2>5. \A n \in 1 .. issued : FALSE
    OBVIOUS
  <2>6. overlapped \subseteq Pairs /\ torn \subseteq Pairs /\ reused \subseteq Pairs /\ closed \subseteq Pairs /\ user \in BOOLEAN
    OBVIOUS
  <2> QED
    BY ONLY <2>1, <2>2, <2>3, <2>4, <2>5, <2>6 DEF TypeOK
<1>2. Presenting
  BY DEF Presenting, OnServer, Refusals
<1> QED
  BY <1>1, <1>2 DEF SInv

(* What a token presented stands for.                                      *)
LEMMA TokenFamily ==
  ASSUME SInv, NEW n \in 1 .. issued
  PROVE  n \in Pairs /\ family[n] \in Pairs /\ family[n] \in 1 .. n
BY BoundsAssumption DEF SInv, TypeOK, Pairs, None

(* A step that issues nothing, and changes requests and page within their     *)
(* types.                                                                  *)
RequestTypes ==
  /\ at \in [Requests -> Locations] /\ kind \in [Requests -> Kinds]
  /\ pair \in [Requests -> 0 .. issued] /\ token \in [Requests -> 0 .. issued]
  /\ doomed \in [Requests -> SUBSET (1 .. issued)] /\ retried \in [Requests -> BOOLEAN]

LEMMA SameTokens ==
  ASSUME SInv, UNCHANGED <<issued, family>>, UNCHANGED revoked \/ revoked' \subseteq 1 .. issued,
         RequestTypes', UNCHANGED clockVars,
         held' \in 0 .. issued, user' \in BOOLEAN,
         overlapped' \subseteq Pairs, torn' \subseteq Pairs,
         reused' \subseteq Pairs, closed' \subseteq Pairs,
         broken' \in 0 .. MaxBroken
  PROVE  TypeOK'
BY DEF SInv, TypeOK, RequestTypes, clockVars

(* What a step does not change, or leaves without a token to present.        *)
Same(p) == /\ at'[p] = at[p] /\ kind'[p] = kind[p]
           /\ token'[p] = token[p] /\ doomed'[p] = doomed[p]
Plain(p) ==
  /\ at'[p] \notin OnServer \cup {"granted", "refused", "erred"}
  /\ \/ kind'[p] # "logout" \/ at'[p] = "idle"
     \/ /\ kind[p] = "logout" /\ at[p] # "idle" /\ token'[p] = token[p]
        /\ at'[p] \in {"sent", "ok", "broken"}

LEMMA SamePresenting ==
  ASSUME SInv, UNCHANGED <<issued, family, reused>>, \A p \in Requests : Same(p) \/ Plain(p)
  PROVE  Presenting'
BY DEF SInv, Presenting, Same, Plain, OnServer, Refusals

LEMMA SendTypes ==
  ASSUME SInv, NEW q \in Requests, NEW what \in Kinds, NEW carried \in 0 .. issued,
         NEW again \in BOOLEAN, Send(q, what, carried, again), issued' = issued,
         UNCHANGED doomed, token' = token \/ token' = [token EXCEPT ![q] = held] \/ token' = [token EXCEPT ![q] = None]
  PROVE  /\ RequestTypes'
         /\ \A p \in Requests \ {q} : Same(p)
         /\ at'[q] = "sent" /\ kind'[q] = what
<1>1. at' \in [Requests -> Locations] /\ kind' \in [Requests -> Kinds]
  BY DEF SInv, TypeOK, Send, Locations, Refusals
<1>2. pair' \in [Requests -> 0 .. issued] /\ token' \in [Requests -> 0 .. issued]
  BY DEF SInv, TypeOK, Send, None
<1>3. retried' \in [Requests -> BOOLEAN]
  BY DEF SInv, TypeOK, Send
<1> QED
  BY <1>1, <1>2, <1>3 DEF SInv, TypeOK, Send, RequestTypes, Same

LEMMA DoneTypes ==
  ASSUME SInv, NEW q \in Requests, Done(q), issued' = issued, UNCHANGED doomed
  PROVE  /\ RequestTypes'
         /\ \A p \in Requests \ {q} : Same(p)
         /\ at'[q] = "idle" /\ kind'[q] = "call" /\ Plain(q)
<1>1. at' \in [Requests -> Locations] /\ kind' \in [Requests -> Kinds]
  BY DEF SInv, TypeOK, Done, Locations, Refusals, Kinds
<1>2. pair' \in [Requests -> 0 .. issued] /\ token' \in [Requests -> 0 .. issued]
  BY DEF SInv, TypeOK, Done, None
<1>3. retried' \in [Requests -> BOOLEAN]
  BY DEF SInv, TypeOK, Done
<1>4. at'[q] = "idle" /\ kind'[q] = "call"
  BY DEF SInv, TypeOK, Done
<1> QED
  BY <1>1, <1>2, <1>3, <1>4 DEF SInv, TypeOK, Done, RequestTypes, Same, Plain, OnServer, Refusals

LEMMA MoveTypes ==
  ASSUME SInv, NEW q \in Requests, NEW where \in Locations, at' = [at EXCEPT ![q] = where],
         UNCHANGED <<kind, token, pair, retried, issued>>,
         doomed' = doomed \/ doomed' = [doomed EXCEPT ![q] = {}]
  PROVE  /\ RequestTypes'
         /\ \A p \in Requests \ {q} : Same(p)
         /\ at'[q] = where /\ kind'[q] = kind[q] /\ token'[q] = token[q]
BY DEF SInv, TypeOK, RequestTypes, Same

LEMMA UnansweredTypes ==
  ASSUME SInv, NEW some \in SUBSET Requests
  PROVE  torn \cup Unanswered(some) \subseteq Pairs
BY DEF SInv, TypeOK, Unanswered

LEMMA StepSInv == SInv /\ [Next]_vars => SInv'
<1> SUFFICES ASSUME SInv, [Next]_vars PROVE SInv'
  OBVIOUS
<1> USE BoundsAssumption
<1>a. ASSUME TypeOK', Presenting' PROVE SInv'
  BY <1>a DEF SInv
<1>b. /\ held \in 0 .. issued /\ user \in BOOLEAN /\ broken \in 0 .. MaxBroken
      /\ overlapped \subseteq Pairs /\ torn \subseteq Pairs /\ reused \subseteq Pairs /\ closed \subseteq Pairs
      /\ \A q \in Requests : kind[q] \in Kinds /\ pair[q] \in 0 .. issued /\ token[q] \in 0 .. issued
  BY DEF SInv, TypeOK
<1>c. held # None => held \in 1 .. issued /\ family[held] \in Pairs
  BY <1>b, TokenFamily DEF None
<1>i. UNCHANGED pageVars \/ SignOut => held' \in 0 .. issued /\ user' \in BOOLEAN
  <2>1. issued \in Nat
    BY DEF SInv, TypeOK
  <2>2. UNCHANGED pageVars \/ SignOut => held' \in 0 .. issued
    BY <1>b, <2>1 DEF None, SignOut, pageVars
  <2>3. UNCHANGED pageVars \/ SignOut => user' \in BOOLEAN
    BY <1>b, Zenon DEF SignOut, pageVars
  <2> QED
    BY <2>2, <2>3
<1>1. ASSUME NEW q \in Requests, StartCall(q) PROVE SInv'
  <2>1. Send(q, "call", held, FALSE) /\ UNCHANGED <<tokenVars, clockVars, pageVars, token, doomed, historyVars, broken>>
    BY <1>1 DEF StartCall
  <2>2. RequestTypes' /\ (\A p \in Requests \ {q} : Same(p)) /\ at'[q] = "sent" /\ kind'[q] = "call"
    BY <1>b, <2>1, SendTypes DEF Kinds, tokenVars
  <2>3. TypeOK'
    BY <1>b, <2>1, <2>2, SameTokens DEF tokenVars, pageVars, historyVars
  <2>4. Presenting'
    BY <2>1, <2>2, SamePresenting DEF tokenVars, historyVars, Plain, OnServer, Refusals
  <2> QED
    BY <1>a, <2>3, <2>4
<1>2. ASSUME NEW q \in Requests, StartLogin(q) PROVE SInv'
  <2>1. Send(q, "login", held, FALSE) /\ UNCHANGED <<tokenVars, clockVars, pageVars, token, doomed, historyVars, broken>>
    BY <1>2 DEF StartLogin
  <2>2. RequestTypes' /\ (\A p \in Requests \ {q} : Same(p)) /\ at'[q] = "sent" /\ kind'[q] = "login"
    BY <1>b, <2>1, SendTypes DEF Kinds, tokenVars
  <2>3. TypeOK'
    BY <1>b, <2>1, <2>2, SameTokens DEF tokenVars, pageVars, historyVars
  <2>4. Presenting'
    BY <2>1, <2>2, SamePresenting DEF tokenVars, historyVars, Plain, OnServer, Refusals
  <2> QED
    BY <1>a, <2>3, <2>4
<1>3. ASSUME NEW q \in Requests, StartLogout(q) PROVE SInv'
  <2>1. CASE Presented
    <3>1. /\ Send(q, "logout", held, FALSE) /\ Present(q)
          /\ UNCHANGED <<pageVars, doomed, closed, tokenVars, clockVars, torn, reused, broken>>
      BY <1>3, <2>1 DEF StartLogout
    <3>2. RequestTypes' /\ (\A p \in Requests \ {q} : Same(p)) /\ at'[q] = "sent" /\ kind'[q] = "logout"
      BY <1>b, <3>1, SendTypes DEF Kinds, tokenVars, Present
    <3>3. overlapped' \subseteq Pairs /\ token'[q] # None
      BY <1>b, <1>c, <2>1, <3>1 DEF Present, Presented, SInv, TypeOK
    <3>4. TypeOK'
      BY <1>b, <3>1, <3>2, <3>3, SameTokens DEF tokenVars, pageVars
    <3>5. Presenting'
      BY <3>1, <3>2, <3>3 DEF SInv, Presenting, Same, tokenVars, OnServer, Refusals
    <3> QED
      BY <1>a, <3>4, <3>5
  <2>2. CASE ~Presented
    <3>1. SignOut /\ UNCHANGED <<requestVars, overlapped, tokenVars, clockVars, torn, reused, broken>>
      BY <1>3, <2>2 DEF StartLogout
    <3>2. closed' \subseteq Pairs
      BY <1>3, <1>b, <1>c, <2>2 DEF StartLogout
    <3> QED
      <4>1. RequestTypes'
        BY <3>1 DEF SInv, TypeOK, RequestTypes, requestVars, tokenVars
      <4>2. TypeOK'
        BY <1>b, <1>i, <3>1, <3>2, <4>1, SameTokens DEF tokenVars
      <4>3. Presenting'
        BY <3>1, SamePresenting DEF requestVars, tokenVars, Same
      <4> QED
        BY <1>a, <4>2, <4>3
  <2> QED
    BY <2>1, <2>2
<1>4. ASSUME NEW q \in Requests, Answer(q) PROVE SInv'
  <2>1. PICK where \in {"ok", "denied"} : at' = [at EXCEPT ![q] = where]
    BY <1>4 DEF Answer
  <2>2. RequestTypes' /\ (\A p \in Requests \ {q} : Same(p)) /\ at'[q] = where /\ kind'[q] = kind[q]
    BY <1>4, <2>1, MoveTypes DEF Answer, tokenVars, Locations, Refusals
  <2>3. TypeOK'
    BY <1>4, <1>b, <2>2, SameTokens DEF Answer, tokenVars, pageVars, historyVars
  <2>4. Presenting'
    BY <1>4, <2>2, SamePresenting DEF Answer, tokenVars, historyVars, Plain, OnServer, Refusals
  <2> QED
    BY <1>a, <2>3, <2>4
<1>5. ASSUME NEW f \in {None} \cup (1 .. issued), Issue(f)
      PROVE  /\ issued' = issued + 1 /\ issued' \in Pairs /\ issued' \in 0 .. MaxPairs
             /\ family' \in [Pairs -> {None} \cup Pairs]
             /\ \A n \in 1 .. issued : n \in 1 .. issued' /\ family'[n] = family[n]
             /\ family'[issued'] = IF f = None THEN issued' ELSE f
             /\ \A n \in 1 .. issued' : family'[n] \in 1 .. n
  BY <1>5 DEF SInv, TypeOK, Issue, Pairs, None
<1>d. ASSUME issued' = issued + 1
      PROVE  0 .. issued \subseteq 0 .. issued' /\ 1 .. issued \subseteq 1 .. issued' /\ issued' \in 1 .. issued'
  BY <1>d DEF SInv, TypeOK
<1>e. ASSUME NEW f \in {None} \cup (1 .. issued), NEW q \in Requests, Issue(f), RequestTypes',
             UNCHANGED <<clockVars, pageVars, historyVars>>, broken' \in 0 .. MaxBroken,
             revoked' \subseteq 1 .. issued
      PROVE  TypeOK'
  <2>1. revoked' \subseteq 1 .. issued' /\ stale' \in 0 .. issued' /\ expired' \in 0 .. stale' /\ held' \in 0 .. issued'
    BY <1>5, <1>e, <1>d DEF SInv, TypeOK, clockVars, pageVars
  <2> QED
    BY <1>5, <1>e, <1>b, <2>1 DEF TypeOK, RequestTypes, pageVars, historyVars
<1>f. ASSUME NEW q \in Requests, NEW where \in Locations, issued' = issued + 1, at' = [at EXCEPT ![q] = where],
             pair' = [pair EXCEPT ![q] = issued'], UNCHANGED <<kind, token, doomed, retried>>
      PROVE  RequestTypes'
  <2>1. at' \in [Requests -> Locations]
    BY <1>f DEF SInv, TypeOK
  <2>2. pair' \in [Requests -> 0 .. issued']
    BY <1>f, <1>d DEF SInv, TypeOK
  <2>3. token' \in [Requests -> 0 .. issued'] /\ doomed' \in [Requests -> SUBSET (1 .. issued')]
    BY <1>f, <1>d DEF SInv, TypeOK
  <2> QED
    BY <1>f, <2>1, <2>2, <2>3 DEF SInv, TypeOK, RequestTypes
<1>g. ASSUME NEW f \in {None} \cup (1 .. issued), NEW q \in Requests, Issue(f), NEW where \in Locations,
             at' = [at EXCEPT ![q] = where],
             where \in OnServer \cup {"granted", "refused", "erred"} => token[q] # None,
             where # "revoking", kind[q] # "logout",
             UNCHANGED <<kind, token, doomed, reused>>
      PROVE  Presenting'
  <2>1. \A p \in Requests : doomed[p] \subseteq 1 .. issued
    BY DEF SInv, TypeOK
  <2>2. \A p \in Requests : at[p] = "revoking" => token[p] \in 1 .. issued
    BY <1>b DEF SInv, Presenting, OnServer, Refusals, None
  <2> QED
    BY <1>5, <1>g, <2>1, <2>2 DEF SInv, TypeOK, Presenting
<1>6. ASSUME NEW q \in Requests, Login(q) PROVE SInv'
  <2>1. CASE Issue(None) /\ at' = [at EXCEPT ![q] = "ok"] /\ pair' = [pair EXCEPT ![q] = issued']
    <3>1. UNCHANGED <<revoked, clockVars, pageVars, kind, token, doomed, retried, historyVars, broken>>
      BY <1>6 DEF Login
    <3>2. TypeOK'
      BY <1>5, <1>e, <1>f, <2>1, <3>1 DEF Locations, Refusals, SInv, TypeOK
    <3>3. Presenting'
      BY <1>6, <1>g, <2>1, <3>1 DEF Locations, Refusals, OnServer, historyVars, Login
    <3> QED
      BY <1>a, <3>2, <3>3
  <2>2. CASE at' = [at EXCEPT ![q] = "denied"] /\ UNCHANGED <<issued, family, pair>>
    <3>1. UNCHANGED <<revoked, clockVars, pageVars, kind, token, doomed, retried, historyVars, broken>>
      BY <1>6 DEF Login
    <3>2. RequestTypes' /\ (\A p \in Requests \ {q} : Same(p)) /\ at'[q] = "denied" /\ kind'[q] = kind[q]
      BY <2>2, <3>1, MoveTypes DEF Locations, Refusals
    <3>3. TypeOK'
      BY <1>b, <2>2, <3>1, <3>2, SameTokens DEF pageVars, historyVars
    <3>4. Presenting'
      BY <1>6, <2>2, <3>1, <3>2, SamePresenting DEF Login, historyVars, Plain, OnServer, Refusals
    <3> QED
      BY <1>a, <3>3, <3>4
  <2> QED
    BY <1>6, <2>1, <2>2 DEF Login
<1>7. ASSUME NEW q \in Requests, Logout(q) PROVE SInv'
  <2>1. RequestTypes' /\ (\A p \in Requests \ {q} : Same(p)) /\ at'[q] = "ok" /\ kind'[q] = kind[q] /\ token'[q] = token[q]
    BY <1>7, MoveTypes DEF Logout, Locations, Refusals
  <2>2. revoked' \subseteq 1 .. issued
    <3>1. token[q] \in 1 .. issued
      BY <1>7, <1>b DEF Logout, SInv, Presenting, None
    <3> QED
      BY <1>7, <3>1 DEF Logout, SInv, TypeOK
  <2>3. TypeOK'
    BY <1>7, <1>b, <2>1, <2>2, SameTokens DEF Logout, pageVars, historyVars
  <2>4. Presenting'
    BY <1>7, <2>1, SamePresenting DEF Logout, historyVars, Plain, OnServer, Refusals
  <2> QED
    BY <1>a, <2>3, <2>4
<1>8. ASSUME NEW q \in Requests, RefreshRead(q) PROVE SInv'
  <2>1. token[q] \in 1 .. issued
    BY <1>8, <1>b DEF SInv, Presenting, RefreshRead, OnServer, Refusals, None
  <2>2. RequestTypes'
    BY <1>8 DEF SInv, TypeOK, RefreshRead, Doomed, Family, RequestTypes, tokenVars, Locations, Refusals, OnServer
  <2>3. TypeOK'
    BY <1>8, <1>b, <2>2, SameTokens DEF RefreshRead, tokenVars, pageVars, historyVars
  <2>4. Presenting'
    BY <1>8, <2>1 DEF SInv, TypeOK, Presenting, RefreshRead, Doomed, Family, tokenVars, historyVars, OnServer, Refusals, None
  <2> QED
    BY <1>a, <2>3, <2>4
<1>9. ASSUME NEW q \in Requests, Rotate(q) PROVE SInv'
  <2>1. token[q] \in 1 .. issued /\ family[token[q]] \in 1 .. issued
    BY <1>9, <1>b DEF SInv, TypeOK, Presenting, Rotate, OnServer, Refusals, None
  <2>2. /\ Issue(family[token[q]]) /\ pair' = [pair EXCEPT ![q] = issued'] /\ Committed(q, "granted")
        /\ UNCHANGED <<clockVars, pageVars, kind, token, doomed, retried, historyVars>>
    BY <1>9 DEF Rotate
  <2>a. PICK where \in {"granted", "erred"} : at' = [at EXCEPT ![q] = where]
    BY <2>2 DEF Committed
  <2>b. broken' \in 0 .. MaxBroken
    BY <2>2, <1>b, BoundsAssumption DEF Committed
  <2>3. revoked' \subseteq 1 .. issued
    BY <1>9, <2>1 DEF Rotate, Consumed, SInv, TypeOK
  <2>4. TypeOK'
    BY <1>5, <1>e, <1>f, <2>1, <2>2, <2>3, <2>a, <2>b DEF Locations, Refusals, Committed
  <2>5. Presenting'
    <3>1. kind[q] # "logout"
      BY <1>9 DEF Rotate, SInv, Presenting
    <3>2. token[q] # None /\ where \in Locations /\ where # "revoking"
      BY <2>1 DEF None, Locations, Refusals
    <3> QED
      BY <1>g, <2>1, <2>2, <2>a, <3>1, <3>2 DEF historyVars
  <2> QED
    BY <1>a, <2>4, <2>5
<1>10. ASSUME NEW q \in Requests, Revoke(q) PROVE SInv'
  <2>1. token[q] \in 1 .. issued
    BY <1>10, <1>b DEF SInv, Presenting, Revoke, OnServer, Refusals, None
  <2>2. family[token[q]] \in 1 .. issued /\ family[token[q]] \in Pairs
    BY <2>1, TokenFamily DEF SInv, TypeOK
  <2>3. RequestTypes' /\ (\A p \in Requests \ {q} : Same(p)) /\ at'[q] \in Refusals /\ kind'[q] = kind[q] /\ token'[q] = token[q]
    <3>1. PICK where \in Refusals : at' = [at EXCEPT ![q] = where]
      BY <1>10 DEF Revoke, Committed, Refusals
    <3> QED
      BY <1>10, <3>1, MoveTypes DEF Revoke, Locations
  <2>a. broken' \in 0 .. MaxBroken
    BY <1>10, <1>b, BoundsAssumption DEF Revoke, Committed
  <2>4. revoked' \subseteq 1 .. issued /\ reused' \subseteq Pairs
    BY <1>10, <2>2 DEF Revoke, SInv, TypeOK
  <2>5. TypeOK'
    BY <1>10, <1>b, <2>a, <2>3, <2>4, SameTokens DEF Revoke, pageVars
  <2>6. Presenting'
    <3>1. family' = family /\ issued' = issued /\ reused' = reused \cup {family[token[q]]}
      BY <1>10 DEF Revoke
    <3>2. reused' \subseteq 1 .. issued'
      BY <2>2, <3>1 DEF SInv, Presenting
    <3>3. kind[q] # "logout" /\ token[q] # None
      BY <1>10, <2>1 DEF Revoke, SInv, Presenting, None
    <3>4. ASSUME NEW p \in Requests \ {q}
          PROVE  /\ at'[p] \in OnServer \cup {"granted", "refused", "erred"} => token'[p] # None
                 /\ kind'[p] = "logout" /\ at'[p] # "idle"
                      => token'[p] # None /\ at'[p] \in {"sent", "ok", "broken"}
                 /\ at'[p] = "revoking" => \A n \in doomed'[p] : family'[n] = family'[token'[p]]
      BY <2>3, <3>1, <3>4 DEF SInv, Presenting, Same
    <3>5. /\ token'[q] # None /\ kind'[q] # "logout" /\ at'[q] # "revoking"
      BY <2>3, <3>3 DEF Refusals
    <3> QED
      BY <3>2, <3>4, <3>5 DEF Presenting, OnServer, Refusals
  <2> QED
    BY <1>a, <2>5, <2>6
<1>11. ASSUME NEW q \in Requests, RefreshFails(q) PROVE SInv'
  <2>1. RequestTypes' /\ (\A p \in Requests \ {q} : Same(p)) /\ at'[q] = "erred" /\ kind'[q] = kind[q] /\ token'[q] = token[q]
    BY <1>11, MoveTypes DEF RefreshFails, Locations, Refusals, tokenVars
  <2>2. UNCHANGED <<tokenVars, clockVars, pageVars, historyVars>> /\ broken' \in 0 .. MaxBroken
    BY <1>11, <1>b DEF RefreshFails
  <2>3. TypeOK'
    BY <1>b, <2>1, <2>2, SameTokens DEF tokenVars, pageVars, historyVars
  <2>4. Presenting'
    BY <1>11, <2>1 DEF RefreshFails, tokenVars, historyVars, SInv, Presenting, Same, OnServer, Refusals
  <2> QED
    BY <1>a, <2>3, <2>4
<1>12. ASSUME NEW q \in Requests, Break(q) PROVE SInv'
  <2>1. RequestTypes' /\ (\A p \in Requests \ {q} : Same(p)) /\ at'[q] = "broken" /\ kind'[q] = kind[q] /\ token'[q] = token[q]
    BY <1>12, MoveTypes DEF Break, Locations, Refusals, tokenVars
  <2>2. torn' \subseteq Pairs /\ broken' \in 0 .. MaxBroken
    BY <1>12, <1>b, UnansweredTypes DEF Break
  <2>3. TypeOK'
    BY <1>12, <1>b, <2>1, <2>2, SameTokens DEF Break, tokenVars, pageVars
  <2>4. Presenting'
    BY <1>12, <2>1, SamePresenting DEF Break, tokenVars, Plain, OnServer, Refusals
  <2> QED
    BY <1>a, <2>3, <2>4
<1>13. ASSUME NEW q \in Requests, Close(q), kind[q] = "logout", at[q] # "idle"
       PROVE  closed' \subseteq Pairs /\ held' \in 0 .. issued /\ user' \in BOOLEAN /\ Done(q)
  <2>1. token[q] \in 1 .. issued
    BY <1>13, <1>b DEF SInv, Presenting, None
  <2>2. family[token[q]] \in Pairs
    BY <2>1, TokenFamily
  <2> QED
    BY <1>13, <1>b, <1>i, <2>2 DEF Close
<1>h. ASSUME NEW q \in Requests, RequestTypes', \A p \in Requests \ {q} : Same(p), Plain(q),
             UNCHANGED <<tokenVars, clockVars, torn, reused, broken>>, overlapped' \subseteq Pairs,
             closed' \subseteq Pairs, held' \in 0 .. issued, user' \in BOOLEAN
      PROVE  SInv'
  <2>1. TypeOK'
    BY <1>h, <1>b, SameTokens DEF tokenVars
  <2>2. Presenting'
    BY <1>h, SamePresenting DEF tokenVars
  <2> QED
    BY <1>a, <2>1, <2>2
<1>14. ASSUME NEW q \in Requests, Receive(q) PROVE SInv'
  <2>1. UNCHANGED <<tokenVars, clockVars, doomed, overlapped, torn, reused, broken>> /\ issued' = issued
    BY <1>14 DEF Receive, tokenVars
  <2>2. CASE Done(q) /\ UNCHANGED <<pageVars, closed>>
    BY <1>b, <1>h, <2>1, <2>2, DoneTypes DEF pageVars
  <2>3. ASSUME NEW what \in {"call", "runs", "me"}, NEW carried \in 0 .. issued, Send(q, what, carried, FALSE),
               token' = token, held' \in 0 .. issued, user' \in BOOLEAN, closed' = closed
        PROVE  SInv'
    <3>1. RequestTypes' /\ (\A p \in Requests \ {q} : Same(p)) /\ at'[q] = "sent" /\ kind'[q] = what
      BY <2>1, <2>3, SendTypes DEF Kinds
    <3>2. Plain(q)
      BY <3>1 DEF Plain, OnServer, Refusals
    <3> QED
      BY <1>b, <1>h, <2>1, <2>3, <3>1, <3>2
  <2>4. CASE kind[q] = "logout" /\ Close(q)
    <3>1. at[q] # "idle"
      BY <1>14 DEF Receive
    <3>2. Done(q) /\ closed' \subseteq Pairs /\ held' \in 0 .. issued /\ user' \in BOOLEAN
      BY <1>13, <2>4, <3>1
    <3>3. RequestTypes' /\ (\A p \in Requests \ {q} : Same(p)) /\ Plain(q)
      BY <2>1, <3>2, DoneTypes
    <3> QED
      BY <1>b, <1>h, <2>1, <3>2, <3>3
  <2>5. CASE Send(q, "call", held, FALSE) /\ UNCHANGED <<pageVars, token, closed>>
    BY <1>b, <2>3, <2>5 DEF pageVars
  <2>6. CASE Send(q, "runs", held, FALSE) /\ user' = TRUE /\ UNCHANGED <<held, token, closed>>
    BY <1>b, <2>3, <2>6
  <2>7. CASE Send(q, "me", pair[q], FALSE) /\ held' = pair[q] /\ UNCHANGED <<user, token, closed>>
    BY <1>b, <2>3, <2>7
  <2> QED
    BY <1>14, <2>2, <2>4, <2>5, <2>6, <2>7 DEF Receive
<1>15. ASSUME NEW q \in Requests, Denied(q) PROVE SInv'
  <2>1. UNCHANGED <<tokenVars, clockVars, doomed, torn, reused, closed, broken>> /\ issued' = issued
    BY <1>15 DEF Denied, tokenVars
  <2>2. CASE ~retried[q] /\ held # None
    <3>1. at' = [at EXCEPT ![q] = "refreshing"] /\ Present(q) /\ UNCHANGED <<pageVars, kind, pair, retried>>
      BY <1>15, <2>2 DEF Denied
    <3>2. RequestTypes'
      BY <1>b, <2>1, <3>1 DEF SInv, TypeOK, RequestTypes, Present, Locations, Refusals, OnServer
    <3>3. overlapped' \subseteq Pairs
      BY <1>b, <1>c, <2>2, <3>1 DEF Present
    <3>4. TypeOK'
      BY <1>b, <2>1, <3>1, <3>2, <3>3, SameTokens DEF pageVars, tokenVars
    <3>5. Presenting'
      <4>1. kind[q] # "logout"
        BY <1>15 DEF Denied, SInv, Presenting
      <4>2. token'[q] # None /\ at'[q] = "refreshing" /\ kind'[q] # "logout"
        BY <2>2, <3>1, <4>1 DEF SInv, TypeOK, Present
      <4>3. \A p \in Requests \ {q} : Same(p)
        BY <2>1, <3>1 DEF SInv, TypeOK, Present, Same
      <4> QED
        BY <2>1, <4>2, <4>3 DEF SInv, Presenting, Same, tokenVars, OnServer, Refusals
    <3> QED
      BY <1>a, <3>4, <3>5
  <2>3. CASE ~(~retried[q] /\ held # None)
    <3>1. Done(q) /\ UNCHANGED overlapped /\ (SignOut \/ UNCHANGED pageVars)
      BY <1>15, <2>3 DEF Denied
    <3>2. held' \in 0 .. issued /\ user' \in BOOLEAN
      BY <1>i, <3>1
    <3>3. RequestTypes' /\ (\A p \in Requests \ {q} : Same(p)) /\ Plain(q)
      BY <2>1, <3>1, DoneTypes
    <3> QED
      BY <1>b, <1>h, <2>1, <3>1, <3>2, <3>3
  <2> QED
    BY <2>2, <2>3
<1>16. ASSUME NEW q \in Requests, Granted(q) PROVE SInv'
  <2>1. /\ held' = pair[q] /\ Send(q, kind[q], held', TRUE) /\ token' = [token EXCEPT ![q] = None]
        /\ UNCHANGED <<tokenVars, clockVars, user, doomed, historyVars, broken>>
    BY <1>16 DEF Granted, Stored
  <2>2. RequestTypes' /\ (\A p \in Requests \ {q} : Same(p)) /\ at'[q] = "sent" /\ kind'[q] = kind[q]
    BY <1>b, <2>1, SendTypes DEF tokenVars
  <2>3. kind[q] # "logout"
    BY <1>16 DEF SInv, Presenting, Granted
  <2>4. Plain(q)
    BY <2>2, <2>3 DEF Plain, OnServer, Refusals
  <2> QED
    BY <1>b, <1>h, <2>1, <2>2, <2>4 DEF historyVars
<1>17. ASSUME NEW q \in Requests, Refused(q) PROVE SInv'
  <2>1. Done(q) /\ SignOut /\ UNCHANGED <<tokenVars, clockVars, doomed, historyVars, broken>>
    BY <1>17 DEF Refused
  <2>2. held' \in 0 .. issued /\ user' \in BOOLEAN
    BY <1>i, <2>1
  <2>3. RequestTypes' /\ (\A p \in Requests \ {q} : Same(p)) /\ Plain(q)
    BY <2>1, DoneTypes DEF tokenVars
  <2> QED
    BY <1>b, <1>h, <2>1, <2>2, <2>3 DEF historyVars
<1>18. ASSUME NEW q \in Requests, Failed(q) PROVE SInv'
  <2>1. UNCHANGED <<tokenVars, clockVars, doomed, overlapped, torn, reused, broken>> /\ issued' = issued /\ at[q] # "idle"
    BY <1>18 DEF Failed, tokenVars
  <2>2. Done(q) /\ closed' \subseteq Pairs /\ held' \in 0 .. issued /\ user' \in BOOLEAN
    <3>1. CASE kind[q] = "logout" /\ Close(q)
      BY <1>13, <2>1, <3>1
    <3>2. CASE Done(q) /\ (SignOut \/ UNCHANGED pageVars) /\ UNCHANGED closed
      BY <1>b, <1>i, <3>2
    <3> QED
      BY <1>18, <3>1, <3>2 DEF Failed, pageVars
  <2>3. RequestTypes' /\ (\A p \in Requests \ {q} : Same(p)) /\ Plain(q)
    BY <2>1, <2>2, DoneTypes
  <2> QED
    BY <1>b, <1>h, <2>1, <2>2, <2>3
<1>19. CASE Reload
  <2>1. UNCHANGED <<tokenVars, clockVars, held, doomed, overlapped, reused, closed>> /\ user' = FALSE
    BY <1>19 DEF Reload
  <2>2. /\ \A p \in Requests : Plain(p)
        /\ RequestTypes'
    BY <1>19, <1>b, <2>1 DEF Reload, RequestTypes, Plain, OnServer, Refusals, Locations, Kinds, None, tokenVars, SInv, TypeOK
  <2>3. torn' \subseteq Pairs /\ broken' \in 0 .. MaxBroken
    BY <1>19, <1>b, UnansweredTypes DEF Reload
  <2>4. TypeOK'
    BY <1>b, <2>1, <2>2, <2>3, SameTokens DEF tokenVars
  <2>5. Presenting'
    BY <2>1, <2>2, SamePresenting DEF tokenVars
  <2> QED
    BY <1>a, <2>4, <2>5
<1>20. CASE ExpireAccess \/ ExpireRefresh \/ UNCHANGED vars
  <2>1. stale' \in 0 .. issued /\ expired' \in 0 .. stale'
    BY <1>20 DEF SInv, TypeOK, ExpireAccess, ExpireRefresh, vars, clockVars
  <2>2. UNCHANGED <<tokenVars, pageVars, requestVars, historyVars, broken>>
    BY <1>20 DEF ExpireAccess, ExpireRefresh, vars
  <2> QED
    BY <2>1, <2>2 DEF SInv, TypeOK, Presenting, tokenVars, pageVars, requestVars, historyVars
<1> QED
  BY <1>1, <1>2, <1>3, <1>4, <1>6, <1>7, <1>8, <1>9, <1>10, <1>11, <1>12, <1>14, <1>15, <1>16,
     <1>17, <1>18, <1>19, <1>20 DEF Next

(* Every variable of Sessions keeps its type, and every token belongs to a     *)
(* family that it or an earlier one has opened (_issue_pair).                *)
THEOREM SessionsTypeCorrect == Spec => []TypeOK
<1>1. Spec => []SInv
  BY InitSInv, StepSInv, PTL DEF Spec
<1> QED
  BY <1>1, PTL DEF SInv

-----------------------------------------------------------------------------
(* One live token in a family.                                             *)

(* Where no two refreshes or sign-outs of a family overlapped, at most one is  *)
(* in flight; the token it rotates is the live one, and what a replay has read *)
(* covers it.                                                              *)
AloneIn(f) ==
  /\ \A p, q \in Requests : InFlight(p, f) /\ InFlight(q, f) => p = q
  /\ \A m, n \in LiveIn(f) : m = n
  /\ \A q \in Requests : at[q] = "rotating" /\ family[token[q]] = f => token[q] \notin revoked
  /\ \A q \in Requests : at[q] = "revoking" /\ family[token[q]] = f => LiveIn(f) \subseteq doomed[q]
  /\ f \in reused => LiveIn(f) = {}

Alone == \A f \in Pairs \ overlapped : AloneIn(f)

Busy(q) == at[q] \in OnServer \cup {"granted", "refused", "erred"} \/ (kind[q] = "logout" /\ at[q] \in {"sent", "ok"})

LEMMA InFlightBusy ==
  \A q, f : InFlight(q, f) <=> (Busy(q) /\ family[token[q]] = f)
BY DEF InFlight, Busy, Refusals

LEMMA InitAlone == Init => Alone
BY DEF Init, Alone, AloneIn, InFlight, OnServer, Refusals, LiveIn, Family

(* A step that changes no token, and brings no request to the server.         *)
LEMMA QuietStep ==
  ASSUME NEW f, AloneIn(f), UNCHANGED <<tokenVars, reused>>,
         \A q \in Requests : Busy(q)' => Busy(q) /\ token'[q] = token[q],
         \A q \in Requests : at'[q] \in {"rotating", "revoking"}
                               => at'[q] = at[q] /\ doomed'[q] = doomed[q]
  PROVE  AloneIn(f)'
<1>1. \A q \in Requests : InFlight(q, f)' => InFlight(q, f)
  BY DEF InFlight, Busy, Refusals, tokenVars
<1>2. LiveIn(f)' = LiveIn(f)
  BY DEF LiveIn, Family, tokenVars
<1>3. \A q \in Requests : at'[q] \in {"rotating", "revoking"}
                            => at'[q] = at[q] /\ doomed'[q] = doomed[q] /\ token'[q] = token[q]
  BY DEF Busy, OnServer, Refusals
<1> QED
  BY <1>1, <1>2, <1>3 DEF AloneIn, tokenVars

LEMMA StepAlone == SInv /\ Alone /\ [Next]_vars => Alone'
<1> SUFFICES ASSUME SInv, Alone, [Next]_vars, NEW f \in Pairs \ overlapped'
             PROVE  AloneIn(f)'
  BY DEF Alone, Pairs
<1>1. overlapped \subseteq overlapped'
  BY DEF Next, vars, historyVars, StartCall, StartLogin, StartLogout, Answer, Login, Logout, RefreshRead,
         Rotate, Revoke, RefreshFails, Break, Receive, Denied, Granted, Refused, Failed, Reload, Present,
         ExpireAccess, ExpireRefresh
<1>2. AloneIn(f)
  BY <1>1 DEF Alone
<1>3. /\ \A p \in Requests : token[p] \in 0 .. issued
      /\ \A p \in Requests : Busy(p) => token[p] \in 1 .. issued /\ token[p] \in Pairs
  BY TokenFamily DEF SInv, TypeOK, Presenting, Busy, None
<1>4. at \in [Requests -> Locations] /\ kind \in [Requests -> Kinds] /\ token \in [Requests -> 0 .. issued]
      /\ doomed \in [Requests -> SUBSET (1 .. issued)]
  BY DEF SInv, TypeOK
<1>5. ASSUME NEW q \in Requests, Present(q), held # None, UNCHANGED <<tokenVars, reused, doomed>>,
             \A p \in Requests \ {q} : at'[p] = at[p] /\ kind'[p] = kind[p],
             at'[q] \notin {"rotating", "revoking"}
      PROVE  AloneIn(f)'
  <2>1. \A p \in Requests \ {q} : token'[p] = token[p]
    BY <1>5, <1>4 DEF Present
  <2>2. token'[q] = held
    BY <1>5, <1>4 DEF Present
  <2>3. \A p \in Requests \ {q} : InFlight(p, f)' <=> InFlight(p, f)
    BY <1>5, <2>1 DEF InFlight, tokenVars
  <2>4. InFlight(q, f)' => \A p \in Requests \ {q} : ~InFlight(p, f)
    BY <1>5, <2>2 DEF InFlight, tokenVars, Present
  <2>5. LiveIn(f)' = LiveIn(f)
    BY <1>5 DEF LiveIn, Family, tokenVars
  <2>6. \A p, r \in Requests : InFlight(p, f)' /\ InFlight(r, f)' => p = r
    BY <1>2, <2>3, <2>4 DEF AloneIn
  <2>7. \A p \in Requests : at'[p] \in {"rotating", "revoking"}
                              => at'[p] = at[p] /\ token'[p] = token[p] /\ doomed'[p] = doomed[p]
    BY <1>5, <2>1
  <2> QED
    BY <1>2, <1>5, <2>5, <2>6, <2>7 DEF AloneIn, tokenVars
<1>6. ASSUME NEW q \in Requests, StartLogout(q) PROVE AloneIn(f)'
  <2>1. CASE Presented
    BY <1>4, <1>5, <1>6, <2>1 DEF StartLogout, Presented, Send
  <2>2. CASE ~Presented
    BY <1>2, <1>6, <2>2, QuietStep DEF StartLogout, requestVars, Busy
  <2> QED
    BY <2>1, <2>2
<1>7. ASSUME NEW q \in Requests, Denied(q) PROVE AloneIn(f)'
  <2>1. CASE ~retried[q] /\ held # None
    BY <1>4, <1>5, <1>7, <2>1 DEF Denied
  <2>2. CASE ~(~retried[q] /\ held # None)
    BY <1>2, <1>4, <1>7, <2>2, QuietStep DEF Denied, Done, Busy, OnServer, Refusals
  <2> QED
    BY <2>1, <2>2
<1>8. ASSUME NEW q \in Requests, Logout(q) PROVE AloneIn(f)'
  <2>1. /\ UNCHANGED <<issued, family, reused, token, doomed, kind>> /\ revoked' = revoked \cup {token[q]}
        /\ at'[q] = "ok" /\ \A p \in Requests \ {q} : at'[p] = at[p]
    BY <1>4, <1>8 DEF Logout, historyVars
  <2>2. InFlight(q, family[token[q]])
    BY <1>8 DEF Logout, InFlight
  <2>3. \A p \in Requests : InFlight(p, f)' <=> InFlight(p, f)
    BY <1>8, <2>1 DEF InFlight, Logout, OnServer, Refusals
  <2>4. LiveIn(f)' \subseteq LiveIn(f)
    BY <2>1 DEF LiveIn, Family
  <2>5. \A p \in Requests : at'[p] = "rotating" /\ family[token[p]] = f => token[p] \notin revoked'
    <3> SUFFICES ASSUME NEW p \in Requests, at'[p] = "rotating", family[token[p]] = f, token[p] = token[q]
                 PROVE  FALSE
      BY <1>2, <2>1 DEF AloneIn
    <3>1. InFlight(p, f)
      BY <2>1 DEF InFlight, OnServer, Refusals
    <3> QED
      BY <1>2, <2>1, <2>2, <3>1 DEF AloneIn
  <2> QED
    BY <1>2, <2>1, <2>3, <2>4, <2>5 DEF AloneIn
<1>9. ASSUME NEW q \in Requests, RefreshRead(q) PROVE AloneIn(f)'
  <2>1. /\ UNCHANGED <<tokenVars, reused, token, kind>> /\ at'[q] \in {"revoking", "refused", "rotating"}
        /\ \A p \in Requests \ {q} : at'[p] = at[p] /\ doomed'[p] = doomed[p]
    BY <1>4, <1>9 DEF RefreshRead, historyVars
  <2>2. \A p \in Requests : InFlight(p, f)' <=> InFlight(p, f)
    BY <1>9, <2>1 DEF InFlight, RefreshRead, tokenVars, OnServer, Refusals
  <2>3. LiveIn(f)' = LiveIn(f)
    BY <2>1 DEF LiveIn, Family, tokenVars
  <2>4. at'[q] = "rotating" => token[q] \notin revoked
    BY <1>4, <1>9 DEF RefreshRead
  <2>5. at'[q] = "revoking" /\ family[token[q]] = f => LiveIn(f) \subseteq doomed'[q]
    BY <1>4, <1>9 DEF RefreshRead, Doomed, LiveIn
  <2> QED
    BY <1>2, <2>1, <2>2, <2>3, <2>4, <2>5 DEF AloneIn, tokenVars
<1>10. ASSUME NEW q \in Requests, Revoke(q) PROVE AloneIn(f)'
  <2>1. /\ UNCHANGED <<issued, family, token, kind>> /\ revoked' = revoked \cup doomed[q]
        /\ at[q] = "revoking" /\ at'[q] \in Refusals /\ reused' = reused \cup {family[token[q]]}
        /\ \A p \in Requests \ {q} : at'[p] = at[p] /\ doomed'[p] = doomed[p]
    BY <1>4, <1>10 DEF Revoke, Committed, Refusals
  <2>2. \A p \in Requests : InFlight(p, f)' <=> InFlight(p, f)
    BY <2>1 DEF InFlight, OnServer, Refusals
  <2>3. LiveIn(f)' \subseteq LiveIn(f) /\ LiveIn(f)' \cap doomed[q] = {}
    BY <2>1 DEF LiveIn, Family
  <2>4. \A n \in doomed[q] : family[n] = family[token[q]]
    BY <2>1 DEF SInv, Presenting
  <2>5. ASSUME NEW p \in Requests, at'[p] = "rotating", family[token[p]] = f PROVE token[p] \notin revoked'
    <3>1. p # q /\ at[p] = "rotating"
      BY <2>1, <2>5 DEF Refusals
    <3> SUFFICES ASSUME token[p] \in doomed[q] PROVE FALSE
      BY <1>2, <2>1, <2>5, <3>1 DEF AloneIn
    <3>2. InFlight(p, f) /\ InFlight(q, f)
      BY <2>1, <2>4, <2>5, <3>1 DEF InFlight, OnServer, Refusals
    <3> QED
      BY <1>2, <3>1, <3>2 DEF AloneIn
  <2>6. family[token[q]] = f => LiveIn(f)' = {}
    BY <1>2, <2>1, <2>3 DEF AloneIn
  <2> QED
    BY <1>2, <2>1, <2>2, <2>3, <2>5, <2>6 DEF AloneIn, Refusals
<1>11. ASSUME NEW g \in {None} \cup (1 .. issued), Issue(g)
       PROVE  /\ issued' = issued + 1 /\ issued' \notin 1 .. issued
              /\ family'[issued'] = IF g = None THEN issued' ELSE g
              /\ \A n \in 1 .. issued : n \in 1 .. issued' /\ family'[n] = family[n] /\ family[n] # issued'
              /\ Family(f)' = Family(f) \cup (IF family'[issued'] = f THEN {issued'} ELSE {})
  <2>1. /\ issued' = issued + 1 /\ issued' \notin 1 .. issued /\ issued' \in 1 .. issued'
        /\ family'[issued'] = IF g = None THEN issued' ELSE g
        /\ \A n \in 1 .. issued : n \in 1 .. issued' /\ family'[n] = family[n]
        /\ \A n \in 1 .. issued' : n \in 1 .. issued \/ n = issued'
    BY <1>11, BoundsAssumption DEF Issue, SInv, TypeOK, Pairs
  <2>2. \A n \in 1 .. issued : family[n] # issued'
    BY <2>1 DEF SInv, TypeOK
  <2> QED
    BY <2>1, <2>2 DEF Family
<1>12. ASSUME NEW q \in Requests, Login(q) PROVE AloneIn(f)'
  <2>1. CASE UNCHANGED <<issued, family>> /\ at' = [at EXCEPT ![q] = "denied"]
    BY <1>2, <1>4, <1>12, <2>1, QuietStep DEF Login, Busy, OnServer, Refusals, tokenVars, historyVars
  <2>2. CASE Issue(None) /\ at' = [at EXCEPT ![q] = "ok"]
    <3>1. /\ UNCHANGED <<revoked, reused, token, kind, doomed>> /\ kind[q] = "login"
          /\ at'[q] = "ok" /\ \A p \in Requests \ {q} : at'[p] = at[p]
      BY <1>4, <1>12, <2>2 DEF Login, historyVars
    <3>2. Family(f)' = Family(f) \cup (IF issued' = f THEN {issued'} ELSE {})
      BY <1>11, <2>2
    <3>3. \A p \in Requests : Busy(p)' => Busy(p) /\ family'[token[p]] = family[token[p]]
      BY <1>3, <1>11, <2>2, <3>1 DEF Busy, OnServer, Refusals
    <3>4. \A p \in Requests : InFlight(p, f)' => InFlight(p, f)
      BY <3>1, <3>3, InFlightBusy DEF InFlight, Busy, Refusals
    <3>5. \A p \in Requests : at'[p] \in {"rotating", "revoking"}
                                => at'[p] = at[p] /\ family'[token[p]] = family[token[p]]
      BY <3>1, <3>3 DEF Busy, OnServer, Refusals
    <3>6. CASE issued' = f
      <4>1. Family(f) = {} /\ f \notin reused /\ \A p \in Requests : ~InFlight(p, f)
        BY <1>3, <1>11, <2>2, <3>6, InFlightBusy DEF Family, SInv, Presenting
      <4>2. LiveIn(f)' \subseteq {issued'}
        BY <3>2, <4>1 DEF LiveIn
      <4>3. \A p \in Requests : at'[p] \in {"rotating", "revoking"} => family'[token[p]] # f
        BY <3>5, <4>1 DEF InFlight, OnServer, Refusals
      <4> QED
        BY <3>1, <3>4, <4>1, <4>2, <4>3 DEF AloneIn
    <3>7. CASE issued' # f
      <4>1. LiveIn(f)' = LiveIn(f)
        BY <3>1, <3>2, <3>7 DEF LiveIn
      <4> QED
        BY <1>2, <3>1, <3>4, <3>5, <4>1 DEF AloneIn
    <3> QED
      BY <3>6, <3>7
  <2> QED
    BY <1>12, <2>1, <2>2 DEF Login
<1>13. ASSUME NEW q \in Requests, Rotate(q) PROVE AloneIn(f)'
  <2> DEFINE g == family[token[q]]
  <2>1. /\ UNCHANGED <<reused, token, kind, doomed>> /\ Issue(g) /\ revoked' = revoked \cup {token[q]}
        /\ at[q] = "rotating" /\ at'[q] \in {"granted", "erred"} /\ \A p \in Requests \ {q} : at'[p] = at[p]
    BY <1>4, <1>13 DEF Rotate, Committed, Consumed, historyVars
  <2>2. token[q] \in 1 .. issued /\ g \in 1 .. issued /\ g # None
    BY <1>3, <2>1, TokenFamily DEF Busy, OnServer, Refusals, SInv, TypeOK, None
  <2>3. /\ issued' \notin 1 .. issued /\ Family(f)' = Family(f) \cup (IF g = f THEN {issued'} ELSE {})
        /\ \A n \in 1 .. issued : family'[n] = family[n]
    BY <1>11, <2>1, <2>2
  <2>4. \A p \in Requests : Busy(p)' => Busy(p) /\ family'[token[p]] = family[token[p]]
    BY <1>3, <2>1, <2>3 DEF Busy, OnServer, Refusals
  <2>5. \A p \in Requests : InFlight(p, f)' => InFlight(p, f)
    BY <2>1, <2>4, InFlightBusy DEF InFlight, Busy, Refusals
  <2>6. \A p \in Requests : at'[p] \in {"rotating", "revoking"}
                              => /\ p # q /\ at'[p] = at[p] /\ family'[token[p]] = family[token[p]]
                                 /\ InFlight(p, family[token[p]])
    BY <2>1, <2>4 DEF Busy, InFlight, OnServer, Refusals
  <2>7. InFlight(q, g)
    BY <2>1 DEF InFlight, OnServer, Refusals
  <2>8. CASE g = f
    <3>1. LiveIn(f) = {token[q]}
      BY <1>2, <2>1, <2>2, <2>8 DEF AloneIn, LiveIn, Family
    <3>2. LiveIn(f)' \subseteq {issued'}
      BY <2>1, <2>3, <2>8, <3>1 DEF LiveIn
    <3>3. f \notin reused
      BY <1>2, <3>1 DEF AloneIn
    <3>4. \A p \in Requests : at'[p] \in {"rotating", "revoking"} => family'[token[p]] # f
      BY <1>2, <2>6, <2>7, <2>8 DEF AloneIn
    <3> QED
      BY <1>2, <2>1, <2>5, <3>2, <3>3, <3>4 DEF AloneIn
  <2>9. CASE g # f
    <3>1. LiveIn(f)' \subseteq LiveIn(f)
      BY <2>1, <2>3, <2>9 DEF LiveIn
    <3>2. \A p \in Requests : family[token[p]] = f => token[p] # token[q]
      BY <2>9
    <3> QED
      BY <1>2, <2>1, <2>5, <2>6, <3>1, <3>2 DEF AloneIn
  <2> QED
    BY <2>8, <2>9
<1>14. ASSUME NEW q \in Requests, StartCall(q) \/ StartLogin(q) \/ Granted(q) \/ Refused(q) PROVE AloneIn(f)'
  <2>1. UNCHANGED <<tokenVars, reused, doomed>> /\ \A p \in Requests \ {q} : at'[p] = at[p] /\ kind'[p] = kind[p] /\ token'[p] = token[p]
    BY <1>4, <1>14 DEF StartCall, StartLogin, Granted, Refused, Send, Done, historyVars
  <2>2. ~Busy(q)'
    BY <1>4, <1>14 DEF StartCall, StartLogin, Granted, Refused, Send, Done, Busy, OnServer, Refusals, SInv, Presenting
  <2>3. /\ \A p \in Requests : Busy(p)' => Busy(p) /\ token'[p] = token[p]
        /\ \A p \in Requests : at'[p] \in {"rotating", "revoking"} => at'[p] = at[p] /\ doomed'[p] = doomed[p]
    BY <2>1, <2>2 DEF Busy, OnServer, Refusals
  <2> QED
    BY <1>2, <2>1, <2>3, QuietStep
<1>15. ASSUME NEW q \in Requests, Answer(q) \/ Receive(q) \/ Failed(q) PROVE AloneIn(f)'
  <2>1. UNCHANGED <<tokenVars, reused, doomed>> /\ \A p \in Requests \ {q} : at'[p] = at[p] /\ kind'[p] = kind[p] /\ token'[p] = token[p]
    BY <1>4, <1>15 DEF Answer, Receive, Failed, Send, Done, Close, historyVars
  <2>2. ~Busy(q)'
    BY <1>4, <1>15 DEF Answer, Receive, Failed, Send, Done, Close, Busy, OnServer, Refusals
  <2>3. /\ \A p \in Requests : Busy(p)' => Busy(p) /\ token'[p] = token[p]
        /\ \A p \in Requests : at'[p] \in {"rotating", "revoking"} => at'[p] = at[p] /\ doomed'[p] = doomed[p]
    BY <2>1, <2>2 DEF Busy, OnServer, Refusals
  <2> QED
    BY <1>2, <2>1, <2>3, QuietStep
<1>16. ASSUME NEW q \in Requests, RefreshFails(q) \/ Break(q) PROVE AloneIn(f)'
  <2>1. /\ UNCHANGED <<tokenVars, reused, kind, token>>
        /\ \A p \in Requests \ {q} : at'[p] = at[p] /\ doomed'[p] = doomed[p]
    BY <1>4, <1>16 DEF RefreshFails, Break, historyVars
  <2>2. Busy(q)' => Busy(q) /\ at'[q] = "erred"
    BY <1>4, <1>16 DEF RefreshFails, Break, Busy, OnServer, Refusals
  <2>3. /\ \A p \in Requests : Busy(p)' => Busy(p) /\ token'[p] = token[p]
        /\ \A p \in Requests : at'[p] \in {"rotating", "revoking"} => at'[p] = at[p] /\ doomed'[p] = doomed[p]
    BY <2>1, <2>2 DEF Busy, OnServer, Refusals
  <2> QED
    BY <1>2, <2>1, <2>3, QuietStep
<1>17. CASE Reload
  <2>1. \A p \in Requests : ~Busy(p)'
    BY <1>17 DEF Reload, Busy, OnServer, Refusals
  <2> QED
    BY <1>2, <1>17, <2>1, QuietStep DEF Reload
<1>18. CASE ExpireAccess \/ ExpireRefresh \/ UNCHANGED vars
  <2>1. UNCHANGED <<tokenVars, requestVars, historyVars>>
    BY <1>18 DEF ExpireAccess, ExpireRefresh, vars
  <2> QED
    BY <1>2, <2>1, QuietStep DEF requestVars, historyVars, Busy
<1> QED
  BY <1>6, <1>7, <1>8, <1>9, <1>10, <1>12, <1>13, <1>14, <1>15, <1>16, <1>17, <1>18 DEF Next

LEMMA AloneInvariant == Spec => [](SInv /\ Alone)
BY InitSInv, StepSInv, InitAlone, StepAlone, PTL DEF Spec

(* Rotation keeps one live refresh token in a family, whatever is lost, as long *)
(* as no two refreshes or sign-outs of it overlap, for any requests (refresh).  *)
THEOREM OneLive == Spec => []OneLiveToken
<1>1. Alone => OneLiveToken
  <2> SUFFICES ASSUME Alone, NEW f \in Pairs \ overlapped PROVE Cardinality(LiveIn(f)) <= 1
    BY DEF OneLiveToken
  <2>1. CASE LiveIn(f) = {}
    <3>1. Cardinality({}) = 0
      BY FS_EmptySet, Zenon
    <3> QED
      BY <2>1, <3>1
  <2>2. CASE LiveIn(f) # {}
    <3>1. PICK n \in LiveIn(f) : LiveIn(f) = {n}
      BY <2>2 DEF Alone, AloneIn
    <3>2. Cardinality({n}) = 1
      BY FS_Singleton, Zenon
    <3> QED
      BY <3>1, <3>2
  <2> QED
    BY <2>1, <2>2
<1> QED
  BY <1>1, AloneInvariant, PTL

(* A replay that was detected leaves no live token in the family, then or later, *)
(* unless a rotation overlapped it (refresh).                               *)
THEOREM ReplaysEndFamilies == Spec => []ReplayKillsFamily
<1>1. SInv /\ Alone => ReplayKillsFamily
  BY DEF Alone, AloneIn, ReplayKillsFamily, SInv, TypeOK
<1> QED
  BY <1>1, AloneInvariant, PTL
-----------------------------------------------------------------------------
(* Who holds the live token of a family.                                     *)

HeldIn(f) == held # None /\ family[held] = f
SignedIn(q, f) == at[q] = "ok" /\ kind[q] = "login" /\ family[pair[q]] = f

(* Only one login is under way, an answer with a pair brings one, what was cut *)
(* off is recorded, and every family was opened by a login.                  *)
Answering ==
  /\ \A p, q \in Requests :
       at[p] # "idle" /\ at[q] # "idle" /\ kind[p] = "login" /\ kind[q] = "login" => p = q
  /\ \A q \in Requests :
       /\ at[q] = "granted" \/ (at[q] = "ok" /\ kind[q] = "login") => pair[q] # None
       /\ at[q] = "granted" => family[pair[q]] = family[token[q]]
       /\ at[q] = "broken" /\ kind[q] = "logout" => family[token[q]] \in torn
  /\ closed \subseteq 1 .. issued

(* In a family whose refreshes and sign-outs never overlapped and were all      *)
(* answered, the page, a request or a login has the live token in hand, and    *)
(* only one of them; once the user has signed out, nobody has.                *)
Custody(f) ==
  /\ HeldIn(f) => /\ \A q \in Requests : InFlight(q, f) => held = token[q]
                  /\ (\A q \in Requests : ~InFlight(q, f)) => LiveIn(f) = {held}
  /\ \A q \in Requests : InFlight(q, f) =>
       /\ at[q] # "revoking"
       /\ at[q] \in {"refreshing", "rotating", "sent"} => LiveIn(f) = {token[q]}
       /\ at[q] = "granted" => LiveIn(f) = {pair[q]}
       /\ at[q] = "ok" => LiveIn(f) = {}
       /\ at[q] = "refused" => token[q] <= expired
  /\ \A q \in Requests : SignedIn(q, f) =>
       LiveIn(f) = {pair[q]} /\ ~HeldIn(f) /\ \A p \in Requests : ~InFlight(p, f)
  /\ f \in closed =>
       /\ LiveIn(f) = {} /\ ~HeldIn(f)
       /\ \A q \in Requests : ~InFlight(q, f) /\ ~SignedIn(q, f)

InCustody == \A f \in Pairs \ (overlapped \cup torn) : Custody(f)

LEMMA InitCustody == Init => Answering /\ InCustody
BY DEF Init, Answering, InCustody, Custody, HeldIn, SignedIn, InFlight, OnServer, Refusals, None

LEMMA StepAnswering == SInv /\ Answering /\ [Next]_vars => Answering'
<1> SUFFICES ASSUME SInv, Answering, [Next]_vars PROVE Answering'
  OBVIOUS
<1>1. /\ at \in [Requests -> Locations] /\ kind \in [Requests -> Kinds] /\ issued \in Nat
      /\ pair \in [Requests -> 0 .. issued] /\ token \in [Requests -> 0 .. issued]
      /\ torn \subseteq Pairs /\ held \in 0 .. issued
  BY BoundsAssumption DEF SInv, TypeOK, Pairs
<1>2. ASSUME NEW f, NEW q \in Requests, InFlight(q, f), f \in Pairs PROVE f \in Unanswered({q}) /\ f \in Unanswered(Requests)
  BY <1>2 DEF Unanswered
<1>3. ASSUME NEW q \in Requests, token[q] # None
      PROVE  token[q] \in 1 .. issued /\ family[token[q]] \in Pairs /\ family[token[q]] \in 1 .. issued
  <2>1. token[q] \in 1 .. issued
    BY <1>1, <1>3 DEF None
  <2> QED
    BY <1>1, <2>1, TokenFamily
<1>4. held # None => family[held] \in 1 .. issued
  BY <1>1, TokenFamily DEF None
<1>5. ASSUME NEW q \in Requests, UNCHANGED <<issued, family, torn>>, closed' \subseteq 1 .. issued,
             \A p \in Requests \ {q} : at'[p] = at[p] /\ kind'[p] = kind[p] /\ pair'[p] = pair[p] /\ token'[p] = token[p],
             at'[q] # "idle" /\ kind'[q] = "login" =>
               \/ at[q] # "idle" /\ kind[q] = "login"
               \/ \A p \in Requests : at[p] # "idle" => kind[p] # "login",
             at'[q] \notin {"granted", "broken"}, ~(at'[q] = "ok" /\ kind'[q] = "login")
      PROVE  Answering'
  BY <1>5 DEF Answering
<1>6. ASSUME NEW q \in Requests, \/ StartCall(q) \/ StartLogin(q) \/ StartLogout(q)
                                 \/ Answer(q) \/ Logout(q) \/ RefreshRead(q)
      PROVE  Answering'
  <2>1. UNCHANGED <<issued, family, torn>>
    BY <1>6 DEF StartCall, StartLogin, StartLogout, Answer, Logout, RefreshRead, tokenVars, historyVars
  <2>2. closed' \subseteq 1 .. issued
    <3>1. CASE StartLogout(q)
      BY <1>4, <3>1 DEF Answering, StartLogout
    <3>2. CASE ~StartLogout(q)
      <4>1. closed' = closed
        BY <1>6, <3>2 DEF StartCall, StartLogin, Answer, Logout, RefreshRead, historyVars
      <4> QED
        BY <4>1 DEF Answering
    <3> QED
      BY <3>1, <3>2
  <2>3. \A p \in Requests \ {q} :
          at'[p] = at[p] /\ kind'[p] = kind[p] /\ pair'[p] = pair[p] /\ token'[p] = token[p]
    BY <1>1, <1>6 DEF StartCall, StartLogin, StartLogout, Answer, Logout, RefreshRead, Send, Present, requestVars
  <2>4. \/ at'[q] = "idle"
        \/ at'[q] = "sent" /\ kind'[q] \in {"call", "logout"}
        \/ at'[q] = "sent" /\ \A p \in Requests : at[p] # "idle" => kind[p] # "login"
        \/ at'[q] \in {"ok", "denied"} /\ kind'[q] = kind[q] /\ kind[q] # "login"
        \/ at'[q] \in OnServer \cup {"refused"} /\ kind'[q] = kind[q] /\ at[q] # "idle"
    BY <1>1, <1>6 DEF StartCall, StartLogin, StartLogout, Answer, Logout, RefreshRead, Send, Present, requestVars, OnServer, Refusals
  <2> QED
    BY <1>5, <2>1, <2>2, <2>3, <2>4 DEF OnServer, Refusals
<1>7. CASE \E q \in Requests : Login(q) \/ Rotate(q)
  <2>1. PICK q \in Requests : Login(q) \/ Rotate(q)
    BY <1>7
  <2>2. /\ issued' = issued \/ issued' = issued + 1
        /\ UNCHANGED <<kind, token, torn, closed>>
        /\ \A n \in 1 .. issued : family'[n] = family[n]
        /\ at'[q] \in {"ok", "denied", "granted", "erred"} /\ at[q] # "idle"
        /\ at'[q] \in {"ok", "granted"} => pair'[q] = issued + 1
        /\ \A p \in Requests \ {q} : at'[p] = at[p] /\ pair'[p] = pair[p]
    <3>1. CASE UNCHANGED <<issued, family, pair>>
      BY <1>1, <2>1, <3>1 DEF Login, Rotate, Issue, Committed, historyVars
    <3>2. CASE issued' = issued + 1 /\ \E g : family' = [family EXCEPT ![issued'] = g]
      BY <1>1, <2>1, <3>2 DEF Login, Rotate, Issue, Committed, SInv, TypeOK, historyVars
    <3> QED
      BY <2>1, <3>1, <3>2 DEF Login, Rotate, Issue
  <2>3. \A p \in Requests : at'[p] = "broken" /\ kind[p] = "logout"
                              => at[p] = "broken" /\ token[p] # None
    BY <2>2 DEF SInv, Presenting
  <2>4. \A p \in Requests : at'[p] = "broken" /\ kind[p] = "logout" => family'[token[p]] \in torn
    BY <1>3, <2>2, <2>3 DEF Answering
  <2>5. closed' \subseteq 1 .. issued'
    BY <1>1, <2>2 DEF Answering
  <2>6. issued + 1 # None
    BY <1>1 DEF None
  <2>7. ASSUME NEW p \in Requests, at'[p] = "granted" PROVE family'[pair'[p]] = family'[token[p]]
    <3>1. at[p] \in {"granted", "rotating"} /\ token[p] \in 1 .. issued
      BY <1>1, <1>3, <2>1, <2>7 DEF Login, Rotate, Committed, SInv, Presenting, OnServer, Refusals
    <3>2. CASE p = q
      <4>1. Rotate(q)
        BY <1>1, <2>1, <2>7, <3>2 DEF Login
      <4>2. /\ issued + 1 \in Pairs /\ family' = [family EXCEPT ![issued + 1] =
                                IF family[token[q]] = None THEN issued + 1 ELSE family[token[q]]]
            /\ family \in [Pairs -> {None} \cup Pairs]
        BY <1>1, <4>1, BoundsAssumption DEF Rotate, Issue, SInv, TypeOK, Pairs
      <4>3. family[token[q]] # None /\ family'[token[q]] = family[token[q]]
        BY <1>3, <2>2, <3>1, <3>2 DEF None
      <4> QED
        BY <2>2, <2>7, <3>2, <4>2, <4>3
    <3>3. CASE p # q
      BY <1>1, <2>2, <2>7, <3>1, <3>3 DEF Answering, None
    <3> QED
      BY <3>2, <3>3
  <2> QED
    BY <2>2, <2>4, <2>5, <2>6, <2>7 DEF Answering
<1>8. CASE \E q \in Requests : Revoke(q) \/ RefreshFails(q)
  <2>1. PICK q \in Requests : Revoke(q) \/ RefreshFails(q)
    BY <1>8
  <2>2. /\ at[q] \notin {"idle", "broken"}
        /\ at' = [at EXCEPT ![q] = "refused"] \/ at' = [at EXCEPT ![q] = "erred"]
        /\ UNCHANGED <<issued, family, closed, kind, pair, token, torn>>
    BY <2>1 DEF Revoke, RefreshFails, Committed, OnServer, tokenVars, historyVars
  <2>3. \A p \in Requests : at'[p] = at[p] \/ (p = q /\ at'[p] \in {"refused", "erred"})
    BY <1>1, <2>2
  <2>4. \A p \in Requests : at'[p] # "idle" => at[p] # "idle"
    BY <2>2, <2>3
  <2> QED
    BY <2>2, <2>3, <2>4 DEF Answering
<1>9. ASSUME NEW q \in Requests, Break(q) PROVE Answering'
  <2>1. kind[q] = "logout" => family[token[q]] \in torn'
    <3> SUFFICES ASSUME kind[q] = "logout" PROVE family[token[q]] \in torn'
      OBVIOUS
    <3>1. token[q] # None /\ at[q] \in {"sent", "ok"}
      BY <1>9 DEF Break, SInv, Presenting
    <3>2. InFlight(q, family[token[q]])
      BY <3>1 DEF InFlight
    <3> QED
      BY <1>2, <1>3, <1>9, <3>1, <3>2 DEF Break
  <2> QED
    BY <1>1, <1>9, <2>1 DEF Answering, Break, tokenVars
<1>10. CASE \E q \in Requests : Receive(q) \/ Failed(q)
  <2>1. PICK q \in Requests : Receive(q) \/ Failed(q)
    BY <1>10
  <2>2. /\ UNCHANGED <<issued, family, torn>> /\ at'[q] \in {"idle", "sent"} /\ kind'[q] # "login"
        /\ \A p \in Requests \ {q} : at'[p] = at[p] /\ kind'[p] = kind[p] /\ pair'[p] = pair[p] /\ token'[p] = token[p]
        /\ closed' = closed \/ (kind[q] = "logout" /\ at[q] # "idle" /\ closed' = closed \cup {family[token[q]]})
    BY <1>1, <2>1 DEF Receive, Failed, Send, Done, Close, tokenVars
  <2>3. closed' \subseteq 1 .. issued
    <3>1. kind[q] = "logout" /\ at[q] # "idle" => family[token[q]] \in 1 .. issued
      BY <1>3 DEF SInv, Presenting
    <3> QED
      BY <2>2, <3>1 DEF Answering
  <2> QED
    BY <2>2, <2>3 DEF Answering
<1>11. CASE \E q \in Requests : Denied(q) \/ Granted(q) \/ Refused(q)
  <2>1. PICK q \in Requests : Denied(q) \/ Granted(q) \/ Refused(q)
    BY <1>11
  <2>2. /\ UNCHANGED <<issued, family, torn, closed>> /\ at'[q] \in {"idle", "sent", "refreshing"} /\ at[q] # "idle"
        /\ at'[q] = "idle" \/ kind'[q] = kind[q]
        /\ \A p \in Requests \ {q} : at'[p] = at[p] /\ kind'[p] = kind[p] /\ pair'[p] = pair[p] /\ token'[p] = token[p]
    BY <1>1, <2>1 DEF Refusals, Denied, Granted, Refused, Send, Done, Present, tokenVars, historyVars
  <2> QED
    BY <2>2 DEF Answering
<1>12. CASE Reload
  BY <1>1, <1>12 DEF Answering, Reload, tokenVars
<1>13. CASE ExpireAccess \/ ExpireRefresh \/ UNCHANGED vars
  BY <1>13 DEF Answering, ExpireAccess, ExpireRefresh, vars, tokenVars, requestVars, historyVars
<1> QED
  BY <1>6, <1>7, <1>8, <1>9, <1>10, <1>11, <1>12, <1>13 DEF Next

(* A step that changes no custody but takes requests out of flight, tokens off  *)
(* the page or answers away.                                               *)
LEMMA QuietCustody ==
  ASSUME NEW f, Custody(f), UNCHANGED family, LiveIn(f)' = LiveIn(f),
         f \in closed' => f \in closed, \A n \in Nat : n <= expired => n <= expired',
         \A q \in Requests : token[q] \in Nat,
         held' = held \/ held' = None,
         \A q \in Requests : InFlight(q, f)' =>
           InFlight(q, f) /\ at'[q] = at[q] /\ token'[q] = token[q] /\ pair'[q] = pair[q],
         \A q \in Requests : SignedIn(q, f)' => SignedIn(q, f) /\ pair'[q] = pair[q],
         HeldIn(f)' => \A q \in Requests : InFlight(q, f) => InFlight(q, f)'
  PROVE  Custody(f)'
<1>1. HeldIn(f)' => HeldIn(f) /\ held' = held
  BY DEF HeldIn
<1>2. HeldIn(f)' => /\ \A q \in Requests : InFlight(q, f)' => held' = token'[q]
                    /\ (\A q \in Requests : ~InFlight(q, f)') => LiveIn(f)' = {held'}
  BY <1>1 DEF Custody
<1>3. \A q \in Requests : InFlight(q, f)' =>
       /\ at'[q] # "revoking"
       /\ at'[q] \in {"refreshing", "rotating", "sent"} => LiveIn(f)' = {token'[q]}
       /\ at'[q] = "granted" => LiveIn(f)' = {pair'[q]}
       /\ at'[q] = "ok" => LiveIn(f)' = {}
       /\ at'[q] = "refused" => token'[q] <= expired'
  BY DEF Custody
<1>4. \A q \in Requests : SignedIn(q, f)' =>
       LiveIn(f)' = {pair'[q]} /\ ~HeldIn(f)' /\ \A p \in Requests : ~InFlight(p, f)'
  BY <1>1 DEF Custody
<1>5. f \in closed' =>
       /\ LiveIn(f)' = {} /\ ~HeldIn(f)'
       /\ \A q \in Requests : ~InFlight(q, f)' /\ ~SignedIn(q, f)'
  BY <1>1 DEF Custody
<1> QED
  BY <1>2, <1>3, <1>4, <1>5 DEF Custody

LEMMA StepCustody == SInv /\ Alone /\ Answering /\ InCustody /\ [Next]_vars => InCustody'
<1> SUFFICES ASSUME SInv, Alone, Answering, InCustody, [Next]_vars,
                    NEW f \in Pairs, f \notin overlapped', f \notin torn'
             PROVE  Custody(f)'
  BY DEF InCustody, Pairs
<1>1. overlapped \subseteq overlapped' /\ torn \subseteq torn'
  BY DEF Next, vars, historyVars, StartCall, StartLogin, StartLogout, Answer, Login, Logout, RefreshRead,
         Rotate, Revoke, RefreshFails, Break, Receive, Denied, Granted, Refused, Failed, Reload, Present,
         ExpireAccess, ExpireRefresh
<1>2. Custody(f) /\ AloneIn(f)
  BY <1>1 DEF InCustody, Alone
<1>3. /\ at \in [Requests -> Locations] /\ kind \in [Requests -> Kinds] /\ issued \in Nat
      /\ pair \in [Requests -> 0 .. issued] /\ token \in [Requests -> 0 .. issued]
      /\ held \in 0 .. issued /\ expired \in Nat
      /\ \A q \in Requests : token[q] \in Nat /\ token[q] \in 0 .. issued /\ pair[q] \in 0 .. issued
  BY BoundsAssumption DEF SInv, TypeOK, Pairs
<1>4. ASSUME NEW q \in Requests, Busy(q)
      PROVE  token[q] \in 1 .. issued /\ family[token[q]] \in Pairs /\ family[token[q]] \in 1 .. issued
  <2>1. token[q] \in 1 .. issued
    BY <1>3, <1>4 DEF SInv, Presenting, Busy, None
  <2> QED
    BY <1>3, <2>1, TokenFamily
<1>5. \A q \in Requests : Busy(q) => \A p \in Requests : InFlight(p, family[token[q]]) /\ family[token[q]] = f => p = q
  BY <1>2, InFlightBusy DEF AloneIn
<1>6. ASSUME NEW q \in Requests, UNCHANGED <<tokenVars, expired>>, f \in closed' => f \in closed,
             held' = held \/ held' = None,
             \A p \in Requests \ {q} :
               at'[p] = at[p] /\ kind'[p] = kind[p] /\ pair'[p] = pair[p] /\ token'[p] = token[p],
             InFlight(q, f)' => InFlight(q, f) /\ at'[q] = at[q] /\ token'[q] = token[q] /\ pair'[q] = pair[q],
             HeldIn(f)' /\ InFlight(q, f) => InFlight(q, f)',
             at'[q] # "ok" \/ kind'[q] # "login"
      PROVE  Custody(f)'
  <2>1. UNCHANGED family /\ LiveIn(f)' = LiveIn(f)
    BY <1>6 DEF LiveIn, Family, tokenVars
  <2>2. \A p \in Requests \ {q} : InFlight(p, f)' <=> InFlight(p, f)
    BY <1>6, <2>1 DEF InFlight
  <2>3. \A p \in Requests : SignedIn(p, f)' => SignedIn(p, f) /\ pair'[p] = pair[p]
    BY <1>6, <2>1 DEF SignedIn
  <2>4. HeldIn(f)' => \A p \in Requests : InFlight(p, f) => InFlight(p, f)'
    BY <1>6, <2>2
  <2>5. \A p \in Requests : InFlight(p, f)' =>
          InFlight(p, f) /\ at'[p] = at[p] /\ token'[p] = token[p] /\ pair'[p] = pair[p]
    BY <1>6, <2>2
  <2> QED
    BY <1>2, <1>3, <1>6, <2>1, <2>3, <2>4, <2>5, QuietCustody
<1>7. ASSUME NEW q \in Requests, StartCall(q) \/ StartLogin(q) \/ Answer(q) PROVE Custody(f)'
  <2>1. ~InFlight(q, f) /\ ~InFlight(q, f)'
    BY <1>3, <1>7 DEF StartCall, StartLogin, Answer, Send, InFlight, OnServer, Refusals, SInv, Presenting
  <2>2. /\ UNCHANGED <<tokenVars, expired, closed, held, token>> /\ (at'[q] # "ok" \/ kind'[q] # "login")
        /\ \A p \in Requests \ {q} : at'[p] = at[p] /\ kind'[p] = kind[p] /\ pair'[p] = pair[p]
    BY <1>3, <1>7 DEF StartCall, StartLogin, Answer, Send, clockVars, pageVars, historyVars
  <2> QED
    BY <1>6, <2>1, <2>2
<1>a. ASSUME NEW q \in Requests, RefreshFails(q) PROVE Custody(f)'
  <2>1. /\ UNCHANGED <<tokenVars, expired, closed, held, token, kind, pair>>
        /\ at[q] \in OnServer /\ at'[q] = "erred" /\ \A p \in Requests \ {q} : at'[p] = at[p]
    BY <1>3, <1>a DEF RefreshFails, clockVars, pageVars, historyVars
  <2>2. \A p \in Requests : /\ InFlight(p, f)' <=> InFlight(p, f)
                            /\ SignedIn(p, f)' <=> SignedIn(p, f)
    BY <2>1 DEF InFlight, SignedIn, OnServer, Refusals, tokenVars
  <2>3. LiveIn(f)' = LiveIn(f) /\ (HeldIn(f)' <=> HeldIn(f))
    BY <2>1 DEF LiveIn, Family, HeldIn, tokenVars
  <2> QED
    BY <1>2, <2>1, <2>2, <2>3 DEF Custody
<1>8. ASSUME NEW q \in Requests, Break(q) PROVE Custody(f)'
  <2>1. ~InFlight(q, f)
    BY <1>8 DEF Break, Unanswered
  <2>2. /\ UNCHANGED <<tokenVars, expired, closed, held, token, kind, pair>>
        /\ \A p \in Requests \ {q} : at'[p] = at[p]
        /\ at'[q] = "broken"
    BY <1>3, <1>8 DEF Break, clockVars, pageVars
  <2>3. ~InFlight(q, f)'
    BY <2>1, <2>2 DEF InFlight, OnServer, Refusals, tokenVars
  <2> QED
    BY <1>6, <2>1, <2>2, <2>3
<1>9. ASSUME NEW q \in Requests, Failed(q) PROVE Custody(f)'
  <2>1. ~InFlight(q, f) /\ ~InFlight(q, f)'
    BY <1>3, <1>9 DEF Failed, Close, Done, InFlight, OnServer, Refusals
  <2>2. f \in closed' => f \in closed
    BY <1>9 DEF Failed, Close, Answering
  <2>3. /\ UNCHANGED <<tokenVars, expired>> /\ (held' = held \/ held' = None) /\ at'[q] = "idle"
        /\ \A p \in Requests \ {q} :
             at'[p] = at[p] /\ kind'[p] = kind[p] /\ pair'[p] = pair[p] /\ token'[p] = token[p]
    BY <1>3, <1>9 DEF Failed, Close, Done, SignOut, clockVars, pageVars
  <2> QED
    BY <1>6, <2>1, <2>2, <2>3
<1>10. ASSUME NEW q \in Requests, Refused(q) PROVE Custody(f)'
  <2>1. /\ UNCHANGED <<tokenVars, expired, closed>> /\ held' = None /\ at'[q] = "idle"
        /\ \A p \in Requests \ {q} :
             at'[p] = at[p] /\ kind'[p] = kind[p] /\ pair'[p] = pair[p] /\ token'[p] = token[p]
    BY <1>3, <1>10 DEF Refused, Done, SignOut, clockVars, historyVars
  <2>2. ~InFlight(q, f)' /\ ~HeldIn(f)'
    BY <2>1 DEF InFlight, OnServer, Refusals, HeldIn
  <2> QED
    BY <1>6, <2>1, <2>2
<1>11. CASE ExpireAccess \/ ExpireRefresh \/ UNCHANGED vars
  <2>1. UNCHANGED <<tokenVars, held, requestVars, closed>> /\ (expired' = expired \/ expired' = expired + 1)
    BY <1>11 DEF ExpireAccess, ExpireRefresh, vars, clockVars, pageVars, historyVars
  <2>2. \A n \in Nat : n <= expired => n <= expired'
    BY <1>3, <2>1
  <2>3. \A p \in Requests : /\ InFlight(p, f)' <=> InFlight(p, f)
                            /\ SignedIn(p, f)' <=> SignedIn(p, f)
    BY <2>1 DEF InFlight, SignedIn, tokenVars, requestVars
  <2>4. LiveIn(f)' = LiveIn(f)
    BY <2>1 DEF LiveIn, Family, tokenVars
  <2> QED
    BY <1>2, <1>3, <2>1, <2>2, <2>3, <2>4, QuietCustody DEF requestVars, tokenVars
<1>12. CASE Reload
  <2>1. \A p \in Requests : ~InFlight(p, f)
    BY <1>12 DEF Reload, Unanswered
  <2>2. /\ UNCHANGED <<tokenVars, expired, held, closed>>
        /\ \A p \in Requests : at'[p] = "idle" \/ (at'[p] = "sent" /\ kind'[p] = "me")
    BY <1>12 DEF Reload, clockVars
  <2>3. \A p \in Requests : ~InFlight(p, f)' /\ ~SignedIn(p, f)'
    BY <2>2 DEF InFlight, SignedIn, OnServer, Refusals
  <2>4. LiveIn(f)' = LiveIn(f)
    BY <2>2 DEF LiveIn, Family, tokenVars
  <2> QED
    BY <1>2, <1>3, <2>1, <2>2, <2>3, <2>4, QuietCustody DEF tokenVars
<1>13. ASSUME NEW q \in Requests, Present(q), held # None, UNCHANGED <<tokenVars, expired, closed, held>>,
              \A p \in Requests \ {q} : at'[p] = at[p] /\ kind'[p] = kind[p] /\ pair'[p] = pair[p],
              at'[q] = "refreshing" \/ (at'[q] = "sent" /\ kind'[q] = "logout"),
              \A g : ~InFlight(q, g)
       PROVE  Custody(f)'
  <2>1. token'[q] = held /\ \A p \in Requests \ {q} : token'[p] = token[p]
    BY <1>3, <1>13 DEF Present
  <2>2. LiveIn(f)' = LiveIn(f) /\ (HeldIn(f)' <=> HeldIn(f)) /\ family' = family
    BY <1>13 DEF LiveIn, Family, HeldIn, tokenVars
  <2>3. \A p \in Requests \ {q} : InFlight(p, f)' <=> InFlight(p, f)
    BY <1>13, <2>1, <2>2 DEF InFlight
  <2>4. InFlight(q, f)' <=> HeldIn(f)
    BY <1>13, <2>1, <2>2 DEF InFlight, HeldIn, OnServer, Refusals
  <2>5. HeldIn(f) => \A p \in Requests : ~InFlight(p, f)
    BY <1>13 DEF Present, HeldIn
  <2>6. HeldIn(f) => LiveIn(f) = {held} /\ f \notin closed /\ \A p \in Requests : ~SignedIn(p, f)
    BY <1>2, <2>5 DEF Custody
  <2>7. \A p \in Requests : SignedIn(p, f)' => SignedIn(p, f) /\ pair'[p] = pair[p]
    BY <1>13, <2>2 DEF SignedIn
  <2>8. CASE HeldIn(f)
    BY <1>13, <2>1, <2>2, <2>3, <2>5, <2>6, <2>7, <2>8 DEF Custody
  <2>9. CASE ~HeldIn(f)
    <3>1. \A p \in Requests : InFlight(p, f)' =>
            InFlight(p, f) /\ at'[p] = at[p] /\ token'[p] = token[p] /\ pair'[p] = pair[p]
      BY <1>13, <2>1, <2>3, <2>4, <2>9
    <3> QED
      BY <1>2, <1>3, <1>13, <2>2, <2>7, <2>9, <3>1, QuietCustody
  <2> QED
    BY <2>8, <2>9
<1>14. ASSUME NEW q \in Requests, StartLogout(q) PROVE Custody(f)'
  <2>1. \A g : ~InFlight(q, g)
    BY <1>14 DEF StartLogout, InFlight, OnServer, Refusals
  <2>2. CASE Presented
    BY <1>3, <1>13, <1>14, <2>1, <2>2 DEF StartLogout, Presented, Send, clockVars, pageVars
  <2>3. CASE ~Presented
    BY <1>6, <1>14, <2>1, <2>3 DEF StartLogout, Presented, SignOut, requestVars, clockVars, tokenVars, InFlight
  <2> QED
    BY <2>2, <2>3
<1>15. ASSUME NEW q \in Requests, Denied(q) PROVE Custody(f)'
  <2>1. \A g : ~InFlight(q, g)
    BY <1>15 DEF Denied, InFlight, OnServer, Refusals
  <2>2. CASE ~retried[q] /\ held # None
    BY <1>3, <1>13, <1>15, <2>1, <2>2 DEF Denied, clockVars, pageVars
  <2>3. CASE ~(~retried[q] /\ held # None)
    <3>1. /\ UNCHANGED <<tokenVars, expired, closed>> /\ (held' = held \/ held' = None) /\ at'[q] = "idle"
          /\ \A p \in Requests \ {q} :
               at'[p] = at[p] /\ kind'[p] = kind[p] /\ pair'[p] = pair[p] /\ token'[p] = token[p]
      BY <1>3, <1>15, <2>3 DEF Denied, Done, SignOut, clockVars, pageVars
    <3>2. ~InFlight(q, f)'
      BY <3>1 DEF InFlight, OnServer, Refusals
    <3> QED
      BY <1>6, <2>1, <3>1, <3>2
  <2> QED
    BY <2>2, <2>3
<1>16. ASSUME NEW q \in Requests, Logout(q) PROVE Custody(f)'
  <2>1. /\ UNCHANGED <<issued, family, expired, closed, held, token, kind, pair>> /\ revoked' = revoked \cup {token[q]}
        /\ at[q] = "sent" /\ kind[q] = "logout" /\ at'[q] = "ok" /\ \A p \in Requests \ {q} : at'[p] = at[p]
    BY <1>3, <1>16 DEF Logout, clockVars, pageVars, historyVars
  <2>2. \A p \in Requests : /\ InFlight(p, f)' <=> InFlight(p, f)
                            /\ SignedIn(p, f)' <=> SignedIn(p, f)
    BY <2>1 DEF InFlight, SignedIn, OnServer, Refusals
  <2>3. InFlight(q, family[token[q]])
    BY <2>1 DEF InFlight
  <2>4. CASE family[token[q]] = f
    <3>1. InFlight(q, f) /\ LiveIn(f) = {token[q]}
      BY <1>2, <2>1, <2>3, <2>4 DEF Custody
    <3>2. LiveIn(f)' = {} /\ f \notin closed /\ \A p \in Requests : ~SignedIn(p, f)
      BY <1>2, <2>1, <3>1 DEF LiveIn, Family, Custody
    <3>3. \A p \in Requests : InFlight(p, f) => p = q
      BY <1>2, <3>1 DEF AloneIn
    <3>4. HeldIn(f)' <=> HeldIn(f)
      BY <2>1 DEF HeldIn
    <3> QED
      BY <1>2, <2>1, <2>2, <3>1, <3>2, <3>3, <3>4 DEF Custody
  <2>5. CASE family[token[q]] # f
    <3>1. LiveIn(f)' = LiveIn(f)
      BY <2>1, <2>5 DEF LiveIn, Family
    <3>2. ~InFlight(q, f)
      BY <2>5 DEF InFlight
    <3> QED
      BY <1>2, <1>3, <2>1, <2>2, <3>1, <3>2, QuietCustody
  <2> QED
    BY <2>4, <2>5
<1>17. ASSUME NEW q \in Requests, RefreshRead(q) PROVE Custody(f)'
  <2>1. /\ UNCHANGED <<tokenVars, expired, closed, held, token, kind, pair>> /\ at[q] = "refreshing"
        /\ at'[q] = IF token[q] \in revoked THEN "revoking"
                    ELSE IF token[q] <= expired THEN "refused" ELSE "rotating"
        /\ \A p \in Requests \ {q} : at'[p] = at[p]
    BY <1>3, <1>17 DEF RefreshRead, clockVars, pageVars, historyVars
  <2>2. LiveIn(f)' = LiveIn(f) /\ (HeldIn(f)' <=> HeldIn(f)) /\ family' = family
    BY <2>1 DEF LiveIn, Family, HeldIn, tokenVars
  <2>3. \A p \in Requests : /\ InFlight(p, f)' <=> InFlight(p, f)
                            /\ SignedIn(p, f)' <=> SignedIn(p, f)
    BY <2>1, <2>2 DEF InFlight, SignedIn, OnServer, Refusals
  <2>4. CASE InFlight(q, f)
    <3>1. LiveIn(f) = {token[q]} /\ f \notin closed
      BY <1>2, <2>1, <2>4 DEF Custody
    <3>2. at'[q] = "rotating" \/ (at'[q] = "refused" /\ token[q] <= expired)
      BY <2>1, <3>1 DEF LiveIn
    <3> QED
      BY <1>2, <2>1, <2>2, <2>3, <2>4, <3>1, <3>2 DEF Custody
  <2>5. CASE ~InFlight(q, f)
    BY <1>2, <1>3, <2>1, <2>2, <2>3, <2>5, QuietCustody
  <2> QED
    BY <2>4, <2>5
<1>18. ASSUME NEW q \in Requests, Revoke(q) PROVE Custody(f)'
  <2>1. /\ UNCHANGED <<issued, family, expired, closed, held, token, kind, pair>> /\ revoked' = revoked \cup doomed[q]
        /\ at[q] = "revoking" /\ at'[q] \in Refusals /\ \A p \in Requests \ {q} : at'[p] = at[p]
    BY <1>3, <1>18 DEF Revoke, Committed, Refusals, clockVars, pageVars
  <2>2. ~InFlight(q, f) /\ family[token[q]] # f
    BY <1>2, <2>1 DEF Custody, InFlight, OnServer, Refusals
  <2>3. \A n \in doomed[q] : family[n] # f
    BY <2>1, <2>2 DEF SInv, Presenting
  <2>4. LiveIn(f)' = LiveIn(f)
    BY <2>1, <2>3 DEF LiveIn, Family
  <2>5. \A p \in Requests : /\ InFlight(p, f)' <=> InFlight(p, f)
                            /\ SignedIn(p, f)' => SignedIn(p, f)
    BY <2>1 DEF InFlight, SignedIn, OnServer, Refusals
  <2> QED
    BY <1>2, <1>3, <2>1, <2>2, <2>4, <2>5, QuietCustody
<1>19. ASSUME NEW g \in {None} \cup (1 .. issued), Issue(g), UNCHANGED <<token, kind>>
       PROVE  /\ issued' = issued + 1 /\ issued' \notin 1 .. issued /\ issued' # None
              /\ family'[issued'] = IF g = None THEN issued' ELSE g
              /\ Family(f)' = Family(f) \cup (IF family'[issued'] = f THEN {issued'} ELSE {})
              /\ \A p \in Requests : Busy(p) => family'[token[p]] = family[token[p]]
              /\ \A p \in Requests : pair[p] # None => family'[pair[p]] = family[pair[p]]
              /\ held # None => family'[held] = family[held]
              /\ f = issued' => /\ Family(f) = {} /\ ~HeldIn(f) /\ f \notin closed
                                /\ \A p \in Requests : ~InFlight(p, f)
  <2>1. /\ issued' = issued + 1 /\ issued' \notin 1 .. issued /\ issued' \in 1 .. issued' /\ issued' # None
        /\ family'[issued'] = IF g = None THEN issued' ELSE g
        /\ \A n \in 1 .. issued : n \in 1 .. issued' /\ family'[n] = family[n]
        /\ \A n \in 1 .. issued' : n \in 1 .. issued \/ n = issued'
    BY <1>19, BoundsAssumption DEF Issue, SInv, TypeOK, Pairs, None
  <2>2. \A n \in 1 .. issued : family[n] # issued'
    BY <2>1 DEF SInv, TypeOK
  <2>3. Family(f)' = Family(f) \cup (IF family'[issued'] = f THEN {issued'} ELSE {})
    BY <2>1 DEF Family
  <2>4. /\ \A p \in Requests : Busy(p) => family'[token[p]] = family[token[p]]
        /\ \A p \in Requests : pair[p] # None => family'[pair[p]] = family[pair[p]]
        /\ held # None => family'[held] = family[held] /\ held \in 1 .. issued
    BY <1>3, <1>4, <2>1 DEF None
  <2>5. f = issued' => Family(f) = {} /\ ~HeldIn(f) /\ f \notin closed
    BY <2>1, <2>2, <2>4 DEF Family, HeldIn, Answering
  <2>6. f = issued' => \A p \in Requests : ~InFlight(p, f)
    BY <1>4, <2>1, InFlightBusy
  <2> QED
    BY <2>1, <2>3, <2>4, <2>5, <2>6
<1>20. ASSUME NEW q \in Requests, Login(q) PROVE Custody(f)'
  <2>1. /\ UNCHANGED <<revoked, expired, closed, held, token, kind>> /\ at[q] = "sent" /\ kind[q] = "login"
        /\ \A p \in Requests \ {q} : at'[p] = at[p] /\ pair'[p] = pair[p]
    BY <1>3, <1>20 DEF Login, clockVars, pageVars, historyVars
  <2>2. CASE UNCHANGED <<issued, family, pair>> /\ at' = [at EXCEPT ![q] = "denied"]
    <3>1. at'[q] = "denied"
      BY <1>3, <2>2
    <3>2. ~InFlight(q, f) /\ ~InFlight(q, f)'
      BY <2>1, <3>1 DEF InFlight, OnServer, Refusals
    <3> QED
      BY <1>6, <2>1, <2>2, <3>1, <3>2 DEF tokenVars
  <2>3. CASE Issue(None) /\ at' = [at EXCEPT ![q] = "ok"] /\ pair' = [pair EXCEPT ![q] = issued']
    <3>1. at'[q] = "ok" /\ pair'[q] = issued'
      BY <1>3, <2>3
    <3>2. /\ issued' \notin 1 .. issued /\ issued' # None /\ family'[issued'] = issued'
          /\ Family(f)' = Family(f) \cup (IF issued' = f THEN {issued'} ELSE {})
          /\ \A p \in Requests : Busy(p) => family'[token[p]] = family[token[p]]
          /\ \A p \in Requests : pair[p] # None => family'[pair[p]] = family[pair[p]]
          /\ held # None => family'[held] = family[held]
          /\ f = issued' => /\ Family(f) = {} /\ ~HeldIn(f) /\ f \notin closed
                            /\ \A p \in Requests : ~InFlight(p, f)
      BY <1>19, <2>1, <2>3
    <3>3. \A p \in Requests : (Busy(p)' <=> Busy(p)) /\ (p = q => ~Busy(p))
      BY <2>1, <3>1 DEF Busy, OnServer, Refusals
    <3>4. \A p \in Requests : InFlight(p, f)' <=> InFlight(p, f)
      BY <2>1, <3>2, <3>3, InFlightBusy DEF InFlight, Busy, Refusals
    <3>5. HeldIn(f)' <=> HeldIn(f)
      BY <2>1, <3>2 DEF HeldIn
    <3>6. \A p \in Requests : SignedIn(p, f)' => (p = q /\ f = issued') \/ (p # q /\ SignedIn(p, f))
      BY <2>1, <3>1, <3>2 DEF SignedIn, Answering
    <3>7. \A p \in Requests \ {q} : ~(at'[p] = "ok" /\ kind'[p] = "login")
      BY <2>1 DEF Answering
    <3>8. CASE f = issued'
      <4>1. LiveIn(f)' = {issued'} \/ issued' \in revoked
        BY <2>1, <3>2, <3>8 DEF LiveIn
      <4>2. issued' \notin revoked
        BY <3>2 DEF SInv, TypeOK
      <4>3. \A p \in Requests : SignedIn(p, f)' => p = q
        BY <3>7 DEF SignedIn
      <4> QED
        BY <2>1, <3>1, <3>2, <3>4, <3>5, <3>8, <4>1, <4>2, <4>3 DEF Custody
    <3>9. CASE f # issued'
      <4>1. LiveIn(f)' = LiveIn(f)
        BY <2>1, <3>2, <3>9 DEF LiveIn
      <4>2. \A p \in Requests : ~SignedIn(p, f)'
        BY <3>6, <3>7, <3>9 DEF SignedIn
      <4>3. \A p \in Requests : InFlight(p, f)' => p # q
        BY <3>3, <3>4, InFlightBusy
      <4> QED
        BY <1>2, <2>1, <3>4, <3>5, <4>1, <4>2, <4>3 DEF Custody
    <3> QED
      BY <3>8, <3>9
  <2> QED
    BY <1>20, <2>2, <2>3 DEF Login
<1>21. ASSUME NEW q \in Requests, Rotate(q) PROVE Custody(f)'
  <2> DEFINE g == family[token[q]]
  <2>1. /\ UNCHANGED <<expired, closed, held, token, kind>> /\ Issue(g) /\ revoked' = revoked \cup {token[q]}
        /\ at[q] = "rotating" /\ at'[q] \in {"granted", "erred"} /\ pair'[q] = issued'
        /\ \A p \in Requests \ {q} : at'[p] = at[p] /\ pair'[p] = pair[p]
    BY <1>3, <1>21 DEF Rotate, Committed, Consumed, clockVars, pageVars, historyVars
  <2>2. Busy(q) /\ token[q] \in 1 .. issued /\ g \in 1 .. issued /\ g # None
    BY <1>4, <2>1 DEF Busy, OnServer, Refusals, None
  <2>3. /\ issued' \notin 1 .. issued /\ issued' # None /\ family'[issued'] = g /\ g # issued'
        /\ Family(f)' = Family(f) \cup (IF g = f THEN {issued'} ELSE {})
        /\ \A p \in Requests : Busy(p) => family'[token[p]] = family[token[p]]
        /\ \A p \in Requests : pair[p] # None => family'[pair[p]] = family[pair[p]]
        /\ held # None => family'[held] = family[held]
    BY <1>19, <2>1, <2>2
  <2>4. \A p \in Requests : Busy(p)' <=> Busy(p)
    BY <2>1 DEF Busy, OnServer, Refusals
  <2>5. \A p \in Requests : InFlight(p, f)' <=> InFlight(p, f)
    BY <2>1, <2>3, <2>4, InFlightBusy DEF InFlight, Busy, Refusals
  <2>6. HeldIn(f)' <=> HeldIn(f)
    BY <2>1, <2>3 DEF HeldIn
  <2>7. \A p \in Requests : SignedIn(p, f)' => p # q /\ SignedIn(p, f)
    BY <2>1, <2>3 DEF SignedIn, Answering
  <2>8. InFlight(q, g)
    BY <2>1 DEF InFlight, OnServer, Refusals
  <2>9. CASE g = f
    <3>1. LiveIn(f) = {token[q]} /\ f \notin closed /\ \A p \in Requests : ~SignedIn(p, f)
      BY <1>2, <2>1, <2>8, <2>9 DEF Custody
    <3>2. issued' \notin revoked'
      BY <2>1, <2>2, <2>3 DEF SInv, TypeOK
    <3>3. LiveIn(f)' = {issued'}
      BY <2>1, <2>3, <2>9, <3>1, <3>2 DEF LiveIn
    <3>4. \A p \in Requests : InFlight(p, f) => p = q
      BY <1>2, <2>8, <2>9 DEF AloneIn
    <3> QED
      BY <1>2, <2>1, <2>5, <2>6, <2>7, <2>8, <2>9, <3>1, <3>3, <3>4 DEF Custody
  <2>10. CASE g # f
    <3>1. token[q] \notin Family(f)
      BY <2>10 DEF Family
    <3>2. LiveIn(f)' = LiveIn(f)
      BY <2>1, <2>3, <2>10, <3>1 DEF LiveIn
    <3>3. ~InFlight(q, f)
      BY <2>10 DEF InFlight
    <3> QED
      BY <1>2, <2>1, <2>5, <2>6, <2>7, <3>2, <3>3 DEF Custody
  <2> QED
    BY <2>9, <2>10
<1>22. ASSUME NEW q \in Requests, Granted(q) PROVE Custody(f)'
  <2>1. /\ UNCHANGED <<tokenVars, expired, closed, kind>> /\ held' = pair[q] /\ at[q] = "granted" /\ at'[q] = "sent"
        /\ \A p \in Requests \ {q} : at'[p] = at[p] /\ pair'[p] = pair[p] /\ token'[p] = token[p]
    BY <1>3, <1>22 DEF Granted, Send, Stored, clockVars, historyVars
  <2>2. kind[q] # "logout" /\ pair[q] # None
    BY <2>1 DEF SInv, Presenting, Answering
  <2>3. family' = family /\ LiveIn(f)' = LiveIn(f)
    BY <2>1 DEF LiveIn, Family, tokenVars
  <2>4. \A p \in Requests : InFlight(p, f)' <=> p # q /\ InFlight(p, f)
    BY <2>1, <2>2, <2>3 DEF InFlight, OnServer, Refusals
  <2>5. \A p \in Requests : SignedIn(p, f)' => SignedIn(p, f) /\ pair'[p] = pair[p]
    BY <2>1, <2>3 DEF SignedIn
  <2>6. CASE InFlight(q, f)
    <3>1. LiveIn(f) = {pair[q]} /\ f \notin closed /\ \A p \in Requests : ~SignedIn(p, f)
      BY <1>2, <2>1, <2>6 DEF Custody
    <3>2. \A p \in Requests : ~InFlight(p, f)'
      BY <1>2, <2>4, <2>6 DEF AloneIn
    <3> QED
      BY <2>1, <2>3, <2>5, <3>1, <3>2 DEF Custody
  <2>7. CASE ~InFlight(q, f)
    <3>1. ~HeldIn(f)'
      <4> SUFFICES ASSUME family[pair[q]] = f PROVE FALSE
        BY <2>1, <2>3 DEF HeldIn
      <4> QED
        BY <2>1, <2>2, <2>7 DEF Answering, InFlight
    <3>2. f \in closed => \A p \in Requests : ~InFlight(p, f) /\ ~SignedIn(p, f)
      BY <1>2 DEF Custody
    <3> QED
      BY <1>2, <2>1, <2>3, <2>4, <2>5, <2>7, <3>1, <3>2 DEF Custody
  <2> QED
    BY <2>6, <2>7
<1>23. ASSUME NEW q \in Requests, Receive(q) PROVE Custody(f)'
  <2>1. /\ UNCHANGED <<tokenVars, expired>> /\ at[q] = "ok"
        /\ \A p \in Requests \ {q} :
             at'[p] = at[p] /\ kind'[p] = kind[p] /\ pair'[p] = pair[p] /\ token'[p] = token[p]
    BY <1>3, <1>23 DEF Receive, Send, Done, Close, clockVars
  <2>2. family' = family /\ LiveIn(f)' = LiveIn(f)
    BY <2>1 DEF LiveIn, Family, tokenVars
  <2>3. /\ at'[q] \in {"idle", "sent"} /\ kind'[q] # "logout"
        /\ ~InFlight(q, f)' /\ ~SignedIn(q, f)'
        /\ \A p \in Requests \ {q} : (InFlight(p, f)' <=> InFlight(p, f)) /\ (SignedIn(p, f)' <=> SignedIn(p, f))
    BY <1>3, <1>23, <2>1, <2>2 DEF Receive, Send, Done, Close, InFlight, SignedIn, OnServer, Refusals
  <2>4. CASE kind[q] \in {"call", "runs", "me"}
    <3>1. UNCHANGED <<closed, held>>
      BY <1>23, <2>4 DEF Receive, pageVars
    <3>2. ~InFlight(q, f)
      BY <2>1, <2>4 DEF InFlight, OnServer, Refusals
    <3> QED
      BY <1>6, <2>1, <2>3, <3>1, <3>2
  <2>5. CASE kind[q] = "login"
    <3>1. closed' = closed /\ held' = pair[q] /\ pair[q] # None
      BY <1>23, <2>1, <2>5 DEF Receive, Answering
    <3>2. ~InFlight(q, f)
      BY <2>1, <2>5 DEF InFlight, OnServer, Refusals
    <3>3. CASE family[pair[q]] = f
      <4>1. SignedIn(q, f)
        BY <2>1, <2>5, <3>3 DEF SignedIn
      <4>2. LiveIn(f) = {pair[q]} /\ f \notin closed /\ \A p \in Requests : ~InFlight(p, f)
        BY <1>2, <4>1 DEF Custody
      <4>3. \A p \in Requests \ {q} : ~SignedIn(p, f)
        BY <2>1, <2>5 DEF SignedIn, Answering
      <4> QED
        BY <2>2, <2>3, <3>1, <4>2, <4>3 DEF Custody
    <3>4. CASE family[pair[q]] # f
      <4>1. ~HeldIn(f)'
        BY <2>2, <3>1, <3>4 DEF HeldIn
      <4> QED
        BY <1>2, <2>1, <2>2, <2>3, <3>1, <3>2, <4>1 DEF Custody
    <3> QED
      BY <3>3, <3>4
  <2>6. CASE kind[q] = "logout"
    <3>1. closed' = closed \cup {family[token[q]]} /\ held' = None
      BY <1>23, <2>6 DEF Receive, Close, SignOut
    <3>2. InFlight(q, family[token[q]]) /\ ~HeldIn(f)'
      BY <2>1, <2>6, <3>1 DEF InFlight, HeldIn
    <3>3. CASE family[token[q]] = f
      <4>1. LiveIn(f) = {} /\ \A p \in Requests : InFlight(p, f) => p = q
        BY <1>2, <2>1, <3>2, <3>3 DEF Custody, AloneIn
      <4>2. \A p \in Requests : ~SignedIn(p, f)
        BY <1>2, <3>2, <3>3 DEF Custody
      <4>3. \A p \in Requests : ~InFlight(p, f)' /\ ~SignedIn(p, f)'
        BY <2>3, <4>1, <4>2
      <4> QED
        BY <2>2, <3>2, <4>1, <4>3 DEF Custody
    <3>4. CASE family[token[q]] # f
      <4>1. ~InFlight(q, f)
        BY <3>4 DEF InFlight
      <4>2. f \in closed' => f \in closed
        BY <3>1, <3>4
      <4> QED
        BY <1>6, <2>1, <2>3, <3>1, <4>1, <4>2
    <3> QED
      BY <3>3, <3>4
  <2> QED
    BY <1>3, <2>4, <2>5, <2>6 DEF Kinds
<1> QED
  BY <1>7, <1>a, <1>8, <1>9, <1>10, <1>11, <1>12, <1>14, <1>15, <1>16, <1>17, <1>18, <1>20, <1>21, <1>22, <1>23
     DEF Next

LEMMA CustodyInvariant == Spec => [](SInv /\ Answering /\ InCustody)
BY AloneInvariant, InitCustody, StepAnswering, StepCustody, PTL DEF Spec

(* After a sign-out the family has no live token and the page has none of it,    *)
(* then or later, if no refresh or sign-out of the family overlapped another   *)
(* and each of them had its answer (logout, api.logout).                     *)
THEOREM SignOutEnds == Spec => []SignOutComplete
<1>1. InCustody /\ SInv => SignOutComplete
  BY DEF InCustody, Custody, HeldIn, SignOutComplete, SInv, TypeOK
<1> QED
  BY <1>1, CustodyInvariant, PTL

(* A token held when all requests are over has not been revoked, unless in its  *)
(* family an answer was lost or refreshes overlapped (rotate).                *)
THEOREM PageHoldsLive == Spec => []HeldIsLive
<1>1. ASSUME InCustody, SInv PROVE HeldIsLive
  <2> SUFFICES ASSUME held # None, \A q \in Requests : at[q] = "idle",
                      family[held] \notin overlapped \cup torn
               PROVE  held \notin revoked
    BY DEF HeldIsLive
  <2>1. held \in 1 .. issued
    BY <1>1, BoundsAssumption DEF SInv, TypeOK, None
  <2>2. Custody(family[held])
    BY <1>1, <2>1, TokenFamily DEF InCustody
  <2>3. \A q \in Requests : ~InFlight(q, family[held])
    BY DEF InFlight, OnServer, Refusals
  <2>4. LiveIn(family[held]) = {held}
    BY <2>2, <2>3 DEF Custody, HeldIn
  <2> QED
    BY <2>4 DEF LiveIn
<1> QED
  BY <1>1, CustodyInvariant, PTL

(* The tokens leave the page by a sign-out, by a session that does not load, by *)
(* a refresh answered with an error, or by a 401 to one that had expired,      *)
(* overlapped another or followed one without an answer (request, rotate).    *)
THEOREM NoSilentSignOut == Spec => SignOutExplained
<1>1. ASSUME SInv, Answering, InCustody, [Next]_vars, held # None, held' = None
      PROVE  \E q \in Requests : at[q] # "idle" /\ at'[q] = "idle" /\ SignOutReason(q)
  <2>1. at \in [Requests -> Locations]
    BY <1>1 DEF SInv, TypeOK
  <2>2. ASSUME NEW q \in Requests, Receive(q) \/ Failed(q)
        PROVE  at[q] # "idle" /\ at'[q] = "idle" /\ SignOutReason(q)
    <3>1. CASE Receive(q)
      <4>1. kind[q] = "login" => pair[q] # None
        BY <1>1, <3>1 DEF Receive, Answering
      <4> QED
        BY <1>1, <2>1, <3>1, <4>1 DEF Receive, Close, Done, Send, pageVars, SignOutReason
    <3>2. CASE Failed(q)
      BY <1>1, <2>1, <3>2 DEF Failed, Close, Done, pageVars, SignOutReason
    <3> QED
      BY <2>2, <3>1, <3>2
  <2>3. ASSUME NEW q \in Requests, Denied(q)
        PROVE  at[q] # "idle" /\ at'[q] = "idle" /\ SignOutReason(q)
    BY <1>1, <2>1, <2>3 DEF Denied, Done, pageVars, SignOutReason
  <2>4. ASSUME NEW q \in Requests, Refused(q)
        PROVE  at[q] # "idle" /\ at'[q] = "idle" /\ SignOutReason(q)
    <3>1. at[q] \in Refusals /\ at'[q] = "idle"
      BY <2>1, <2>4 DEF Refused, Done
    <3>2. token[q] \in 1 .. issued
      BY <1>1, <3>1, BoundsAssumption DEF Refusals, SInv, TypeOK, Presenting, None
    <3>3. InFlight(q, family[token[q]]) /\ family[token[q]] \in Pairs
      BY <1>1, <3>1, <3>2, TokenFamily DEF InFlight
    <3>4. at[q] = "refused" => (family[token[q]] \in overlapped \cup torn \/ token[q] <= expired)
      BY <1>1, <3>3 DEF InCustody, Custody
    <3> QED
      BY <3>1, <3>4 DEF Refusals, SignOutReason
  <2>5. ASSUME NEW q \in Requests, Granted(q) \/ StartLogout(q) PROVE FALSE
    BY <1>1, <2>5 DEF Granted, Stored, StartLogout, Presented, pageVars, Answering
  <2>6. ASSUME NEW q \in Requests,
               \/ StartCall(q) \/ StartLogin(q) \/ Answer(q) \/ Login(q) \/ Logout(q)
               \/ RefreshRead(q) \/ Rotate(q) \/ Revoke(q) \/ RefreshFails(q) \/ Break(q)
        PROVE  FALSE
    BY <1>1, <2>6 DEF StartCall, StartLogin, Answer, Login, Logout, RefreshRead, Rotate, Revoke,
                      RefreshFails, Break, pageVars
  <2>7. CASE Reload \/ ExpireAccess \/ ExpireRefresh \/ UNCHANGED vars
    BY <1>1, <2>7 DEF Reload, ExpireAccess, ExpireRefresh, vars, pageVars
  <2> QED
    BY <1>1, <2>2, <2>3, <2>4, <2>5, <2>6, <2>7 DEF Next
<1>2. SInv /\ Answering /\ InCustody /\ [Next]_vars
        => [ held # None /\ held' = None
               => \E q \in Requests : at[q] # "idle" /\ at'[q] = "idle" /\ SignOutReason(q) ]_vars
  BY <1>1
<1> QED
  BY <1>2, CustodyInvariant, PTL DEF Spec, SignOutExplained
===============================================================================
