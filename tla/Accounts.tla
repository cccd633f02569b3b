------------------------------- MODULE Accounts -------------------------------
(***************************************************************************)
(* The accounts behind api/routes_auth.py: registration, whose first user    *)
(* becomes the administrator, and the login counters with their lock.  A     *)
(* request is a read of the rows it decides on and, later, a commit: between *)
(* the two, other requests read and commit.                                 *)
(***************************************************************************)
EXTENDS Naturals, FiniteSets, Combinatorics

CONSTANTS
  Emails,     \* addresses that may register
  Handlers,   \* requests the server may have in hand
  MaxFailed,  \* MAX_FAILED_LOGINS
  LockTime,   \* LOCKOUT_MINUTES
  MaxTime     \* bound: the clock

ASSUME LimitsAssumption ==
  MaxFailed \in Nat \ {0, 1} /\ LockTime \in Nat \ {0} /\ MaxTime \in Nat \ {0}

VARIABLES
  role,       \* of the user with this email, "none" before there is one
  failed,     \* failed_logins
  locked,     \* locked_until, Never for None
  audit,      \* rows "login_failed" since the last success or lock
  at,         \* where each request is
  mail,       \* the email it is about
  snap,       \* what it has read
  now,        \* the clock
  raced,      \* history: two registrations have both found the table empty
  contended   \* history: emails with two logins in hand at once

rowVars == <<role, failed, locked, audit>>
handlerVars == <<at, mail, snap>>
historyVars == <<raced, contended>>
vars == <<rowVars, handlerVars, now, historyVars>>

Never == 0
Roles == {"none", "user", "admin"}
Times == 0 .. MaxTime + LockTime
Idle == [first |-> FALSE, failed |-> 0, locked |-> Never, now |-> 0]
Snapshots == [first : BOOLEAN, failed : 0 .. MaxFailed, locked : Times, now : 0 .. MaxTime]

Init ==
  /\ role = [e \in Emails |-> "none"]
  /\ failed = [e \in Emails |-> 0]
  /\ locked = [e \in Emails |-> Never]
  /\ audit = [e \in Emails |-> 0]
  /\ at = [h \in Handlers |-> "idle"]
  /\ \E e \in Emails : mail = [h \in Handlers |-> e]
  /\ snap = [h \in Handlers |-> Idle]
  /\ now = 1
  /\ raced = FALSE /\ contended = {}

Users == {e \in Emails : role[e] # "none"}
Admins == {e \in Emails : role[e] = "admin"}

Take(h, where, e, read) ==
  /\ at' = [at EXCEPT ![h] = where]
  /\ mail' = [mail EXCEPT ![h] = e]
  /\ snap' = [snap EXCEPT ![h] = read]

Return(h) ==
  /\ at' = [at EXCEPT ![h] = "idle"]
  /\ snap' = [snap EXCEPT ![h] = Idle]
  /\ UNCHANGED mail

-----------------------------------------------------------------------------
(* register reads that the email is free, and whether there is any user.     *)
(* Fault: it only looks at this email.                                     *)
FirstOfItsName(e) == role[e] = "none"
IsFirst(e) == Users = {}

RegisterRead(h, e) ==
  /\ at[h] = "idle"
  /\ role[e] = "none"
  /\ Take(h, "registering", e, [Idle EXCEPT !.first = IsFirst(e)])
  /\ raced' = (raced \/ (Users = {} /\ \E g \in Handlers : at[g] = "registering" /\ snap[g].first))
  /\ UNCHANGED <<rowVars, now, contended>>

(* The commit, which the unique email refuses when another was faster.       *)
RegisterCommit(h) ==
  /\ at[h] = "registering"
  /\ role' = IF role[mail[h]] # "none" THEN role
             ELSE [role EXCEPT ![mail[h]] = IF snap[h].first THEN "admin" ELSE "user"]
  /\ Return(h)
  /\ UNCHANGED <<failed, locked, audit, now, historyVars>>

-----------------------------------------------------------------------------
(* login reads the user; under a lock it answers 429 and goes no further.    *)
(* The password is right or wrong.                                         *)
LoginRead(h, e) ==
  /\ at[h] = "idle"
  /\ role[e] # "none"
  /\ locked[e] <= now
  /\ \E verdict \in {"right", "wrong"} :
       Take(h, verdict, e,
            [first |-> FALSE, failed |-> failed[e], locked |-> locked[e], now |-> now])
  /\ contended' = IF \E g \in Handlers \ {h} : at[g] \in {"right", "wrong"} /\ mail[g] = e
                  THEN contended \cup {e} ELSE contended
  /\ UNCHANGED <<rowVars, now, raced>>

(* The session writes the columns whose value differs from the one it read.  *)
(* Fault: it writes them all.                                              *)
WriteAll(column, e, read, value) == [column EXCEPT ![e] = value]
Write(column, e, read, value) ==
  IF value = read THEN column ELSE [column EXCEPT ![e] = value]

(* A success clears the counter and the lock it has read.  Fault: it leaves  *)
(* the counter.                                                            *)
ForgottenNever(h) == snap[h].failed
Forgotten(h) == 0

LoginSucceeds(h) ==
  LET e == mail[h] IN
  /\ at[h] = "right"
  /\ failed' = Write(failed, e, snap[h].failed, Forgotten(h))
  /\ locked' = Write(locked, e, snap[h].locked, Never)
  /\ audit' = [audit EXCEPT ![e] = 0]
  /\ Return(h)
  /\ UNCHANGED <<role, now, historyVars>>

(* The failure that locks the account.  Fault: it is one too late.           *)
DueLate(count) == count > MaxFailed
Due(count) == count >= MaxFailed

(* A failure counts, or locks the account and starts to count anew.  It is   *)
(* committed before the 401 is raised.                                     *)
LoginFails(h) ==
  LET e == mail[h]
      count == snap[h].failed + 1
  IN
  /\ at[h] = "wrong"
  /\ IF Due(count)
     THEN /\ failed' = Write(failed, e, snap[h].failed, 0)
          /\ locked' = Write(locked, e, snap[h].locked, snap[h].now + LockTime)
          /\ audit' = [audit EXCEPT ![e] = 0]
     ELSE /\ failed' = Write(failed, e, snap[h].failed, count)
          /\ audit' = [audit EXCEPT ![e] = @ + 1]
          /\ UNCHANGED locked
  /\ Return(h)
  /\ UNCHANGED <<role, now, historyVars>>

(* A transaction that fails is rolled back.                                 *)
RollBack(h) ==
  /\ at[h] # "idle"
  /\ Return(h)
  /\ UNCHANGED <<rowVars, now, historyVars>>

Tick ==
  /\ now < MaxTime /\ now' = now + 1
  /\ UNCHANGED <<rowVars, handlerVars, historyVars>>

Next ==
  \/ \E h \in Handlers :
       \/ \E e \in Emails : RegisterRead(h, e) \/ LoginRead(h, e)
       \/ RegisterCommit(h) \/ LoginSucceeds(h) \/ LoginFails(h) \/ RollBack(h)
  \/ Tick

Spec == Init /\ [][Next]_vars

-----------------------------------------------------------------------------
(* Every variable stays within its type.                                   *)
TypeOK ==
  /\ role \in [Emails -> Roles]
  /\ failed \in [Emails -> 0 .. MaxFailed - 1]
  /\ locked \in [Emails -> Times]
  /\ audit \in [Emails -> Nat]
  /\ at \in [Handlers -> {"idle", "registering", "right", "wrong"}]
  /\ mail \in [Handlers -> Emails]
  /\ snap \in [Handlers -> Snapshots]
  /\ now \in 0 .. MaxTime
  /\ raced \in BOOLEAN
  /\ contended \subseteq Emails

(* A system with users has an administrator, and one only, unless two        *)
(* registrations have both found the table empty (register).               *)
AdminBootstrap ==
  /\ Users # {} => Admins # {}
  /\ ~raced => Cardinality(Admins) <= 1

(* Only the first account to be registered is an administrator.  The code    *)
(* breaks it when two registrations overlap (register).                     *)
OneAdmin == Cardinality(Admins) <= 1

(* The counter is the number of failures in the audit log since the last     *)
(* success or lock, and a lock comes with the MaxFailed-th, unless logins to  *)
(* the account overlapped (login).                                         *)
CounterExact ==
  \A e \in Emails \ contended : failed[e] = audit[e] /\ audit[e] < MaxFailed

(* Overlapping logins lose counts, but not without limit: with h requests in *)
(* hand an account is locked before choose(MaxFailed - 1 + h, h) failures,   *)
(* which for one request is MaxFailed; the code does not bound the requests  *)
(* it has in hand (login).                                                 *)
CountBound ==
  LET h == Cardinality(Handlers)
  IN  \A e \in Emails : audit[e] < choose(MaxFailed - 1 + h, h)

(* MaxFailed failed logins in a row lock the account.  The code breaks it     *)
(* when logins overlap: a failure whose count was lost does not count.       *)
LockedInTime == \A e \in Emails : audit[e] < MaxFailed

(* A lock in force is only taken away or changed by a request that had read   *)
(* the account before: a failure, or a success that had read an older lock,  *)
(* while a success that had read no lock leaves it (login).                  *)
LockStands ==
  [][ \A e \in Emails :
        locked[e] > now /\ locked'[e] # locked[e]
          => \E h \in Handlers :
               /\ mail[h] = e
               /\ at[h] = "wrong" \/ (at[h] = "right" /\ snap[h].locked # Never) ]_vars

=============================================================================
