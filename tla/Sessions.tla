------------------------------ MODULE Sessions ------------------------------
(***************************************************************************)
(* One administrator's logins, sessions, second factor and recovery codes, *)
(* and the operations of an authenticated request that are answered from   *)
(* an idempotency record (apps/api/src/http/auth.ts, the session part of   *)
(* repository.ts, the creates of http/routes.ts).                          *)
(*                                                                         *)
(* A login awaits scrypt between its reading of the administrator's row    *)
(* and the rest; a request is authenticated by a hook, handled later, and  *)
(* touches its session when the response is out.  Time is counted in       *)
(* periods.                                                                *)
(***************************************************************************)
EXTENDS Naturals, FiniteSets

CONSTANTS
  Token,         \* session tokens; createSessionToken makes a new one each time
  Secret,        \* TOTP secrets
  Code,          \* recovery codes
  OpId,          \* Idempotency-Key values
  ShortTtl, RememberedTtl, IdleTtl,  \* lifetimes
  WriteInterval, \* least time between two touches
  KeepRevoked,   \* how long a revoked session is kept
  MaxTime,       \* bound: time
  MaxKills,      \* bound: kills of the Panel
  None,
  NotAsked       \* no login under way

(* What is done once per operation id: a revocation of one session, of all *)
(* but one, or a create.                                                   *)
Task == {<<"create">>} \cup ({"revoke", "revoke-others"} \X Token)

Record == [task: Task, done: BOOLEAN, result: OpId \cup Nat \cup {None}]

ASSUME SessionsAssumption ==
  /\ {ShortTtl, RememberedTtl, IdleTtl, WriteInterval, KeepRevoked, MaxTime, MaxKills} \subseteq Nat
  /\ IsFiniteSet(Token)
  /\ None \notin Secret \cup Code \cup Nat \cup Record

VARIABLES
  now,
  secret,    \* the administrator's TOTP secret, or None: not enabled
  codes,     \* recovery codes not used yet
  session,   \* Token -> session row, or None
  records,   \* OpId -> idempotency record, or None
  logins,    \* Token -> the secret a login that awaits scrypt has read
  requests,  \* Token -> how far its request is
  kills,
  used,      \* history: tokens that were handed out
  admitted,  \* history: which code admitted which token
  effects,   \* history: OpId -> how often it took effect
  answers    \* history: what was answered to an operation id

store == <<secret, codes, session, records>>
sessionVars == <<now, store, logins, requests, kills, used, admitted, effects, answers>>

SessionInit ==
  /\ now = 0
  /\ \/ secret = None /\ codes = {}
     \/ secret \in Secret /\ codes = Code
  /\ session = [t \in Token |-> None]
  /\ records = [k \in OpId |-> None]
  /\ logins = [t \in Token |-> NotAsked]
  /\ requests = [t \in Token |-> "none"]
  /\ kills = 0
  /\ used = {} /\ admitted = {} /\ answers = {}
  /\ effects = [k \in OpId |-> 0]

\* Mutant of IdleEnd: the idle limit outlives the session.
IdleEndUncapped(expires) == now + IdleTtl

IdleEnd(expires) == IF now + IdleTtl < expires THEN now + IdleTtl ELSE expires

Advance ==
  /\ now < MaxTime
  /\ now' = now + 1
  /\ UNCHANGED <<store, logins, requests, kills, used, admitted, effects, answers>>

-----------------------------------------------------------------------------
(* Login.                                                                  *)

BeginLogin(t) ==
  /\ t \notin used /\ logins[t] = NotAsked
  /\ logins' = [logins EXCEPT ![t] = secret]
  /\ UNCHANGED <<now, store, requests, kills, used, admitted, effects, answers>>

\* Mutant of Consumed: the code stays valid.
ConsumedNever(proof) == codes

Consumed(proof) == codes \ {proof}

NewSession(remember) ==
  LET expires == now + (IF remember THEN RememberedTtl ELSE ShortTtl) IN
    [kind |-> IF remember THEN "remembered" ELSE "short",
     expires |-> expires,
     idle |-> IF remember THEN IdleEnd(expires) ELSE None,
     seen |-> now, revoked |-> None, pending |-> None]

\* The handler goes by the secret it read before; the recovery code is looked
\* up now, and is gone even if the login is rejected for rememberDevice.
FinishLogin(t, remember, proof) ==
  LET read == logins[t]
      verified == read # None /\ proof = read
      recovered == read # None /\ ~verified /\ proof \in codes
      accepted == (read = None \/ verified \/ recovered) /\ (remember => verified)
  IN
    /\ read # NotAsked
    /\ logins' = [logins EXCEPT ![t] = NotAsked]
    /\ codes' = IF recovered THEN Consumed(proof) ELSE codes
    /\ IF accepted
       THEN /\ session' = [session EXCEPT ![t] = NewSession(remember)]
            /\ used' = used \cup {t}
            /\ admitted' = IF recovered THEN admitted \cup {<<proof, t>>} ELSE admitted
       ELSE UNCHANGED <<session, used, admitted>>
    /\ UNCHANGED <<now, secret, records, requests, kills, effects, answers>>

-----------------------------------------------------------------------------
(* Requests.                                                               *)

\* getSession.
Live(t) ==
  /\ session[t] # None
  /\ session[t].revoked = None
  /\ now < session[t].expires
  /\ session[t].idle # None => now < session[t].idle

\* onRequest.
Authenticate(t) ==
  /\ Live(t) /\ requests[t] = "none"
  /\ requests' = [requests EXCEPT ![t] = "authenticated"]
  /\ UNCHANGED <<now, store, logins, kills, used, admitted, effects, answers>>

Handled(t) ==
  /\ requests[t] = "authenticated"
  /\ requests' = [requests EXCEPT ![t] = "answered"]
  /\ UNCHANGED <<now, logins, used, admitted>>

\* Mutant of Touched: an idle session is touched, too.
TouchedIdle(t) ==
  /\ session[t] # None /\ session[t].kind = "remembered"
  /\ session[t].revoked = None
  /\ session[t].seen + WriteInterval <= now
  /\ now < session[t].expires

Touched(t) ==
  /\ session[t] # None /\ session[t].kind = "remembered"
  /\ session[t].revoked = None
  /\ session[t].seen + WriteInterval <= now
  /\ now < session[t].expires /\ now < session[t].idle

\* onResponse, touchSession.
Respond(t) ==
  /\ requests[t] = "answered"
  /\ requests' = [requests EXCEPT ![t] = "none"]
  /\ session' = IF Touched(t)
                THEN [session EXCEPT ![t].seen = now,
                        ![t].idle = IdleEnd(session[t].expires)]
                ELSE session
  /\ UNCHANGED <<now, secret, codes, records, logins, kills, used, admitted, effects, answers>>

Logout(t) ==
  /\ Handled(t)
  /\ session' = [session EXCEPT ![t] = None]
  /\ UNCHANGED <<secret, codes, records, kills, effects, answers>>

Enroll(t, x) ==
  /\ Handled(t)
  /\ session' = IF session[t] = None THEN session ELSE [session EXCEPT ![t].pending = x]
  /\ UNCHANGED <<secret, codes, records, kills, effects, answers>>

\* The session is looked up again: one that was revoked meanwhile confirms
\* nothing.  The secret and the codes are replaced in one transaction.
Confirm(t) ==
  /\ Handled(t)
  /\ Live(t) /\ session[t].pending # None
  /\ secret' = session[t].pending
  /\ codes' = {k \in Code : \A a \in admitted : a[1] # k}
  /\ session' = [session EXCEPT ![t].pending = None]
  /\ UNCHANGED <<records, kills, effects, answers>>

(* The record, the effect and the result of an operation are written one   *)
(* after the other; n of them before a kill.                               *)
Write(t, op, n, task, result) ==
  /\ records[op] = None
  /\ records' = [records EXCEPT ![op] =
       [task |-> task, done |-> n = 3, result |-> IF n = 3 THEN result ELSE None]]
  /\ effects' = [effects EXCEPT ![op] = IF n > 1 THEN @ + 1 ELSE @]
  /\ IF n = 3
     THEN /\ Handled(t)
          /\ answers' = answers \cup {<<op, result>>}
          /\ UNCHANGED kills
     ELSE /\ requests[t] = "authenticated"
          /\ kills < MaxKills /\ kills' = kills + 1
          /\ logins' = [u \in Token |-> NotAsked]
          /\ requests' = [u \in Token |-> "none"]
          /\ UNCHANGED <<now, used, admitted, answers>>

\* Which sessions a request of t revokes: one, or all but its own.
Revocable(victims) == {u \in victims : session[u] # None /\ session[u].revoked = None}
Revoked(victims) ==
  [u \in Token |-> IF u \in Revocable(victims) THEN [session[u] EXCEPT !.revoked = now]
                   ELSE session[u]]

Revoke(t, op, n, task, victims) ==
  /\ Write(t, op, n, task, Cardinality(Revocable(victims)))
  /\ session' = IF n > 1 THEN Revoked(victims) ELSE session
  /\ UNCHANGED <<secret, codes>>

RevokeOne(t, op, n) == \E u \in Token : Revoke(t, op, n, <<"revoke", u>>, {u})
RevokeOthers(t, op, n) == Revoke(t, op, n, <<"revoke-others", t>>, Token \ {t})

\* Nodes, users, quota policies and relays; the row is named for the id.
Create(t, op, n) ==
  /\ Write(t, op, n, <<"create">>, op)
  /\ UNCHANGED <<secret, codes, session>>

\* An insert that throws: the record stays without a result.
CreateRefused(t, op) ==
  /\ records[op] = None /\ Handled(t)
  /\ records' = [records EXCEPT ![op] = [task |-> <<"create">>, done |-> FALSE, result |-> None]]
  /\ UNCHANGED <<secret, codes, session, kills, effects, answers>>

\* Mutant of Repeat: an operation that was not finished is done again.
RepeatStarted(t, op) ==
  /\ records[op] # None /\ Handled(t)
  /\ effects' = [effects EXCEPT ![op] = IF records[op].done THEN @ ELSE @ + 1]
  /\ answers' = answers \cup {<<op, IF records[op].done THEN records[op].result ELSE 0>>}
  /\ UNCHANGED <<store, kills>>

\* A repeat is answered from the record: a revocation that was not finished
\* with 0, a create that was not finished with a conflict (no answer).  The
\* request of "revoke-others" is one of the session that made it.
Repeat(t, op) ==
  /\ records[op] # None /\ Handled(t)
  /\ records[op].task[1] = "revoke-others" => records[op].task[2] = t
  /\ answers' = IF records[op].done THEN answers \cup {<<op, records[op].result>>}
                ELSE IF records[op].task = <<"create">> THEN answers
                ELSE answers \cup {<<op, 0>>}
  /\ UNCHANGED <<store, kills, effects>>

-----------------------------------------------------------------------------
\* Mutant of Pruned: only the idle limit ends a session.
PrunedIdle ==
  [t \in Token |->
     IF session[t] = None \/ (session[t].idle # None /\ session[t].idle <= now) THEN None
     ELSE session[t]]

\* pruneSessions.
Pruned ==
  [t \in Token |->
     IF session[t] = None \/ session[t].expires <= now
          \/ (session[t].idle # None /\ session[t].idle <= now)
          \/ (session[t].revoked # None /\ session[t].revoked + KeepRevoked <= now)
     THEN None ELSE session[t]]

SessionStep ==
  \/ Advance
  \/ \E t \in Token :
       \/ BeginLogin(t)
       \/ \E remember \in BOOLEAN, proof \in Secret \cup Code \cup {None} :
            FinishLogin(t, remember, proof)
       \/ Authenticate(t) \/ Respond(t)
       \/ Logout(t) \/ Confirm(t) \/ \E x \in Secret : Enroll(t, x)
       \/ \E op \in OpId : Repeat(t, op) \/ CreateRefused(t, op)
       \/ \E op \in OpId, n \in 1..3 :
            RevokeOne(t, op, n) \/ RevokeOthers(t, op, n) \/ Create(t, op, n)
=============================================================================
