------------------------------- MODULE Server --------------------------------
(***************************************************************************)
(* The Panel process: its HTTP side (Sessions) and its worker, which polls *)
(* the node (Metering) and then prunes the sessions                        *)
(* (apps/api/src/worker.ts, tick).                                         *)
(***************************************************************************)
EXTENDS Sessions, Metering

CONSTANT MaxLoad  \* bound: all that is counted in Load

ASSUME ServerAssumption == MaxLoad \in Nat

vars == <<sessionVars, meterVars>>

Free == CHOOSE p \in Poll : stats[p].step = "off" \/ \A q \in Poll : stats[q].step # "off"

\* Mutant of BeginTick: a tick does not wait for the one before.
BeginTickAlways(p) ==
  /\ p = Free /\ stats[p].step = "off"
  /\ stats' = [stats EXCEPT ![p].step = "asked"]
  /\ UNCHANGED <<sessionVars, carried, counter, last, total, resets>>

\* setInterval, and the `running` guard.
BeginTick(p) ==
  /\ p = Free /\ \A q \in Poll : stats[q].step = "off"
  /\ stats' = [stats EXCEPT ![p].step = "asked"]
  /\ UNCHANGED <<sessionVars, carried, counter, last, total, resets>>

EndTick(p) ==
  /\ stats[p].step = "done"
  /\ stats' = [stats EXCEPT ![p].step = "off"]
  /\ session' = Pruned
  /\ UNCHANGED <<now, secret, codes, records, logins, requests, kills, used, admitted,
                 effects, answers, carried, counter, last, total, resets>>

\* The Panel is killed and started again.
Restart ==
  /\ kills < MaxKills /\ kills' = kills + 1
  /\ logins' = [t \in Token |-> NotAsked]
  /\ requests' = [t \in Token |-> "none"]
  /\ stats' = [p \in Poll |-> [step |-> "off", reading |-> Zero]]
  /\ UNCHANGED <<now, store, used, admitted, effects, answers,
                 carried, counter, last, total, resets>>

Load ==
  Cardinality({t \in Token : t \in used \/ logins[t] # NotAsked}) + Cardinality({k \in OpId : records[k] # None}) + kills + resets
    + Cardinality({d \in Dir : carried[d] > 0})
    + Cardinality({t \in used : session[t] # None /\ session[t].pending # None})

Init == SessionInit /\ MeterInit

Tick ==
  \E p \in Poll : BeginTick(p) \/ EndTick(p) \/ (Miss(p) /\ UNCHANGED sessionVars)

\* A kill in the middle of a request ends the worker's calls, too.
Request ==
  /\ SessionStep
  /\ IF kills' = kills THEN UNCHANGED meterVars
     ELSE /\ stats' = [p \in Poll |-> [step |-> "off", reading |-> Zero]]
          /\ UNCHANGED <<carried, counter, last, total, resets>>

Next ==
  \/ Tick
  \/ Request /\ Load' <= MaxLoad
  \/ MeterStep /\ UNCHANGED sessionVars /\ Load' <= MaxLoad
  \/ Restart /\ Load' <= MaxLoad

(* The timer starts a tick every five seconds and every call of a tick     *)
(* ends, by its time limit if by nothing else.                             *)

Spec == Init /\ [][Next]_vars /\ WF_vars(Tick)

-----------------------------------------------------------------------------
SessionType ==
  [kind: {"short", "remembered"}, expires: Nat, idle: Nat \cup {None}, seen: 0..MaxTime,
   revoked: 0..MaxTime \cup {None}, pending: Secret \cup {None}]

\* The types of the variables; a remembered session has an idle limit, which
\* no touch moves past the end of the session.
TypeOK ==
  /\ now \in 0..MaxTime /\ kills \in 0..MaxKills /\ resets \in 0..MaxResets
  /\ secret \in Secret \cup {None} /\ codes \subseteq Code
  /\ session \in [Token -> SessionType \cup {None}]
  /\ \A t \in Token : session[t] # None =>
       /\ (session[t].kind = "remembered") = (session[t].idle # None)
       /\ session[t].idle # None => session[t].idle <= session[t].expires
  /\ records \in [OpId -> Record \cup {None}]
  /\ logins \in [Token -> Secret \cup {None, NotAsked}]
  /\ requests \in [Token -> {"none", "authenticated", "answered"}]
  /\ used \subseteq Token /\ admitted \subseteq Code \X Token
  /\ effects \in [OpId -> Nat]
  /\ {carried, counter, last} \subseteq [Dir -> 0..MaxBytes] /\ total \in [Dir -> Nat]
  /\ stats \in [Poll -> [step: Steps, reading: [Dir -> 0..MaxBytes]]]

\* A session that was revoked, logged out, has expired or was idle too long
\* never authenticates a request again: no touch of a late response brings it
\* back.
DeadStaysDead ==
  [][\A t \in used : ~Live(t) => ~Live(t)']_vars

\* A recovery code admits one login, also when two logins that await their
\* password check present it, and when a kill comes between.
CodeAdmitsOnce ==
  \A a, b \in admitted : a[1] = b[1] => a = b

\* An operation id takes effect at most once, and whatever is answered to it is
\* always the same, across repeats and kills.
OnceOnly ==
  /\ \A k \in OpId : effects[k] <= 1
  /\ \A a, b \in answers : a[1] = b[1] => a = b

\* The Panel never counts more than the connection has carried: no counter
\* reading is counted twice, whatever was reset, lost or answered late.
CountedOnce == \A d \in Dir : total[d] <= carried[d]

\* A session that has ended is pruned, whether or not the node answers.
PrunedEventually ==
  \A t \in Token :
    (session[t] # None /\ session[t].expires <= now) ~> session[t] = None
=============================================================================
