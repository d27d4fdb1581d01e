---------------------------- MODULE ServerProofs -----------------------------
(***************************************************************************)
(* Proofs about Server, for any number of sessions, operation ids,         *)
(* directions and bounds: the types of all variables; no counter reading   *)
(* is counted twice, an operation id takes effect and is answered once, a  *)
(* recovery code admits one login, and a dead session stays dead.          *)
(***************************************************************************)
EXTENDS Server, FiniteSetTheorems, TLAPS

-----------------------------------------------------------------------------
(* Metering.  What a reading and a total leave to be counted is no more    *)
(* than what was carried since: either the counters only grew since that   *)
(* reading, or they were reset and what they show now is all new.          *)

Counters == [Dir -> Nat]

Accounted(reading, sum, shown, all) ==
  \/ \A d \in Dir : /\ reading[d] <= shown[d]
                    /\ sum[d] + (shown[d] - reading[d]) <= all[d]
  \/ \A d \in Dir : sum[d] + shown[d] <= all[d]

Counted(reading) == [d \in Dir |-> total[d] + Delta(reading)[d]]

MeterType ==
  /\ carried \in Counters /\ counter \in Counters /\ last \in Counters /\ total \in Counters
  /\ stats \in [Poll -> [step: Steps, reading: Counters]]

OnePoll ==
  \A p, q \in Poll : stats[p].step # "off" /\ stats[q].step # "off" => p = q

MeterInv ==
  /\ MeterType
  /\ OnePoll
  /\ Accounted(last, total, counter, carried)
  /\ \A p \in Poll : stats[p].step = "read" =>
       Accounted(stats[p].reading, Counted(stats[p].reading), counter, carried)

\* What a reading adds is a natural number in either case of updateTraffic.
LEMMA DeltaType ==
  ASSUME NEW reading \in Counters, last \in Counters
  PROVE  Delta(reading) \in Counters
<1>1. CASE \E d \in Dir : reading[d] < last[d]
  BY <1>1 DEF Delta
<1>2. CASE ~ \E d \in Dir : reading[d] < last[d]
  <2>1. \A d \in Dir : reading[d] - last[d] \in Nat
    BY <1>2 DEF Counters
  <2> QED BY <1>2, <2>1 DEF Delta, Counters
<1> QED BY <1>1, <1>2

\* The sum and the reading a poll will write are counters.
LEMMA CountedType ==
  ASSUME MeterType, NEW reading \in Counters
  PROVE  Counted(reading) \in Counters
BY DeltaType DEF Counted, MeterType, Counters

\* A reading of the counters as they are leaves nothing to be counted.
LEMMA ReadAccounted ==
  ASSUME MeterType, Accounted(last, total, counter, carried)
  PROVE  Accounted(counter, Counted(counter), counter, carried)
<1>1. CASE \A d \in Dir : /\ last[d] <= counter[d]
                          /\ total[d] + (counter[d] - last[d]) <= carried[d]
  <2>1. ~ \E d \in Dir : counter[d] < last[d]
    BY <1>1 DEF MeterType, Counters
  <2>2. \A d \in Dir : Counted(counter)[d] = total[d] + (counter[d] - last[d])
    BY <2>1 DEF Counted, Delta
  <2> QED BY <1>1, <2>2 DEF Accounted, MeterType, Counters
<1>2. CASE \A d \in Dir : total[d] + counter[d] <= carried[d]
  <2>1. \A d \in Dir : Delta(counter)[d] <= counter[d]
    BY DEF Delta, MeterType, Counters
  <2>2. \A d \in Dir : Delta(counter)[d] \in Nat
    BY DeltaType DEF MeterType, Counters
  <2>3. \A d \in Dir : Counted(counter)[d] <= carried[d]
    BY <1>2, <2>1, <2>2 DEF Counted, MeterType, Counters
  <2>4. \A d \in Dir : Counted(counter)[d] \in Nat
    BY CountedType DEF MeterType, Counters
  <2> QED BY <2>3, <2>4 DEF Accounted, MeterType, Counters
<1> QED BY <1>1, <1>2 DEF Accounted

\* A reset of the counters leaves a reading accounted for.
LEMMA AccountedReset ==
  ASSUME NEW reading \in Counters, NEW sum \in Counters,
         NEW shown \in Counters, NEW all \in Counters,
         Accounted(reading, sum, shown, all)
  PROVE  Accounted(reading, sum, Zero, all)
<1>1. \A d \in Dir : sum[d] <= all[d]
  BY DEF Accounted, Counters
<1> QED BY <1>1 DEF Accounted, Counters, Zero

\* So does a byte that is carried.
LEMMA AccountedCarry ==
  ASSUME NEW reading \in Counters, NEW sum \in Counters,
         NEW shown \in Counters, NEW all \in Counters, NEW d \in Dir,
         Accounted(reading, sum, shown, all)
  PROVE  Accounted(reading, sum, [shown EXCEPT ![d] = @ + 1], [all EXCEPT ![d] = @ + 1])
<1> DEFINE s == [shown EXCEPT ![d] = @ + 1]
           a == [all EXCEPT ![d] = @ + 1]
<1>1. \A e \in Dir : (s[e] = shown[e] + 1 /\ a[e] = all[e] + 1) \/ (s[e] = shown[e] /\ a[e] = all[e])
  BY DEF Counters
<1> HIDE DEF s, a
<1>2. Accounted(reading, sum, s, a)
  <2>1. CASE \A e \in Dir : reading[e] <= shown[e] /\ sum[e] + (shown[e] - reading[e]) <= all[e]
    <3>1. ASSUME NEW e \in Dir
          PROVE  reading[e] <= s[e] /\ sum[e] + (s[e] - reading[e]) <= a[e]
      BY <1>1, <2>1 DEF Counters
    <3> QED BY <3>1 DEF Accounted
  <2>2. CASE \A e \in Dir : sum[e] + shown[e] <= all[e]
    <3>1. ASSUME NEW e \in Dir
          PROVE  sum[e] + s[e] <= a[e]
      BY <1>1, <2>2 DEF Counters
    <3> QED BY <3>1 DEF Accounted
  <2> QED BY <2>1, <2>2 DEF Accounted
<1> QED BY <1>2 DEF s, a

-----------------------------------------------------------------------------
(* The steps.                                                              *)

MeterStill == UNCHANGED <<carried, counter, last, total>>

\* No poll is ended by a step that leaves the counters alone, except by being
\* put off or done.
LEMMA MeterUnread ==
  ASSUME MeterInv, MeterStill, stats' \in [Poll -> [step: Steps, reading: Counters]], OnePoll',
         \A p \in Poll : stats'[p].step = "read" => stats'[p] = stats[p]
  PROVE  MeterInv'
<1>1. MeterType' /\ Accounted(last, total, counter, carried)'
  BY DEF MeterInv, MeterType, MeterStill, Accounted
<1>2. ASSUME NEW p \in Poll, stats'[p].step = "read"
      PROVE  Accounted(stats[p].reading, Counted(stats[p].reading), counter, carried)'
  <2>1. stats'[p] = stats[p]
    BY <1>2
  <2>2. Accounted(stats[p].reading, Counted(stats[p].reading), counter, carried)
    BY <1>2, <2>1 DEF MeterInv
  <2>3. Counted(stats[p].reading)' = Counted(stats[p].reading)
    BY <2>1 DEF Counted, Delta, MeterStill
  <2> QED BY <2>1, <2>2, <2>3 DEF Accounted, MeterStill
<1> QED BY <1>1, <1>2 DEF MeterInv

\* The steps of the node: Reset, Carry.
LEMMA MeterNode ==
  ASSUME MeterInv, Reset \/ \E d \in Dir : Carry(d)
  PROVE  MeterInv'
<1>1. /\ UNCHANGED <<last, total, stats>>
      /\ \/ carried' = carried /\ counter' = Zero
         \/ \E d \in Dir : /\ carried' = [carried EXCEPT ![d] = @ + 1]
                           /\ counter' = [counter EXCEPT ![d] = @ + 1]
  BY DEF Reset, Carry
<1>2. MeterType'
  BY <1>1 DEF MeterInv, MeterType, Counters, Zero
<1>3. OnePoll'
  BY <1>1 DEF MeterInv, OnePoll
<1>4. ASSUME NEW reading \in Counters, NEW sum \in Counters,
             Accounted(reading, sum, counter, carried)
      PROVE  Accounted(reading, sum, counter', carried')
  <2>1. counter \in Counters /\ carried \in Counters
    BY DEF MeterInv, MeterType
  <2>2. CASE carried' = carried /\ counter' = Zero
    BY <1>4, <2>1, <2>2, AccountedReset
  <2>3. CASE \E d \in Dir : /\ carried' = [carried EXCEPT ![d] = @ + 1]
                            /\ counter' = [counter EXCEPT ![d] = @ + 1]
    <3>1. PICK d \in Dir : /\ carried' = [carried EXCEPT ![d] = @ + 1]
                           /\ counter' = [counter EXCEPT ![d] = @ + 1]
      BY <2>3
    <3>2. Accounted(reading, sum, [counter EXCEPT ![d] = @ + 1], [carried EXCEPT ![d] = @ + 1])
      BY <1>4, <2>1, AccountedCarry
    <3> QED BY <3>1, <3>2
  <2> QED BY <1>1, <2>2, <2>3
<1>5. Accounted(last', total', counter', carried')
  BY <1>1, <1>4 DEF MeterInv, MeterType
<1>6. ASSUME NEW p \in Poll, stats'[p].step = "read"
      PROVE  Accounted(stats'[p].reading, Counted(stats[p].reading)', counter', carried')
  <2>1. stats[p].reading \in Counters
    BY DEF MeterInv, MeterType
  <2>2. Counted(stats[p].reading) \in Counters
    BY <2>1, CountedType DEF MeterInv
  <2>3. Accounted(stats[p].reading, Counted(stats[p].reading), counter, carried)
    BY <1>1, <1>6 DEF MeterInv
  <2>4. Accounted(stats[p].reading, Counted(stats[p].reading), counter', carried')
    BY <1>4, <2>1, <2>2, <2>3
  <2>5. stats' = stats /\ Counted(stats[p].reading)' = Counted(stats[p].reading)
    BY <1>1 DEF Counted, Delta
  <2> QED BY <2>4, <2>5
<1>7. Accounted(last, total, counter, carried)'
  BY <1>5 DEF Accounted
<1>8. \A p \in Poll : stats'[p].step = "read" =>
        Accounted(stats[p].reading, Counted(stats[p].reading), counter, carried)'
  BY <1>6 DEF Accounted
<1> QED BY <1>2, <1>3, <1>7, <1>8 DEF MeterInv

\* The node answers a stats call.
LEMMA MeterRead ==
  ASSUME MeterInv, NEW p \in Poll, Read(p)
  PROVE  MeterInv'
<1>1. /\ MeterStill
      /\ stats[p].step = "asked"
      /\ stats' = [stats EXCEPT ![p] = [step |-> "read", reading |-> counter]]
  BY DEF Read, MeterStill
<1>2. MeterType'
  BY <1>1 DEF MeterInv, MeterType, Counters, MeterStill, Steps
<1>3. OnePoll'
  BY <1>1 DEF MeterInv, MeterType, OnePoll
<1>4. Accounted(last, total, counter, carried)'
  BY <1>1 DEF MeterInv, Accounted, MeterStill
<1>5. ASSUME NEW q \in Poll, stats'[q].step = "read"
      PROVE  Accounted(stats[q].reading, Counted(stats[q].reading), counter, carried)'
  <2>1. q = p
    BY <1>1, <1>3, <1>5 DEF OnePoll, MeterInv, MeterType
  <2>2. stats'[q].reading = counter
    BY <1>1, <2>1 DEF MeterInv, MeterType
  <2>3. Accounted(counter, Counted(counter), counter, carried)
    BY ReadAccounted DEF MeterInv
  <2>4. Counted(stats[q].reading)' = Counted(counter)
    BY <1>1, <2>2 DEF Counted, Delta, MeterStill
  <2> QED BY <1>1, <2>2, <2>3, <2>4 DEF Accounted, MeterStill
<1> QED BY <1>2, <1>3, <1>4, <1>5 DEF MeterInv

\* The worker writes what a reading adds.
LEMMA MeterCount ==
  ASSUME MeterInv, NEW p \in Poll, Count(p)
  PROVE  MeterInv'
<1> DEFINE r == stats[p].reading
<1>1. /\ stats[p].step = "read"
      /\ total' = Counted(r) /\ last' = r
      /\ UNCHANGED <<carried, counter>>
      /\ stats' = [stats EXCEPT ![p] = [step |-> "done", reading |-> Zero]]
  BY DEF Count, Counted
<1>2. r \in Counters /\ Counted(r) \in Counters
  <2>1. r \in Counters
    BY DEF MeterInv, MeterType
  <2> QED BY <2>1, CountedType DEF MeterInv
<1>3. MeterType'
  BY <1>1, <1>2 DEF MeterInv, MeterType, Steps, Zero, Counters
<1>4. OnePoll'
  BY <1>1 DEF MeterInv, MeterType, OnePoll
<1>5. Accounted(r, Counted(r), counter, carried)
  BY <1>1 DEF MeterInv
<1>6. Accounted(last, total, counter, carried)'
  BY <1>1, <1>5 DEF Accounted
<1>7. \A q \in Poll : stats'[q].step # "read"
  BY <1>1 DEF MeterInv, MeterType, OnePoll
<1> QED BY <1>3, <1>4, <1>6, <1>7 DEF MeterInv

\* The steps of a tick: it begins, the call is given up, it ends.
LEMMA MeterTick ==
  ASSUME MeterInv, Tick
  PROVE  MeterInv'
<1>1. PICK p \in Poll : BeginTick(p) \/ EndTick(p) \/ (Miss(p) /\ UNCHANGED sessionVars)
  BY DEF Tick
<1>2. MeterStill
  BY <1>1 DEF MeterStill, BeginTick, EndTick, Miss
<1>3. /\ stats' \in [Poll -> [step: Steps, reading: Counters]]
      /\ \A q \in Poll \ {p} : stats'[q] = stats[q]
      /\ stats'[p].step # "read"
  BY <1>1 DEF BeginTick, EndTick, Miss, MeterInv, MeterType, Steps, Zero, Counters
<1>4. stats[p].step # "off" \/ \A q \in Poll : stats[q].step = "off"
  BY <1>1 DEF BeginTick, EndTick, Miss
<1>5. OnePoll'
  BY <1>3, <1>4 DEF MeterInv, OnePoll
<1> QED BY <1>2, <1>3, <1>5, MeterUnread

\* A kill forgets the polls that are under way.
LEMMA MeterKill ==
  ASSUME MeterInv, MeterStill, stats' = [p \in Poll |-> [step |-> "off", reading |-> Zero]]
  PROVE  MeterInv'
<1>1. stats' \in [Poll -> [step: Steps, reading: Counters]]
  BY DEF Steps, Zero, Counters
<1>2. OnePoll'
  BY DEF OnePoll
<1> QED BY <1>1, <1>2, MeterUnread

\* A step that leaves the metering alone.
LEMMA MeterSame ==
  ASSUME MeterInv, UNCHANGED meterVars
  PROVE  MeterInv'
<1>1. MeterStill /\ stats' = stats
  BY DEF meterVars, MeterStill
<1>2. OnePoll'
  BY <1>1 DEF OnePoll, MeterInv
<1> QED BY <1>1, <1>2, MeterUnread DEF MeterInv, MeterType

\* Every reading is accounted for, whatever the node and the worker do.
LEMMA MeterInvHolds == Spec => []MeterInv
<1>1. Init => MeterInv
  BY DEF Init, MeterInit, MeterInv, MeterType, OnePoll, Accounted, Counters, Zero, Steps
<1>2. MeterInv /\ [Next]_vars => MeterInv'
  <2> SUFFICES ASSUME MeterInv, [Next]_vars
               PROVE  MeterInv'
    OBVIOUS
  <2>1. CASE Tick
    BY <2>1, MeterTick
  <2>2. CASE Request
    <3>1. UNCHANGED meterVars \/ (MeterStill /\ stats' = [p \in Poll |-> [step |-> "off", reading |-> Zero]])
      BY <2>2 DEF Request, MeterStill
    <3> QED BY <3>1, MeterSame, MeterKill
  <2>3. CASE MeterStep
    BY <2>3, MeterNode, MeterRead, MeterCount DEF MeterStep
  <2>4. CASE Restart
    BY <2>4, MeterKill DEF Restart, MeterStill
  <2>5. CASE UNCHANGED vars
    BY <2>5, MeterSame DEF vars
  <2> QED BY <2>1, <2>2, <2>3, <2>4, <2>5 DEF Next
<1> QED BY <1>1, <1>2, PTL DEF Spec

\* CountedOnce: the worker of apps/api/src/worker.ts never counts a reading
\* twice, for any interleaving of stats calls, interface resets, lost answers
\* and kills, any number of directions and any number of bytes.
THEOREM CountedOnceHolds == Spec => []CountedOnce
<1>1. MeterInv => CountedOnce
  <2> SUFFICES ASSUME MeterInv, NEW d \in Dir
               PROVE  total[d] <= carried[d]
    BY DEF CountedOnce
  <2> QED BY DEF MeterInv, MeterType, Accounted, Counters
<1> QED BY <1>1, MeterInvHolds, PTL

-----------------------------------------------------------------------------
(* Recovery codes.                                                         *)

CodeInv ==
  /\ codes \subseteq Code
  /\ \A a \in admitted : a[1] \in Code /\ a[1] \notin codes
  /\ CodeAdmitsOnce

\* A login consumes the code it presents in the step that admits it.
LEMMA CodeLogin ==
  ASSUME CodeInv, NEW t \in Token, NEW remember \in BOOLEAN,
         NEW proof \in Secret \cup Code \cup {None}, FinishLogin(t, remember, proof)
  PROVE  CodeInv'
<1>1. CASE /\ proof \in codes /\ codes' = codes \ {proof}
           /\ admitted' = admitted \cup {<<proof, t>>}
  <2>1. \A a \in admitted : a[1] # proof
    BY <1>1 DEF CodeInv
  <2> QED BY <1>1, <2>1 DEF CodeInv, CodeAdmitsOnce
<1>2. CASE codes' \subseteq codes /\ admitted' = admitted
  BY <1>2 DEF CodeInv, CodeAdmitsOnce
<1>3. \/ /\ proof \in codes /\ codes' = codes \ {proof}
         /\ admitted' = admitted \cup {<<proof, t>>}
      \/ codes' \subseteq codes /\ admitted' = admitted
  BY DEF FinishLogin, Consumed
<1> QED BY <1>1, <1>2, <1>3

\* A step that leaves the codes alone, or replaces them by new ones.
LEMMA CodeSame ==
  ASSUME CodeInv, admitted' = admitted,
         \/ codes' = codes
         \/ codes' = {k \in Code : \A a \in admitted : a[1] # k}
  PROVE  CodeInv'
BY DEF CodeInv, CodeAdmitsOnce

\* CodeAdmitsOnce: consumeRecoveryCode of repository.ts takes a code out in the
\* statement that finds it, so that no code admits two logins, however many
\* await their password check, and whatever is killed or enrolled between.
THEOREM CodeAdmitsOnceHolds == Spec => []CodeAdmitsOnce
<1>1. Init => CodeInv
  BY DEF Init, SessionInit, CodeInv, CodeAdmitsOnce
<1>2. CodeInv /\ [Next]_vars => CodeInv'
  <2> SUFFICES ASSUME CodeInv, [Next]_vars
               PROVE  CodeInv'
    OBVIOUS
  <2>1. CASE Tick
    BY <2>1, CodeSame DEF Tick, BeginTick, EndTick, Miss, sessionVars, store
  <2>2. CASE Request
    <3>1. CASE Advance
      BY <3>1, CodeSame DEF Advance, store
    <3>2. ASSUME NEW t \in Token, NEW remember \in BOOLEAN,
                 NEW proof \in Secret \cup Code \cup {None}, FinishLogin(t, remember, proof)
          PROVE  CodeInv'
      BY <3>2, CodeLogin
    <3>3. ASSUME NEW t \in Token,
                 BeginLogin(t) \/ Authenticate(t) \/ Respond(t) \/ Logout(t)
                   \/ \E x \in Secret : Enroll(t, x)
          PROVE  CodeInv'
      BY <3>3, CodeSame DEF BeginLogin, Authenticate, Respond, Logout, Enroll, Handled, store
    <3>4. ASSUME NEW t \in Token, Confirm(t)
          PROVE  CodeInv'
      BY <3>4, CodeSame DEF Confirm, Handled
    <3>5. ASSUME NEW t \in Token, NEW op \in OpId, Repeat(t, op) \/ CreateRefused(t, op)
          PROVE  CodeInv'
      BY <3>5, CodeSame DEF Repeat, CreateRefused, Handled, store
    <3>6. ASSUME NEW t \in Token, NEW op \in OpId, NEW n \in 1..3,
                 RevokeOne(t, op, n) \/ RevokeOthers(t, op, n) \/ Create(t, op, n)
          PROVE  CodeInv'
      <4>1. codes' = codes /\ admitted' = admitted
        BY <3>6 DEF RevokeOne, RevokeOthers, Create, Revoke, Write, Handled
      <4> QED BY <4>1, CodeSame
    <3> QED BY <2>2, <3>1, <3>2, <3>3, <3>4, <3>5, <3>6 DEF Request, SessionStep
  <2>3. CASE MeterStep /\ UNCHANGED sessionVars
    BY <2>3, CodeSame DEF sessionVars, store
  <2>4. CASE Restart
    BY <2>4, CodeSame DEF Restart, store
  <2>5. CASE UNCHANGED vars
    BY <2>5, CodeSame DEF vars, sessionVars, store
  <2> QED BY <2>1, <2>2, <2>3, <2>4, <2>5 DEF Next
<1>3. CodeInv => CodeAdmitsOnce
  BY DEF CodeInv
<1> QED BY <1>1, <1>2, <1>3, PTL DEF Spec

-----------------------------------------------------------------------------
(* Operation ids.                                                          *)

Answer(k) == IF records[k].done THEN records[k].result ELSE 0

OnceInv ==
  /\ records \in [OpId -> Record \cup {None}]
  /\ effects \in [OpId -> 0..1]
  /\ \A k \in OpId : records[k] = None => effects[k] = 0
  /\ \A a \in answers : /\ a \in OpId \X (OpId \cup Nat \cup {None})
                        /\ records[a[1]] # None /\ a[2] = Answer(a[1])

onceVars == <<records, effects, answers>>

\* A step that touches no operation.
LEMMA OnceSame ==
  ASSUME OnceInv, UNCHANGED onceVars
  PROVE  OnceInv'
BY DEF OnceInv, onceVars, Answer

\* The number of the sessions that a request revokes.
LEMMA RevocableCount ==
  ASSUME NEW victims \in SUBSET Token
  PROVE  Cardinality(Revocable(victims)) \in Nat
<1>1. IsFiniteSet(Revocable(victims))
  BY FS_Subset, SessionsAssumption DEF Revocable
<1> QED BY <1>1, FS_CardinalityType

\* The record, the effect and the answer of an operation that is new.
LEMMA OnceWrite ==
  ASSUME OnceInv, NEW t \in Token, NEW op \in OpId, NEW n \in 1..3, NEW task \in Task,
         NEW result \in OpId \cup Nat, Write(t, op, n, task, result)
  PROVE  OnceInv'
<1> DEFINE r == [task |-> task, done |-> n = 3, result |-> IF n = 3 THEN result ELSE None]
<1>1. /\ records[op] = None
      /\ records' = [records EXCEPT ![op] = r]
      /\ effects' = [effects EXCEPT ![op] = IF n > 1 THEN @ + 1 ELSE @]
      /\ IF n = 3 THEN answers' = answers \cup {<<op, result>>} ELSE answers' = answers
  BY DEF Write
<1>2. r \in Record /\ r # None
  <2>1. r \in Record
    BY DEF Record
  <2> QED BY <2>1, SessionsAssumption
<1>3. /\ r.done = (n = 3) /\ (n = 3 => r.result = result)
  OBVIOUS
<1> HIDE DEF r
<1>4. records' \in [OpId -> Record \cup {None}]
  BY <1>1, <1>2 DEF OnceInv
<1>5. effects[op] = 0 /\ effects' \in [OpId -> 0..1]
  BY <1>1 DEF OnceInv
<1>6. \A k \in OpId : records'[k] = None => effects'[k] = 0
  BY <1>1, <1>2 DEF OnceInv
<1>7. ASSUME NEW a \in answers'
      PROVE  /\ a \in OpId \X (OpId \cup Nat \cup {None})
             /\ records'[a[1]] # None /\ a[2] = Answer(a[1])'
  <2>1. CASE a \in answers
    <3>1. a \in OpId \X (OpId \cup Nat \cup {None}) /\ a[1] # op
      BY <1>1, <2>1 DEF OnceInv
    <3> QED BY <1>1, <2>1, <3>1 DEF OnceInv, Answer
  <2>2. CASE n = 3 /\ a = <<op, result>>
    BY <1>1, <1>2, <1>3, <2>2 DEF OnceInv, Answer
  <2> QED BY <1>1, <1>7, <2>1, <2>2
<1> QED BY <1>4, <1>5, <1>6, <1>7 DEF OnceInv

\* An answer from the record.
LEMMA OnceRepeat ==
  ASSUME OnceInv, NEW t \in Token, NEW op \in OpId, Repeat(t, op)
  PROVE  OnceInv'
<1>1. /\ records[op] # None /\ UNCHANGED <<records, effects>>
      /\ answers' = answers \/ answers' = answers \cup {<<op, Answer(op)>>}
  BY DEF Repeat, store, Answer
<1>2. Answer(op) \in OpId \cup Nat \cup {None}
  BY <1>1 DEF Answer, OnceInv, Record
<1>3. \A a \in answers' : a \in answers \/ a = <<op, Answer(op)>>
  BY <1>1
<1>4. \A k \in OpId : Answer(k)' = Answer(k)
  BY <1>1 DEF Answer
<1> QED BY <1>1, <1>2, <1>3, <1>4 DEF OnceInv

\* An insert that throws.
LEMMA OnceRefused ==
  ASSUME OnceInv, NEW t \in Token, NEW op \in OpId, CreateRefused(t, op)
  PROVE  OnceInv'
<1> DEFINE r == [task |-> <<"create">>, done |-> FALSE, result |-> None]
<1>1. r \in Record /\ r # None
  <2>1. r \in Record
    BY DEF Record, Task
  <2> QED BY <2>1, SessionsAssumption
<1>2. /\ records[op] = None /\ records' = [records EXCEPT ![op] = r]
      /\ UNCHANGED <<effects, answers>>
  BY DEF CreateRefused
<1> HIDE DEF r
<1>3. \A a \in answers : a[1] \in OpId /\ a[1] # op
  BY <1>2 DEF OnceInv
<1>4. \A k \in OpId : k # op => records'[k] = records[k]
  BY <1>2 DEF OnceInv
<1>5. records'[op] = r /\ records' \in [OpId -> Record \cup {None}]
  BY <1>1, <1>2 DEF OnceInv
<1> QED BY <1>1, <1>2, <1>3, <1>4, <1>5 DEF OnceInv, Answer

\* Whatever is answered to an operation id is what its record says.
LEMMA OnceInvHolds == Spec => []OnceInv
<1>1. Init => OnceInv
  BY DEF Init, SessionInit, OnceInv
<1>2. OnceInv /\ [Next]_vars => OnceInv'
  <2> SUFFICES ASSUME OnceInv, [Next]_vars
               PROVE  OnceInv'
    OBVIOUS
  <2>1. CASE Tick
    BY <2>1, OnceSame DEF Tick, BeginTick, EndTick, Miss, sessionVars, store, onceVars
  <2>2. CASE Request
    <3>1. CASE Advance
      BY <3>1, OnceSame DEF Advance, store, onceVars
    <3>2. ASSUME NEW t \in Token, NEW remember \in BOOLEAN,
                 NEW proof \in Secret \cup Code \cup {None}, FinishLogin(t, remember, proof)
          PROVE  OnceInv'
      BY <3>2, OnceSame DEF FinishLogin, onceVars
    <3>3. ASSUME NEW t \in Token,
                 BeginLogin(t) \/ Authenticate(t) \/ Respond(t) \/ Logout(t) \/ Confirm(t)
                   \/ \E x \in Secret : Enroll(t, x)
          PROVE  OnceInv'
      BY <3>3, OnceSame
         DEF BeginLogin, Authenticate, Respond, Logout, Confirm, Enroll, Handled, store, onceVars
    <3>4. ASSUME NEW t \in Token, NEW op \in OpId, Repeat(t, op) \/ CreateRefused(t, op)
          PROVE  OnceInv'
      BY <3>4, OnceRepeat, OnceRefused
    <3>5. ASSUME NEW t \in Token, NEW op \in OpId, NEW n \in 1..3, RevokeOne(t, op, n)
          PROVE  OnceInv'
      <4>1. PICK u \in Token : Revoke(t, op, n, <<"revoke", u>>, {u})
        BY <3>5 DEF RevokeOne
      <4>2. <<"revoke", u>> \in Task /\ {u} \in SUBSET Token
        BY DEF Task
      <4> QED BY <4>1, <4>2, OnceWrite, RevocableCount DEF Revoke
    <3>6. ASSUME NEW t \in Token, NEW op \in OpId, NEW n \in 1..3, RevokeOthers(t, op, n)
          PROVE  OnceInv'
      <4>1. <<"revoke-others", t>> \in Task /\ Token \ {t} \in SUBSET Token
        BY DEF Task
      <4> QED BY <3>6, <4>1, OnceWrite, RevocableCount DEF RevokeOthers, Revoke
    <3>7. ASSUME NEW t \in Token, NEW op \in OpId, NEW n \in 1..3, Create(t, op, n)
          PROVE  OnceInv'
      BY <3>7, OnceWrite DEF Create, Task
    <3> QED BY <2>2, <3>1, <3>2, <3>3, <3>4, <3>5, <3>6, <3>7 DEF Request, SessionStep
  <2>3. CASE MeterStep /\ UNCHANGED sessionVars
    BY <2>3, OnceSame DEF sessionVars, store, onceVars
  <2>4. CASE Restart
    BY <2>4, OnceSame DEF Restart, store, onceVars
  <2>5. CASE UNCHANGED vars
    BY <2>5, OnceSame DEF vars, sessionVars, store, onceVars
  <2> QED BY <2>1, <2>2, <2>3, <2>4, <2>5 DEF Next
<1> QED BY <1>1, <1>2, PTL DEF Spec

\* OnceOnly: an Idempotency-Key takes effect at most once and every answer to
\* it is the same (beginIdempotency, finishIdempotency, idempotencyResult),
\* for every interleaving of requests, repeats, inserts that throw and kills.
THEOREM OnceOnlyHolds == Spec => []OnceOnly
<1>1. OnceInv => OnceOnly
  <2> SUFFICES ASSUME OnceInv
               PROVE  OnceOnly
    OBVIOUS
  <2>1. \A k \in OpId : effects[k] <= 1
    BY DEF OnceInv
  <2>2. ASSUME NEW a \in answers, NEW b \in answers, a[1] = b[1]
        PROVE  a = b
    <3>1. a = <<a[1], a[2]>> /\ b = <<b[1], b[2]>>
      BY DEF OnceInv
    <3> QED BY <2>2, <3>1 DEF OnceInv
  <2> QED BY <2>1, <2>2 DEF OnceOnly
<1> QED BY <1>1, OnceInvHolds, PTL

-----------------------------------------------------------------------------
(* Sessions and the types.                                                 *)

\* A login under way has no session yet.
SessionInv ==
  /\ now \in 0..MaxTime /\ kills \in 0..MaxKills
  /\ secret \in Secret \cup {None} /\ codes \subseteq Code
  /\ session \in [Token -> SessionType \cup {None}]
  /\ \A t \in Token : session[t] # None =>
       /\ (session[t].kind = "remembered") = (session[t].idle # None)
       /\ session[t].idle # None => session[t].idle <= session[t].expires
  /\ logins \in [Token -> Secret \cup {None, NotAsked}]
  /\ requests \in [Token -> {"none", "authenticated", "answered"}]
  /\ used \subseteq Token /\ admitted \subseteq Code \X Token
  /\ \A t \in used : logins[t] = NotAsked

\* A session that is handed out is one; its idle limit is within its lifetime.
LEMMA NewSessionType ==
  ASSUME SessionInv, NEW remember \in BOOLEAN
  PROVE  /\ NewSession(remember) \in SessionType
         /\ (NewSession(remember).kind = "remembered") = (NewSession(remember).idle # None)
         /\ NewSession(remember).idle # None =>
              NewSession(remember).idle <= NewSession(remember).expires
<1>1. now \in Nat /\ now \in 0..MaxTime /\ None \notin Nat
        /\ ShortTtl \in Nat /\ RememberedTtl \in Nat /\ IdleTtl \in Nat /\ MaxTime \in Nat
  BY SessionsAssumption DEF SessionInv
<1>2. ASSUME NEW e \in Nat PROVE IdleEnd(e) \in Nat /\ IdleEnd(e) <= e
  BY <1>1 DEF IdleEnd
<1>3. CASE remember
  <2>1. NewSession(remember) =
          [kind |-> "remembered", expires |-> now + RememberedTtl,
           idle |-> IdleEnd(now + RememberedTtl), seen |-> now, revoked |-> None, pending |-> None]
    BY <1>3 DEF NewSession
  <2> QED BY <1>1, <1>2, <2>1 DEF SessionType
<1>4. CASE ~remember
  <2>1. NewSession(remember) =
          [kind |-> "short", expires |-> now + ShortTtl,
           idle |-> None, seen |-> now, revoked |-> None, pending |-> None]
    BY <1>4 DEF NewSession
  <2> QED BY <1>1, <2>1 DEF SessionType
<1> QED BY <1>3, <1>4

\* What may happen to the session of t while the clock stands or goes on.
Fades(t) ==
  \/ session'[t] = None
  \/ session'[t] = session[t]
  \/ /\ session[t] # None
     /\ \/ session'[t] = [session[t] EXCEPT !.revoked = now]
        \/ \E x \in Secret \cup {None} : session'[t] = [session[t] EXCEPT !.pending = x]
        \/ /\ Touched(t)
           /\ session'[t] = [session[t] EXCEPT !.seen = now, !.idle = IdleEnd(session[t].expires)]

Touch(s, seen, idle) == [s EXCEPT !.seen = seen, !.idle = idle]

\* What touching a session leaves of it.
LEMMA TouchedFields ==
  ASSUME NEW s \in SessionType, NEW seen \in 0..MaxTime, NEW idle \in Nat
  PROVE  /\ Touch(s, seen, idle) \in SessionType
         /\ Touch(s, seen, idle).kind = s.kind
         /\ Touch(s, seen, idle).expires = s.expires
         /\ Touch(s, seen, idle).idle = idle
<1>1. [s EXCEPT !.seen = seen] \in SessionType
  BY DEF SessionType
<1> QED BY <1>1 DEF SessionType, Touch

\* However it fades, a session keeps its type, and does not come to life again.
LEMMA FadesFacts ==
  ASSUME SessionInv, NEW t \in Token, Fades(t), now' = now \/ now' = now + 1, now' \in Nat
  PROVE  /\ session'[t] \in SessionType \cup {None}
         /\ session'[t] # None =>
              /\ (session'[t].kind = "remembered") = (session'[t].idle # None)
              /\ session'[t].idle # None => session'[t].idle <= session'[t].expires
         /\ Live(t)' => Live(t)
<1>1. /\ now \in Nat /\ now \in 0..MaxTime /\ None \notin Nat /\ IdleTtl \in Nat /\ MaxTime \in Nat
      /\ session[t] \in SessionType \cup {None}
  BY SessionsAssumption DEF SessionInv
<1>2. CASE session'[t] = None
  BY <1>2 DEF Live
<1>3. CASE session'[t] = session[t]
  BY <1>1, <1>3 DEF Live, SessionInv, SessionType
<1>4. CASE session[t] # None /\ session'[t] = [session[t] EXCEPT !.revoked = now]
  BY <1>1, <1>4 DEF Live, SessionInv, SessionType
<1>5. ASSUME session[t] # None, NEW x \in Secret \cup {None},
             session'[t] = [session[t] EXCEPT !.pending = x]
      PROVE  /\ session'[t] \in SessionType \cup {None}
             /\ session'[t] # None =>
                  /\ (session'[t].kind = "remembered") = (session'[t].idle # None)
                  /\ session'[t].idle # None => session'[t].idle <= session'[t].expires
             /\ Live(t)' => Live(t)
  BY <1>1, <1>5 DEF Live, SessionInv, SessionType
<1>6. CASE /\ session[t] # None /\ Touched(t)
           /\ session'[t] = [session[t] EXCEPT !.seen = now, !.idle = IdleEnd(session[t].expires)]
  <2>1. Live(t)
    BY <1>6 DEF Touched, Live
  <2>2. session[t].expires \in Nat /\ session[t].kind = "remembered" /\ session[t] \in SessionType
    BY <1>1, <1>6 DEF SessionType, Touched
  <2>3. IdleEnd(session[t].expires) \in Nat /\ IdleEnd(session[t].expires) <= session[t].expires
    BY <1>1, <2>2 DEF IdleEnd
  <2> DEFINE limit == IdleEnd(session[t].expires)
             touched == Touch(session[t], now, limit)
  <2>4. limit \in Nat /\ limit <= session[t].expires
    BY <2>3
  <2> HIDE DEF limit
  <2>5. /\ touched \in SessionType
        /\ touched.kind = "remembered" /\ touched.idle = limit
        /\ touched.expires = session[t].expires
    <3>1. session[t] \in SessionType /\ now \in 0..MaxTime /\ limit \in Nat
      BY <1>1, <2>2, <2>4
    <3>2. /\ touched \in SessionType
          /\ touched.kind = session[t].kind /\ touched.idle = limit
          /\ touched.expires = session[t].expires
      BY <3>1, TouchedFields, ZenonT(20)
    <3> HIDE DEF touched
    <3> QED BY <2>2, <3>2
  <2>8. session'[t] = touched /\ session[t] # None
    BY <1>6 DEF limit, Touch
  <2> HIDE DEF touched
  <2> QED BY <1>1, <2>1, <2>4, <2>5, <2>8
<1> QED BY <1>2, <1>3, <1>4, <1>5, <1>6 DEF Fades

\* Every session fades, but the one a login makes.
LEMMA SessionFades ==
  ASSUME SessionInv, [Next]_vars, NEW t \in Token
  PROVE  \/ Fades(t)
         \/ \E remember \in BOOLEAN :
              /\ session'[t] = NewSession(remember) /\ t \notin used
              /\ UNCHANGED now
<1> USE DEF Fades
<1>1. session \in [Token -> SessionType \cup {None}]
  BY DEF SessionInv
<1>2. CASE Tick
  <2>1. ASSUME NEW p \in Poll, EndTick(p) PROVE session'[t] \in {None, session[t]}
    BY <2>1 DEF EndTick, Pruned
  <2>2. ASSUME NEW p \in Poll, BeginTick(p) \/ (Miss(p) /\ UNCHANGED sessionVars)
        PROVE  session' = session
    BY <2>2 DEF BeginTick, sessionVars, store
  <2> QED BY <1>2, <2>1, <2>2 DEF Tick
<1>3. ASSUME NEW u \in Token, NEW remember \in BOOLEAN,
             NEW proof \in Secret \cup Code \cup {None}, FinishLogin(u, remember, proof)
      PROVE  \/ Fades(t)
             \/ \E r \in BOOLEAN :
                  session'[t] = NewSession(r) /\ t \notin used /\ UNCHANGED now
  <2>1. logins[u] # NotAsked /\ u \notin used /\ now' = now
    BY <1>3 DEF FinishLogin, SessionInv
  <2>2. session' = session \/ session' = [session EXCEPT ![u] = NewSession(remember)]
    BY <1>3 DEF FinishLogin
  <2> QED BY <1>1, <2>1, <2>2
<1>4. ASSUME Advance \/ \E u \in Token : BeginLogin(u) \/ Authenticate(u)
               \/ \E op \in OpId : Repeat(u, op) \/ CreateRefused(u, op)
      PROVE  session' = session
  BY <1>4 DEF Advance, BeginLogin, Authenticate, Repeat, CreateRefused, store
<1>5. ASSUME NEW u \in Token, Respond(u) PROVE Fades(t)
  <2>1. CASE ~Touched(u)
    BY <1>5, <2>1 DEF Respond
  <2>2. CASE Touched(u)
    <3>1. /\ session[u] # None
          /\ session' = [session EXCEPT ![u] = [session[u] EXCEPT !.seen = now,
                                                  !.idle = IdleEnd(session[u].expires)]]
      BY <1>1, <1>5, <2>2 DEF Respond, Touched
    <3>2. CASE t = u
      <4>1. session'[t] = [session[t] EXCEPT !.seen = now, !.idle = IdleEnd(session[t].expires)]
        BY <1>1, <3>1, <3>2
      <4> QED BY <2>2, <3>1, <3>2, <4>1
    <3>3. CASE t # u
      BY <1>1, <3>1, <3>3
    <3> QED BY <3>2, <3>3
  <2> QED BY <2>1, <2>2
<1>6. ASSUME NEW u \in Token, Logout(u) PROVE Fades(t)
  BY <1>1, <1>6 DEF Logout
<1>7. ASSUME NEW u \in Token, Confirm(u) PROVE Fades(t)
  <2>1. session[u] # None /\ session' = [session EXCEPT ![u].pending = None]
    BY <1>7 DEF Confirm, Live
  <2> QED BY <1>1, <2>1
<1>8. ASSUME NEW u \in Token, NEW x \in Secret, Enroll(u, x) PROVE Fades(t)
  <2>1. session' = session \/ (session[u] # None /\ session' = [session EXCEPT ![u].pending = x])
    BY <1>8 DEF Enroll
  <2> QED BY <1>1, <2>1
<1>9. ASSUME NEW u \in Token, NEW op \in OpId, NEW n \in 1..3,
             RevokeOne(u, op, n) \/ RevokeOthers(u, op, n) \/ Create(u, op, n)
      PROVE  Fades(t)
  <2>1. session' = session \/ \E victims : session' = Revoked(victims)
    BY <1>9 DEF RevokeOne, RevokeOthers, Create, Revoke
  <2>2. ASSUME NEW victims, session' = Revoked(victims)
        PROVE  \/ session'[t] = session[t]
               \/ session[t] # None /\ session'[t] = [session[t] EXCEPT !.revoked = now]
    BY <2>2 DEF Revoked, Revocable
  <2> QED BY <2>1, <2>2
<1>10. ASSUME (MeterStep /\ UNCHANGED sessionVars) \/ Restart \/ UNCHANGED vars
       PROVE  session' = session
  BY <1>10 DEF Restart, vars, sessionVars, store
<1>11. CASE Request
  BY <1>3, <1>4, <1>5, <1>6, <1>7, <1>8, <1>9, <1>11 DEF Request, SessionStep
<1> QED BY <1>2, <1>10, <1>11 DEF Next

LEMMA SessionInvInit == Init => SessionInv
<1> SUFFICES ASSUME Init PROVE SessionInv
  OBVIOUS
<1> QED BY SessionsAssumption DEF Init, SessionInit, SessionInv

\* Time stands or goes on.
LEMMA ClockStep ==
  ASSUME SessionInv, [Next]_vars
  PROVE  now' \in 0..MaxTime /\ (now' = now \/ now' = now + 1) /\ now' \in Nat
<1>1. CASE ~Request
  <2>1. now' = now
    BY <1>1 DEF Next, Tick, BeginTick, EndTick, Restart, vars, sessionVars
  <2> QED BY <2>1, SessionsAssumption DEF SessionInv
<1>2. CASE Request
  <2>1. ASSUME NEW t \in Token
        PROVE  /\ BeginLogin(t) \/ Authenticate(t) \/ Respond(t) => now' = now
               /\ Logout(t) \/ Confirm(t) => now' = now
               /\ \A x \in Secret : Enroll(t, x) => now' = now
               /\ \A r \in BOOLEAN : \A proof : FinishLogin(t, r, proof) => now' = now
    BY DEF BeginLogin, Authenticate, Respond, Handled, Logout, Confirm, Enroll, FinishLogin
  <2>2. ASSUME NEW t \in Token, NEW op \in OpId
        PROVE  Repeat(t, op) \/ CreateRefused(t, op) => now' = now
    BY DEF Repeat, CreateRefused, Handled
  <2>3. ASSUME NEW t \in Token, NEW op \in OpId, NEW n \in 1..3
        PROVE  RevokeOne(t, op, n) \/ RevokeOthers(t, op, n) \/ Create(t, op, n) => now' = now
    <3>1. \A task, result : Write(t, op, n, task, result) => now' = now
      BY DEF Write, Handled
    <3> QED BY <3>1 DEF RevokeOne, RevokeOthers, Revoke, Create
  <2>4. now' = now \/ (now < MaxTime /\ now' = now + 1)
    BY <1>2, <2>1, <2>2, <2>3 DEF Request, SessionStep, Advance
  <2> QED BY <2>4, SessionsAssumption DEF SessionInv
<1> QED BY <1>1, <1>2

\* No step makes anything but a row per token of the sessions.
LEMMA SessionIsFunction ==
  ASSUME SessionInv, [Next]_vars
  PROVE  session' = [t \in Token |-> session'[t]]
<1>1. session \in [Token -> SessionType \cup {None}]
  BY DEF SessionInv
<1>2. session = [t \in Token |-> session[t]]
  BY <1>1
<1>3. CASE ~Request
  BY <1>2, <1>3 DEF Next, Tick, BeginTick, EndTick, Pruned, Restart, vars, sessionVars, store
<1>4. CASE Request
  <2>1. ASSUME NEW t \in Token
        PROVE  /\ BeginLogin(t) \/ Authenticate(t) => session' = session
               /\ Logout(t) \/ Confirm(t) \/ Respond(t) => \E s : session' = [session EXCEPT ![t] = s]
               /\ \A x \in Secret : Enroll(t, x) => \E s : session' = [session EXCEPT ![t] = s]
               /\ \A r \in BOOLEAN : \A proof :
                    FinishLogin(t, r, proof) => \E s : session' = [session EXCEPT ![t] = s]
    <3>1. session = [session EXCEPT ![t] = session[t]]
      BY <1>1
    <3>2. BeginLogin(t) \/ Authenticate(t) => session' = session
      BY DEF BeginLogin, Authenticate, store
    <3>3. Logout(t) \/ Confirm(t) => \E s : session' = [session EXCEPT ![t] = s]
      BY <1>1 DEF Logout, Confirm
    <3>4. Respond(t) => \E s : session' = [session EXCEPT ![t] = s]
      <4>1. CASE ~Touched(t)
        BY <3>1, <4>1 DEF Respond
      <4>2. CASE Touched(t)
        <5>1. Respond(t) => session' = [session EXCEPT ![t] = Touch(session[t], now, IdleEnd(session[t].expires))]
          BY <1>1, <4>2 DEF Respond, Touch
        <5> QED BY <5>1
      <4> QED BY <4>1, <4>2
    <3>5. \A x \in Secret : Enroll(t, x) => \E s : session' = [session EXCEPT ![t] = s]
      BY <1>1, <3>1 DEF Enroll
    <3>6. \A r \in BOOLEAN : \A proof :
            FinishLogin(t, r, proof) => \E s : session' = [session EXCEPT ![t] = s]
      BY <1>1, <3>1 DEF FinishLogin
    <3> QED BY <3>2, <3>3, <3>4, <3>5, <3>6
  <2>2. ASSUME NEW t \in Token, NEW op \in OpId
        PROVE  Repeat(t, op) \/ CreateRefused(t, op) => session' = session
    BY DEF Repeat, CreateRefused, store
  <2>3. ASSUME NEW t \in Token, NEW op \in OpId, NEW n \in 1..3
        PROVE  RevokeOne(t, op, n) \/ RevokeOthers(t, op, n) \/ Create(t, op, n)
                 => session' = session \/ \E victims : session' = Revoked(victims)
    BY DEF RevokeOne, RevokeOthers, Create, Revoke
  <2>4. \/ session' = session
        \/ \E t \in Token : \E s : session' = [session EXCEPT ![t] = s]
        \/ \E victims : session' = Revoked(victims)
    BY <1>4, <2>1, <2>2, <2>3 DEF Request, SessionStep, Advance, store
  <2>5. ASSUME NEW t \in Token, NEW s, session' = [session EXCEPT ![t] = s]
        PROVE  session' = [u \in Token |-> session'[u]]
    BY <1>1, <2>5
  <2> QED BY <1>2, <2>4, <2>5 DEF Revoked
<1> QED BY <1>3, <1>4

\* What else SessionInv says is kept, too: a token is handed out when its login
\* ends, and is not asked for again.
OthersType ==
  /\ secret \in Secret \cup {None} /\ codes \subseteq Code /\ kills \in 0..MaxKills
  /\ logins \in [Token -> Secret \cup {None, NotAsked}]
  /\ requests \in [Token -> {"none", "authenticated", "answered"}]
  /\ used \subseteq Token /\ admitted \subseteq Code \X Token
  /\ \A t \in used : logins[t] = NotAsked

LEMMA OthersKept ==
  ASSUME SessionInv, [Next]_vars
  PROVE  OthersType'
<1>0. OthersType /\ MaxKills \in Nat
  BY SessionsAssumption DEF SessionInv, OthersType
<1>1. CASE ~Request
  BY <1>0, <1>1 DEF OthersType, Next, Tick, BeginTick, EndTick, Restart, vars, sessionVars, store
<1>2. CASE Advance
  BY <1>0, <1>2 DEF OthersType, Advance, store
<1>3. ASSUME NEW t \in Token, BeginLogin(t) PROVE OthersType'
  BY <1>0, <1>3 DEF OthersType, BeginLogin, store
<1>4. ASSUME NEW t \in Token, NEW r \in BOOLEAN, NEW proof \in Secret \cup Code \cup {None},
             FinishLogin(t, r, proof)
      PROVE  OthersType'
  <2>1. /\ codes' \subseteq codes
        /\ used' \subseteq used \cup {t}
        /\ logins' = [logins EXCEPT ![t] = NotAsked]
        /\ UNCHANGED <<secret, kills, requests>>
    BY <1>4 DEF FinishLogin, Consumed
  <2>2. admitted' = admitted \/ (proof \in codes /\ admitted' = admitted \cup {<<proof, t>>})
    BY <1>4 DEF FinishLogin
  <2> QED BY <1>0, <2>1, <2>2 DEF OthersType
<1>5. ASSUME NEW t \in Token, Authenticate(t) \/ Respond(t) PROVE OthersType'
  BY <1>0, <1>5 DEF OthersType, Authenticate, Respond, store
<1>6. ASSUME NEW t \in Token, Logout(t) \/ \E x \in Secret : Enroll(t, x) PROVE OthersType'
  BY <1>0, <1>6 DEF OthersType, Logout, Enroll, Handled
<1>7. ASSUME NEW t \in Token, Confirm(t) PROVE OthersType'
  <2>1. secret' \in Secret
    <3>1. session[t] \in SessionType
      BY <1>7 DEF Confirm, Live, SessionInv
    <3> QED BY <1>7, <3>1 DEF Confirm, SessionType
  <2>2. /\ codes' \subseteq Code /\ requests' = [requests EXCEPT ![t] = "answered"]
        /\ UNCHANGED <<kills, logins, used, admitted>>
    BY <1>7 DEF Confirm, Handled
  <2> QED BY <1>0, <2>1, <2>2 DEF OthersType
<1>8. ASSUME NEW t \in Token, NEW op \in OpId, Repeat(t, op) \/ CreateRefused(t, op)
      PROVE  OthersType'
  BY <1>0, <1>8 DEF OthersType, Repeat, CreateRefused, Handled, store
<1>9. ASSUME NEW t \in Token, NEW op \in OpId, NEW n \in 1..3,
             RevokeOne(t, op, n) \/ RevokeOthers(t, op, n) \/ Create(t, op, n)
      PROVE  OthersType'
  <2>1. UNCHANGED <<secret, codes>> /\ \E task, result : Write(t, op, n, task, result)
    BY <1>9 DEF RevokeOne, RevokeOthers, Revoke, Create
  <2>2. ASSUME NEW task, NEW result, Write(t, op, n, task, result)
        PROVE  /\ kills' \in 0..MaxKills /\ UNCHANGED <<used, admitted>>
               /\ logins' = logins \/ logins' = [u \in Token |-> NotAsked]
               /\ requests' = [requests EXCEPT ![t] = "answered"]
                    \/ requests' = [u \in Token |-> "none"]
    BY <1>0, <2>2 DEF Write, Handled, OthersType
  <2> QED BY <1>0, <2>1, <2>2 DEF OthersType
<1> QED
  BY <1>1, <1>2, <1>3, <1>4, <1>5, <1>6, <1>7, <1>8, <1>9 DEF Request, SessionStep

LEMMA SessionInvNext == SessionInv /\ [Next]_vars => SessionInv'
<1> SUFFICES ASSUME SessionInv, [Next]_vars PROVE SessionInv'
  OBVIOUS
<1>1. now' \in 0..MaxTime /\ (now' = now \/ now' = now + 1) /\ now' \in Nat
  BY ClockStep
<1>2. \A t \in Token :
        /\ session'[t] \in SessionType \cup {None}
        /\ session'[t] # None =>
             /\ (session'[t].kind = "remembered") = (session'[t].idle # None)
             /\ session'[t].idle # None => session'[t].idle <= session'[t].expires
  <2> SUFFICES ASSUME NEW t \in Token
               PROVE  /\ session'[t] \in SessionType \cup {None}
                      /\ session'[t] # None =>
                           /\ (session'[t].kind = "remembered") = (session'[t].idle # None)
                           /\ session'[t].idle # None => session'[t].idle <= session'[t].expires
    OBVIOUS
  <2>1. CASE Fades(t)
    BY <1>1, <2>1, FadesFacts
  <2>2. ASSUME NEW r \in BOOLEAN, session'[t] = NewSession(r)
        PROVE  /\ session'[t] \in SessionType \cup {None}
               /\ session'[t] # None =>
                    /\ (session'[t].kind = "remembered") = (session'[t].idle # None)
                    /\ session'[t].idle # None => session'[t].idle <= session'[t].expires
    BY <2>2, NewSessionType
  <2> QED BY <2>1, <2>2, SessionFades
<1>3. \E f : session' = [t \in Token |-> f[t]]
  <2>1. session' = [t \in Token |-> session'[t]]
    BY SessionIsFunction
  <2> QED BY <2>1
<1>4. session' \in [Token -> SessionType \cup {None}]
  BY <1>2, <1>3
<1> QED BY <1>1, <1>2, <1>4, OthersKept DEF SessionInv, OthersType

\* A session that was revoked, logged out, has expired or was idle too long
\* never authenticates a request again, however late its last answer is sent.
THEOREM DeadStaysDeadHolds == Spec => DeadStaysDead
<1>1. SessionInv /\ SessionInv' /\ [Next]_vars
        => [\A t \in used : ~Live(t) => ~Live(t)']_vars
  <2> SUFFICES ASSUME SessionInv, SessionInv', [Next]_vars, NEW t \in used, Live(t)'
               PROVE  Live(t)
    OBVIOUS
  <2>1. t \in Token /\ Fades(t)
    BY SessionFades DEF SessionInv
  <2>2. now' \in Nat /\ (now' = now \/ now' = now + 1)
    BY ClockStep
  <2> QED BY <2>1, <2>2, FadesFacts
<1> QED BY <1>1, SessionInvInit, SessionInvNext, PTL DEF Spec, DeadStaysDead

-----------------------------------------------------------------------------
(* Types.  The counters of the node show no more than was carried.         *)

Bytes == [Dir -> 0..MaxBytes]

BoundInv ==
  /\ carried \in Bytes /\ counter \in Bytes /\ last \in Bytes /\ resets \in 0..MaxResets
  /\ \A d \in Dir : counter[d] <= carried[d]
  /\ stats \in [Poll -> [step: Steps, reading: Bytes]]

\* A tick and a kill end a poll, or begin one.
LEMMA BoundPolls ==
  ASSUME BoundInv, UNCHANGED <<carried, counter, last, resets>>,
         stats' \in [Poll -> [step: Steps, reading: Bytes]]
  PROVE  BoundInv'
BY DEF BoundInv

LEMMA BoundKept == BoundInv /\ [Next]_vars => BoundInv'
<1> SUFFICES ASSUME BoundInv, [Next]_vars PROVE BoundInv'
  OBVIOUS
<1>0. MaxBytes \in Nat /\ MaxResets \in Nat /\ Zero \in Bytes
  BY MeteringAssumption DEF Zero, Bytes
<1>1. CASE Tick
  <2>1. ASSUME NEW p \in Poll, BeginTick(p) \/ EndTick(p) \/ Miss(p)
        PROVE  BoundInv'
    <3>1. UNCHANGED <<carried, counter, last, resets>>
      BY <2>1 DEF BeginTick, EndTick, Miss
    <3>2. \/ \E step \in Steps : stats' = [stats EXCEPT ![p].step = step]
          \/ stats' = [stats EXCEPT ![p] = [step |-> "done", reading |-> Zero]]
      BY <2>1 DEF BeginTick, EndTick, Miss, Steps
    <3>3. stats' \in [Poll -> [step: Steps, reading: Bytes]]
      BY <1>0, <3>2 DEF BoundInv, Steps
    <3> QED BY <3>1, <3>3, BoundPolls
  <2> QED BY <1>1, <2>1 DEF Tick
<1>2. CASE Request \/ Restart \/ UNCHANGED vars
  <2>1. /\ UNCHANGED <<carried, counter, last, resets>>
        /\ stats' = stats \/ stats' = [p \in Poll |-> [step |-> "off", reading |-> Zero]]
    BY <1>2 DEF Request, Restart, vars, meterVars
  <2>2. stats' \in [Poll -> [step: Steps, reading: Bytes]]
    BY <1>0, <2>1 DEF BoundInv, Steps
  <2> QED BY <2>1, <2>2, BoundPolls
<1>3. CASE Reset
  <2>1. resets' \in 0..MaxResets
    BY <1>0, <1>3 DEF Reset, BoundInv
  <2>2. \A d \in Dir : Zero[d] <= carried[d]
    BY DEF BoundInv, Bytes, Zero
  <2> QED BY <1>0, <1>3, <2>1, <2>2 DEF Reset, BoundInv
<1>4. ASSUME NEW d \in Dir, Carry(d) PROVE BoundInv'
  <2>1. /\ carried[d] \in 0..MaxBytes /\ carried[d] < MaxBytes
        /\ counter[d] \in 0..MaxBytes /\ counter[d] <= carried[d]
    BY <1>4 DEF Carry, BoundInv, Bytes
  <2>2. carried[d] + 1 \in 0..MaxBytes /\ counter[d] + 1 \in 0..MaxBytes
          /\ counter[d] + 1 <= carried[d] + 1
    BY <1>0, <2>1
  <2>3. /\ carried' = [carried EXCEPT ![d] = carried[d] + 1]
        /\ counter' = [counter EXCEPT ![d] = counter[d] + 1]
        /\ UNCHANGED <<last, resets, stats>>
    BY <1>4 DEF Carry
  <2>4. carried' \in Bytes /\ counter' \in Bytes
    BY <2>2, <2>3 DEF BoundInv, Bytes
  <2>5. \A e \in Dir : counter'[e] <= carried'[e]
    BY <2>2, <2>3 DEF BoundInv, Bytes
  <2> QED BY <2>3, <2>4, <2>5 DEF BoundInv
<1>5. ASSUME NEW p \in Poll, Read(p) PROVE BoundInv'
  BY <1>5, BoundPolls DEF Read, BoundInv, Steps
<1>6. ASSUME NEW p \in Poll, Count(p) PROVE BoundInv'
  BY <1>0, <1>6 DEF Count, BoundInv, Steps
<1> QED BY <1>1, <1>2, <1>3, <1>4, <1>5, <1>6 DEF Next, MeterStep

\* The variables have their types; a touch never moves the idle limit of a
\* remembered session past the end of its lifetime.
THEOREM ServerTypes == Spec => []TypeOK
<1>1. Init => BoundInv
  BY MeteringAssumption DEF Init, MeterInit, BoundInv, Bytes, Zero, Steps
<1>2. SessionInv /\ MeterInv /\ OnceInv /\ BoundInv => TypeOK
  <2> SUFFICES ASSUME SessionInv, MeterInv, OnceInv, BoundInv
               PROVE  TypeOK
    OBVIOUS
  <2>1. /\ {carried, counter, last} \subseteq [Dir -> 0..MaxBytes] /\ total \in [Dir -> Nat]
        /\ stats \in [Poll -> [step: Steps, reading: [Dir -> 0..MaxBytes]]]
        /\ resets \in 0..MaxResets
    BY DEF BoundInv, Bytes, MeterInv, MeterType, Counters
  <2>2. records \in [OpId -> Record \cup {None}] /\ effects \in [OpId -> Nat]
    BY DEF OnceInv
  <2> QED BY <2>1, <2>2 DEF SessionInv, TypeOK
<1> QED
  BY <1>1, <1>2, BoundKept, MeterInvHolds, OnceInvHolds, SessionInvInit, SessionInvNext, PTL DEF Spec

=============================================================================
