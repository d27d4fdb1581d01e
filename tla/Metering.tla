------------------------------ MODULE Metering ------------------------------
(***************************************************************************)
(* The traffic of one connection as the Panel counts it from the peer      *)
(* counters of the node (updateTraffic of apps/api/src/repository.ts, the  *)
(* stats call of worker.ts).  The counters start again when the interface  *)
(* does.                                                                   *)
(***************************************************************************)
EXTENDS Naturals

CONSTANTS
  Dir,       \* directions, rx and tx
  Poll,      \* stats calls that may be under way
  MaxBytes,  \* bound: what is carried in a direction
  MaxResets  \* bound: restarts of the interface

ASSUME MeteringAssumption == MaxBytes \in Nat /\ MaxResets \in Nat

VARIABLES
  carried,   \* Dir -> what the connection has carried
  counter,   \* Dir -> the peer's counters at the node
  last,      \* Dir -> last_counter_rx, last_counter_tx
  total,     \* Dir -> rx_bytes_total, tx_bytes_total
  stats,     \* Poll -> the step of its stats call, and the counters it has read
  resets

Steps == {"off", "asked", "read", "done"}
meterVars == <<carried, counter, last, total, stats, resets>>

Zero == [d \in Dir |-> 0]

MeterInit ==
  /\ carried = Zero /\ counter = Zero /\ last = Zero /\ total = Zero
  /\ stats = [p \in Poll |-> [step |-> "off", reading |-> Zero]]
  /\ resets = 0

Carry(d) ==
  /\ carried[d] < MaxBytes
  /\ carried' = [carried EXCEPT ![d] = @ + 1]
  /\ counter' = [counter EXCEPT ![d] = @ + 1]
  /\ UNCHANGED <<last, total, stats, resets>>

Reset ==
  /\ resets < MaxResets /\ resets' = resets + 1
  /\ counter' = Zero
  /\ UNCHANGED <<carried, last, total, stats>>

Read(p) ==
  /\ stats[p].step = "asked"
  /\ stats' = [stats EXCEPT ![p] = [step |-> "read", reading |-> counter]]
  /\ UNCHANGED <<carried, counter, last, total, resets>>

\* updateTraffic: a counter that went back, in either direction, counts from
\* zero in both.
Delta(reading) ==
  IF \E d \in Dir : reading[d] < last[d] THEN reading
  ELSE [d \in Dir |-> reading[d] - last[d]]

Count(p) ==
  /\ stats[p].step = "read"
  /\ total' = [d \in Dir |-> total[d] + Delta(stats[p].reading)[d]]
  /\ last' = stats[p].reading
  /\ stats' = [stats EXCEPT ![p] = [step |-> "done", reading |-> Zero]]
  /\ UNCHANGED <<carried, counter, resets>>

\* The node does not answer, or refuses: the poll ends without an update.
Miss(p) ==
  /\ stats[p].step \in {"asked", "read"}
  /\ stats' = [stats EXCEPT ![p] = [step |-> "done", reading |-> Zero]]
  /\ UNCHANGED <<carried, counter, last, total, resets>>

MeterStep ==
  \/ Reset
  \/ \E d \in Dir : Carry(d)
  \/ \E p \in Poll : Read(p) \/ Count(p)
=============================================================================
