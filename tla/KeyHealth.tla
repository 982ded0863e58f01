------------------------------ MODULE KeyHealth ------------------------------
(***************************************************************************)
(* What the breaker of a key promises, with every operation in one step:   *)
(* a gate that failures close off, that offers one trial per cooldown, and *)
(* that an answer reopens.  Breaker.tla implements it with a word that     *)
(* threads load in one step and exchange in a later one.                   *)
(***************************************************************************)
EXTENDS Integers

CONSTANTS
  Cooldown, \* time between the closing of the gate and a trial
  MaxSkew   \* how far a caller's clock sample may lag behind the clock

VARIABLES
  gate,     \* [state, since]
  time,     \* the process clock
  lastTrial \* when the last trial was offered since the gate reopened, or -1

gvars == <<gate, time, lastTrial>>

GateInit ==
  /\ gate = [state |-> "closed", since |-> 0]
  /\ time = 0
  /\ lastTrial = -1

\* The clock samples a caller may hold.
Samples == {n \in Nat : n <= time /\ time <= n + MaxSkew}

Pass ==
  /\ time' = time + 1
  /\ UNCHANGED <<gate, lastTrial>>

\* A key in service is taken out of it.
Trip ==
  /\ gate.state = "closed"
  /\ gate' = [state |-> "open", since |-> gate'.since]
  /\ gate'.since \in Samples
  /\ UNCHANGED <<time, lastTrial>>

\* A configured cooldown of zero asks for no wait.
Waited(n, since) == n - since >= Cooldown \/ Cooldown = 0

\* One trial: never sooner than a cooldown after the gate closed or after
\* the trial before it.
Offer ==
  /\ gate.state # "closed"
  /\ gate' = [state |-> "half", since |-> gate'.since]
  /\ gate'.since \in Samples
  /\ Waited(gate'.since, gate.since)
  /\ lastTrial # -1 => gate'.since - lastTrial >= Cooldown - MaxSkew
  /\ lastTrial' = gate'.since
  /\ UNCHANGED time

\* The trial failed, or another request did while it was out.
Reopen ==
  /\ gate.state = "half"
  /\ gate' = [state |-> "open", since |-> gate'.since]
  /\ gate'.since \in Samples
  /\ UNCHANGED <<time, lastTrial>>

\* A request was answered.
Restore ==
  /\ gate' = [state |-> "closed", since |-> 0]
  /\ lastTrial' = -1
  /\ UNCHANGED time

GateNext == Pass \/ Trip \/ Offer \/ Reopen \/ Restore

GateSpec == GateInit /\ [][GateNext]_gvars
=============================================================================
