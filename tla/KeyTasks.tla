------------------------------- MODULE KeyTasks -------------------------------
(***************************************************************************)
(* What the two guards of a key, its breaker and its token bucket, have in *)
(* common: the tasks that share it, and the clock they sample.             *)
(***************************************************************************)

CONSTANTS
  Threads,  \* tasks that use the key
  MaxClock  \* bound on the clock

VARIABLES
  clock,    \* the process clock, in milliseconds
  pc,       \* where each thread stands
  local     \* what it knows there
=============================================================================
