------------------------------- MODULE Breaker -------------------------------
(***************************************************************************)
(* The per-key circuit breaker of router-core (breaker.rs), one access of  *)
(* shared memory per action.                                               *)
(*                                                                         *)
(* A thread is a task that decides whether to put a request on the key     *)
(* (looks_healthy, then admit), holds it in flight, and reports how it     *)
(* ended (record_success, record_failure, bench_until).  One may be the    *)
(* maintenance of seats, which probes a key that is out of service.  Tasks *)
(* run in parallel, so between any two accesses of one another may take    *)
(* any number of its own.                                                  *)
(*                                                                         *)
(* Time is the process clock in milliseconds, abstracted to small numbers. *)
(* A task samples it before it calls the breaker and may be descheduled    *)
(* before the call has finished: MaxSkew bounds by how much the sample is  *)
(* out of date by then.  The program itself has no such bound.             *)
(*                                                                         *)
(* A definition named <name>_<fault> is <name> with a fault, kept to show  *)
(* that the properties detect it; no specification uses it.                *)
(***************************************************************************)
EXTENDS KeyTasks, Integers, FiniteSets

CONSTANTS
  Threshold,    \* failure_threshold: failures of one window that open it
  Window,       \* window_ms
  Cooldown,     \* cooldown_ms
  BenchLengths, \* lengths of the quota windows a provider reports
  Maintenance,  \* spawn_seat_maintenance, if the key is the seat of a subscription
  MaxSkew,      \* bound on the age of a clock sample inside a call
  MaxCount,     \* bound: once so many failures are counted, no exchange fails
                \* for no reason
  LastTrouble   \* bound: no failure and no bench is reported after this time

ASSUME BreakerAssumption ==
  /\ Threshold \in Nat \ {0}
  /\ Window \in Nat
  /\ Cooldown \in Nat
  /\ BenchLengths \subseteq Nat \ {0}
  /\ Maintenance \subseteq Threads
  /\ MaxSkew \in Nat
  /\ MaxClock \in Nat
  /\ MaxCount \in Nat
  /\ LastTrouble \in Nat

VARIABLES
  word,         \* the packed word: the state and the time it was entered
  failures,     \* failures counted in the window
  windowStart,  \* window_start_ms
  bench,        \* bench_until_ms, 0 when there is no bench
  \* history
  held,         \* the latest deadline reported and not withdrawn since
  lastProbe     \* time of the latest probe since the breaker last closed

vars == <<word, failures, windowStart, bench, clock, pc, local, held, lastProbe>>

None == -1
Word == [state : {"closed", "open", "half"}, since : Nat]

\* Between two calls of the breaker a thread holds no clock sample.
Ended   == {"idle", "served", "failed", "refused"}
Resting == Ended \cup {"flight", "checked", "limited", "elsewhere"}
Calling == {"look", "admit", "clear", "load", "claim", "close", "unbench",
            "reopen", "window", "roll", "reset", "count", "trip"}

\* now: the clock sample of the call; cur: the word it loaded last; seen: the
\* bench or the window start it loaded last; then: where it goes when the call
\* returns; due (history): held when the request was sent.
Local == [now : Nat, cur : Word, seen : Nat, then : Ended, due : Nat]

\* The word, the counters and what every thread knows stay in their types.
TypeOK ==
  /\ word \in Word
  /\ failures \in Nat
  /\ windowStart \in Nat
  /\ bench \in Nat
  /\ clock \in Nat
  /\ pc \in [Threads -> Resting \cup Calling]
  /\ local \in [Threads -> Local]
  /\ held \in Nat
  /\ lastProbe \in Nat \cup {None}

pack(since, state) == [state |-> state, since |-> since]

Fresh == [now |-> 0, cur |-> pack(0, "closed"), seen |-> 0, then |-> "idle", due |-> 0]

\* Breaker::new
Init ==
  /\ word = pack(0, "closed")
  /\ failures = 0
  /\ windowStart = 0
  /\ bench = 0
  /\ clock = 0
  /\ pc = [t \in Threads |-> "idle"]
  /\ local = [t \in Threads |-> Fresh]
  /\ held = 0
  /\ lastProbe = None

-----------------------------------------------------------------------------
\* u64::saturating_sub of two clock readings.
Elapsed(n, since) == IF n > since THEN n - since ELSE 0

Later(a, b) == IF a > b THEN a ELSE b

\* The thread goes on at a label, knowing l.  What a call knew is gone when it
\* returns; what a request knows of its sending is gone when it ends.
Goto(t, label, l) ==
  /\ pc' = [pc EXCEPT ![t] = label]
  /\ local' = [local EXCEPT ![t] =
                 IF label = "idle" THEN Fresh
                 ELSE IF label \in Resting THEN [Fresh EXCEPT !.due = l.due]
                 ELSE l]

\* A deadline that has passed is not a bench.
is_benched(deadline, n) == deadline # 0 /\ n < deadline

Tick ==
  /\ clock < MaxClock
  /\ \A t \in Threads : pc[t] \in Calling => clock + 1 - local[t].now <= MaxSkew
  /\ clock' = clock + 1
  /\ UNCHANGED <<word, failures, windowStart, bench, pc, local, held, lastProbe>>

-----------------------------------------------------------------------------
(* Selection *)

Sample(t) == [local[t] EXCEPT !.now = clock, !.due = held]

\* A key that does not look healthy is asked by admit if no healthy key of the
\* pool has taken the request, and by nobody if one has.
Passed(t, l) == Goto(t, "admit", l) \/ Goto(t, "elsewhere", Fresh)

\* A request arrives and looks_healthy loads the word.
Arrive(t) ==
  /\ pc[t] = "idle" /\ t \notin Maintenance
  /\ IF word.state = "closed" THEN Goto(t, "look", Sample(t)) ELSE Passed(t, Sample(t))
  /\ UNCHANGED <<word, failures, windowStart, bench, clock, held, lastProbe>>

\* A provider without keys goes straight to admit.
ArriveKeyless(t) ==
  /\ pc[t] = "idle" /\ t \notin Maintenance
  /\ Goto(t, "admit", Sample(t))
  /\ UNCHANGED <<word, failures, windowStart, bench, clock, held, lastProbe>>

\* recover_seat loads the word: a seat that looks healthy is left alone.
Sweep(t) ==
  /\ pc[t] = "idle" /\ t \in Maintenance
  /\ Goto(t, IF word.state = "closed" THEN "look" ELSE "admit", Sample(t))
  /\ UNCHANGED <<word, failures, windowStart, bench, clock, held, lastProbe>>

\* A key that is up carries the request; the maintenance has nothing to do.
Up(t) == IF t \in Maintenance THEN "idle" ELSE "flight"

\* A benched one is passed over; recover_seat reads the clock again for admit.
Benched(t) ==
  IF t \in Maintenance THEN Goto(t, "admit", [local[t] EXCEPT !.now = clock])
  ELSE Passed(t, local[t])

LooksHealthy_WordOnly(t) ==
  /\ pc[t] = "look"
  /\ Goto(t, Up(t), local[t])
  /\ UNCHANGED <<word, failures, windowStart, bench, clock, held, lastProbe>>

\* The second half of looks_healthy: the bench is loaded after the word.
LooksHealthy(t) ==
  /\ pc[t] = "look"
  /\ IF is_benched(bench, local[t].now) THEN Benched(t) ELSE Goto(t, Up(t), local[t])
  /\ UNCHANGED <<word, failures, windowStart, bench, clock, held, lastProbe>>

-----------------------------------------------------------------------------
(* admit *)

AdmitBench(t) ==
  /\ pc[t] = "admit"
  /\ Goto(t, IF is_benched(bench, local[t].now) THEN "idle"
             ELSE IF bench # 0 THEN "clear"
             ELSE "load",
          [local[t] EXCEPT !.seen = bench])
  /\ UNCHANGED <<word, failures, windowStart, bench, clock, held, lastProbe>>

\* The expired bench is cleared by exchange: a longer one that has landed
\* since stays.
ClearBench(t) ==
  /\ pc[t] = "clear"
  /\ bench' = IF bench = local[t].seen THEN 0 ELSE bench
  /\ Goto(t, "load", local[t])
  /\ UNCHANGED <<word, failures, windowStart, clock, held, lastProbe>>

Judge_NoReclaim(t, w) ==
  Goto(t, IF w.state = "closed" THEN Up(t)
          ELSE IF w.state = "half" \/ Elapsed(local[t].now, w.since) < Cooldown THEN "idle"
          ELSE "claim",
       [local[t] EXCEPT !.cur = w])

\* One turn of admit's loop on the word it has just loaded.  A probe that has
\* been out for a whole cooldown is presumed dead.
Judge(t, w) ==
  Goto(t, IF w.state = "closed" THEN Up(t)
          ELSE IF Elapsed(local[t].now, w.since) < Cooldown THEN "idle"
          ELSE "claim",
       [local[t] EXCEPT !.cur = w])

AdmitWord(t) ==
  /\ pc[t] = "load"
  /\ Judge(t, word)
  /\ UNCHANGED <<word, failures, windowStart, bench, clock, held, lastProbe>>

ClaimProbe_Store(t) ==
  /\ pc[t] = "claim"
  /\ word' = pack(local[t].now, "half")
  /\ lastProbe' = local[t].now
  /\ Goto(t, "flight", local[t])
  /\ UNCHANGED <<failures, windowStart, bench, clock, held>>

\* compare_exchange_weak: it succeeds on the word loaded before, and fails
\* on another one or for no reason.
ClaimProbe(t) ==
  /\ pc[t] = "claim"
  /\ \/ /\ word = local[t].cur
        /\ word' = pack(local[t].now, "half")
        /\ lastProbe' = local[t].now
        /\ Goto(t, "flight", local[t])
     \/ /\ Judge(t, word)
        /\ UNCHANGED <<word, lastProbe>>
  /\ UNCHANGED <<failures, windowStart, bench, clock, held>>

-----------------------------------------------------------------------------
(* The request in flight *)

\* A check by an operator: a request sent on the key without admission.
Check(t) ==
  /\ pc[t] = "idle" /\ t \notin Maintenance
  /\ Goto(t, "checked", Sample(t))
  /\ UNCHANGED <<word, failures, windowStart, bench, clock, held, lastProbe>>

\* Nothing more to report.  From "flight" the request says nothing of how it
\* ended: cancelled, no free slot, a probe that did not reach the provider, or
\* relayed on a path that does not report; a probe's slot is then not returned.
Finish(t) ==
  /\ pc[t] \in Resting \ {"idle"}
  /\ Goto(t, "idle", Fresh)
  /\ UNCHANGED <<word, failures, windowStart, bench, clock, held, lastProbe>>

\* Where a task may be told of a quota window.  A request benches after it has
\* recorded the failure, a check or a probe of the maintenance before.
Told(t) == {"checked", "refused", IF t \in Maintenance THEN "flight" ELSE "failed"}

bench_until_Store(t) ==
  \E length \in BenchLengths :
    /\ clock <= LastTrouble
    /\ pc[t] \in Told(t)
    /\ bench' = clock + length
    /\ held' = Later(held, clock + length)
    /\ Goto(t, IF pc[t] \in {"checked", "flight"} THEN "limited" ELSE "idle", local[t])
    /\ UNCHANGED <<word, failures, windowStart, clock, lastProbe>>

\* bench_until, a fetch_max.
bench_until(t) ==
  \E length \in BenchLengths :
    /\ clock <= LastTrouble
    /\ pc[t] \in Told(t)
    /\ bench' = Later(bench, clock + length)
    /\ held' = Later(held, clock + length)
    /\ Goto(t, IF pc[t] \in {"checked", "flight"} THEN "limited" ELSE "idle", local[t])
    /\ UNCHANGED <<word, failures, windowStart, clock, lastProbe>>

-----------------------------------------------------------------------------
(* record_success: three stores *)

\* Answered; or a seat renewed after the 401 it had recorded as a failure.
record_success(t) ==
  /\ pc[t] \in {"flight", "checked", "failed"}
  /\ failures' = 0
  /\ Goto(t, "close",
          [local[t] EXCEPT !.now = clock,
                           !.then = IF pc[t] = "failed" THEN "idle" ELSE "served"])
  /\ UNCHANGED <<word, windowStart, bench, clock, held, lastProbe>>

CloseWord(t) ==
  /\ pc[t] = "close"
  /\ word' = pack(0, "closed")
  /\ lastProbe' = None
  /\ Goto(t, "unbench", local[t])
  /\ UNCHANGED <<failures, windowStart, bench, clock, held>>

Unbench(t) ==
  /\ pc[t] = "unbench"
  /\ bench' = 0
  /\ held' = 0
  /\ pc' = [pc EXCEPT ![t] = local[t].then]
  /\ local' = [u \in Threads |->
                 IF u = t THEN Fresh ELSE [local[u] EXCEPT !.due = 0]]
  /\ UNCHANGED <<word, failures, windowStart, clock, lastProbe>>

-----------------------------------------------------------------------------
(* record_failure *)

\* One turn of the loop on the word it has just loaded.
JudgeFailure(t, w, l) ==
  Goto(t, CASE w.state = "open"   -> l.then
            [] w.state = "half"   -> "reopen"
            [] w.state = "closed" -> "window",
       [l EXCEPT !.cur = w])

\* A transport error, a 429 or 5xx, a seat that cannot authenticate, or a
\* refusal found inside an answer that had been recorded as a success.
record_failure(t) ==
  /\ clock <= LastTrouble
  /\ pc[t] \in {"flight", "checked", "limited", "served"}
  /\ JudgeFailure(t, word,
       [local[t] EXCEPT !.now = clock,
                        !.then = CASE pc[t] = "served"  -> "refused"
                                   [] pc[t] = "limited" -> "idle"
                                   [] OTHER             -> "failed"])
  /\ UNCHANGED <<word, failures, windowStart, bench, clock, held, lastProbe>>

\* The exchange that ends record_failure.  A failure is counted again when it
\* fails and the key is closed.
OpenAt(t, since) ==
  /\ \/ /\ word = local[t].cur
        /\ word' = pack(since, "open")
        /\ Goto(t, local[t].then, local[t])
     \/ /\ word # local[t].cur \/ failures < MaxCount
        /\ JudgeFailure(t, word, local[t])
        /\ UNCHANGED word
  /\ UNCHANGED <<failures, windowStart, bench, clock, held, lastProbe>>

Reopen_KeepsTime(t) == pc[t] = "reopen" /\ OpenAt(t, 0)

\* A failure while a probe is out opens the breaker with a fresh cooldown.
Reopen(t) == pc[t] = "reopen" /\ OpenAt(t, local[t].now)

LoadWindow(t) ==
  /\ pc[t] = "window"
  /\ Goto(t, IF Elapsed(local[t].now, windowStart) > Window THEN "roll" ELSE "count",
          [local[t] EXCEPT !.seen = windowStart])
  /\ UNCHANGED <<word, failures, windowStart, bench, clock, held, lastProbe>>

\* Whoever exchanges the start of an old window begins a new one.
RollWindow(t) ==
  /\ pc[t] = "roll"
  /\ IF windowStart = local[t].seen
     THEN windowStart' = local[t].now /\ Goto(t, "reset", local[t])
     ELSE UNCHANGED windowStart /\ Goto(t, "count", local[t])
  /\ UNCHANGED <<word, failures, bench, clock, held, lastProbe>>

ResetCount(t) ==
  /\ pc[t] = "reset"
  /\ failures' = 1
  /\ Goto(t, IF 1 < Threshold THEN local[t].then ELSE "trip", local[t])
  /\ UNCHANGED <<word, windowStart, bench, clock, held, lastProbe>>

\* fetch_add
Count(t) ==
  /\ pc[t] = "count"
  /\ failures' = failures + 1
  /\ Goto(t, IF failures' < Threshold THEN local[t].then ELSE "trip", local[t])
  /\ UNCHANGED <<word, windowStart, bench, clock, held, lastProbe>>

Trip(t) == pc[t] = "trip" /\ OpenAt(t, local[t].now)

-----------------------------------------------------------------------------
Select(t)  == Arrive(t) \/ ArriveKeyless(t) \/ Sweep(t) \/ LooksHealthy(t)
admit(t)   == AdmitBench(t) \/ ClearBench(t) \/ AdmitWord(t) \/ ClaimProbe(t)
Outcome(t) == Finish(t) \/ bench_until(t) \/ record_success(t) \/ record_failure(t)
Succeed(t) == CloseWord(t) \/ Unbench(t)
Fail(t)    == \/ Reopen(t) \/ LoadWindow(t) \/ RollWindow(t)
              \/ ResetCount(t) \/ Count(t) \/ Trip(t)

Next ==
  \/ Tick
  \/ \E t \in Threads :
       Select(t) \/ admit(t) \/ Check(t) \/ Outcome(t) \/ Succeed(t) \/ Fail(t)

Spec == Init /\ [][Next]_vars

\* Time passes, and the runtime schedules every task: a call of the breaker
\* runs to its end (an exchange does not fail for no reason for ever), and
\* the upstream timeout ends every request.  The maintenance is a loop.
Fairness ==
  /\ WF_vars(Tick)
  /\ \A t \in Threads :
       /\ WF_vars(LooksHealthy(t) \/ admit(t) \/ Succeed(t) \/ Fail(t))
       /\ WF_vars(Outcome(t))
       /\ SF_vars(Trip(t) /\ word' # word)
  /\ \A t \in Maintenance : WF_vars(Sweep(t))

\* Requests keep arriving; other keys of the pool may take them all.
FairSpec == Spec /\ Fairness /\ \A t \in Threads : WF_vars(Arrive(t))

-----------------------------------------------------------------------------
(* Properties *)

\* Half-open admits one request per cooldown: between the clock samples of
\* two probes with no success between them lies a cooldown, less what the
\* sample of the failure between them may lag behind the clock.  admit's
\* exchange must fail when any other outcome or probe has come between.
SingleProbe ==
  [][\A t \in Threads :
       pc[t] = "claim" /\ pc'[t] = "flight" /\ word'.state = "half" /\ lastProbe # None
         => local[t].now - lastProbe >= Cooldown - MaxSkew]_vars

\* A key is never given a request before the deadline that was in force when
\* the request arrived, unless a success has withdrawn it since: neither
\* looks_healthy nor admit lets one through by the order of its two loads.
NoEarlyAdmission ==
  \A t \in Threads : pc[t] = "flight" => local[t].due <= clock

\* The longest of the deadlines reported concurrently is the one in force,
\* and admit clearing an expired one never takes a later one with it.
BenchKept == held > clock => bench = held

\* A key that is out of service, tripped or benched, is put to the test again or
\* comes back, whatever became of its probes and of the tasks that carried them,
\* and whatever other keys the pool has: for a seat by spawn_seat_maintenance.
InUse == \E t \in Threads : pc[t] = "flight"
Out == word.state # "closed" \/ is_benched(bench, clock)
Recovers == clock <= LastTrouble /\ ~InUse /\ Out ~> InUse \/ ~Out

\* The exchanges of the word add up to the one-step operations of KeyHealth.
Gate == INSTANCE KeyHealth WITH gate <- word, time <- clock, lastTrial <- lastProbe
GateImplemented == Gate!GateSpec

-----------------------------------------------------------------------------
(* The inductive invariant behind them *)

\* A clock sample inside a call is at most MaxSkew old.
SamplesFresh ==
  \A t \in Threads : pc[t] \in Calling =>
    local[t].now <= clock /\ clock <= local[t].now + MaxSkew

\* What the word a thread loaded told it to do next.
LoadedWord ==
  \A t \in Threads :
    /\ pc[t] = "claim"  => /\ local[t].cur.state # "closed"
                           /\ Elapsed(local[t].now, local[t].cur.since) >= Cooldown
    /\ pc[t] = "reopen" => local[t].cur.state = "half"
    /\ pc[t] \in {"window", "roll", "reset", "count", "trip"} =>
         local[t].cur.state = "closed"

\* The word carries the time of the latest probe, or a later one, up to skew.
WordCarriesProbe ==
  /\ word.since <= clock
  /\ lastProbe <= clock
  /\ IF word.state = "closed" THEN lastProbe = None
     ELSE lastProbe <= word.since + MaxSkew

\* Until admit has looked at the bench, the deadline a request arrived under
\* is still held; after that it has passed.
BenchBounds ==
  /\ bench <= held
  /\ \A t \in Threads :
       /\ pc[t] \in {"look", "admit"} => local[t].due <= held
       /\ pc[t] \in {"clear", "load", "claim"} => local[t].due <= clock
       /\ pc[t] = "clear" => local[t].seen <= clock

IInv ==
  /\ TypeOK /\ SamplesFresh /\ LoadedWord /\ WordCarriesProbe
  /\ BenchBounds /\ BenchKept /\ NoEarlyAdmission
=============================================================================
