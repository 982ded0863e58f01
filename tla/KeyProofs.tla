------------------------------ MODULE KeyProofs ------------------------------
(***************************************************************************)
(* Theorems about what guards a key: its breaker, for any number of        *)
(* threads and any timing whose clock samples are at most MaxSkew old, and *)
(* its token bucket, for any number of threads, ceilings, rates and        *)
(* rebuilds.  Each is about one of the two alone.                          *)
(***************************************************************************)
EXTENDS Breaker, TokenBucket, FiniteSetTheorems, TLAPS

(* The breaker *)

Labels == Resting \cup Calling

\* What Goto(t, label, l) leaves behind, stated without its nested EXCEPTs.
Gone(t, label, l) ==
  /\ pc' \in [Threads -> Labels]
  /\ local' \in [Threads -> Local]
  /\ pc'[t] = label
  /\ label \in Calling => local'[t] = l
  /\ local'[t].due \in {0, l.due}
  /\ \A u \in Threads \ {t} : pc'[u] = pc[u] /\ local'[u] = local[u]

\* A thread that goes on from label to label changes nothing of the others.
LEMMA GotoFacts ==
  ASSUME TypeOK, NEW t \in Threads, NEW label \in Labels, NEW l \in Local,
         Goto(t, label, l)
  PROVE  Gone(t, label, l)
<1>1. Fresh \in Local /\ Fresh.due = 0
  BY DEF Fresh, Local, Word, pack, Ended
<1>2. /\ [Fresh EXCEPT !.due = l.due] \in Local
      /\ [Fresh EXCEPT !.due = l.due].due = l.due
  BY DEF Fresh, Local, Word, pack, Ended
<1>3. label \in Calling => label \notin Resting /\ label # "idle"
  BY DEF Calling, Resting, Ended
<1> DEFINE after == IF label = "idle" THEN Fresh
                    ELSE IF label \in Resting THEN [Fresh EXCEPT !.due = l.due]
                    ELSE l
<1>4. after \in Local /\ after.due \in {0, l.due} /\ (label \in Calling => after = l)
  BY <1>1, <1>2, <1>3
<1>5. pc' = [pc EXCEPT ![t] = label] /\ local' = [local EXCEPT ![t] = after]
  BY DEF Goto
<1> HIDE DEF after
<1>6. QED
  BY <1>4, <1>5 DEF TypeOK, Labels, Gone

\* The steps of the threads preserve the invariant when they touch neither
\* the word nor the bench: only where the thread stands has to be right.
LocalOK(label, l) ==
  /\ label \in Calling => l.now <= clock /\ clock <= l.now + MaxSkew
  /\ label = "claim" => l.cur.state # "closed" /\ Elapsed(l.now, l.cur.since) >= Cooldown
  /\ label = "reopen" => l.cur.state = "half"
  /\ label \in {"window", "roll", "reset", "count", "trip"} => l.cur.state = "closed"
  /\ label \in {"look", "admit"} => l.due <= held
  /\ label \in {"clear", "load", "claim", "flight"} => l.due <= clock
  /\ label = "clear" => l.seen <= clock

\* A step of one thread that leaves the clock and the held deadline alone.
LEMMA ThreadStep ==
  ASSUME IInv, NEW t \in Threads, NEW label \in Labels, NEW l \in Local,
         Goto(t, label, l), LocalOK(label, l),
         UNCHANGED <<clock, held>>,
         word' \in Word, failures' \in Nat, windowStart' \in Nat,
         bench' \in Nat, lastProbe' \in Nat \cup {None},
         WordCarriesProbe', bench' <= held, BenchKept'
  PROVE  IInv'
<1> USE DEF IInv
<1>1. Gone(t, label, l)
  BY GotoFacts
<1>2. TypeOK'
  BY <1>1 DEF TypeOK, Gone, Labels
<1>3. SamplesFresh'
  BY <1>1 DEF SamplesFresh, Gone, LocalOK
<1>4. LoadedWord'
  BY <1>1 DEF LoadedWord, Gone, LocalOK, Calling
<1>5. BenchBounds'
  <2>1. \A u \in Threads \ {t} :
          /\ pc'[u] \in {"look", "admit"} => local'[u].due <= held
          /\ pc'[u] \in {"clear", "load", "claim"} => local'[u].due <= clock
          /\ pc'[u] = "clear" => local'[u].seen <= clock
    BY <1>1 DEF BenchBounds, Gone
  <2>2. /\ pc'[t] \in {"look", "admit"} => local'[t].due <= held
        /\ pc'[t] \in {"clear", "load", "claim"} => local'[t].due <= clock
        /\ pc'[t] = "clear" => local'[t].seen <= clock
    BY <1>1 DEF Gone, LocalOK, Calling
  <2>3. QED
    BY <2>1, <2>2 DEF BenchBounds
<1>6. NoEarlyAdmission'
  <2>1. 0 <= clock
    BY DEF TypeOK
  <2>2. QED
    BY <1>1, <2>1 DEF NoEarlyAdmission, Gone, LocalOK
<1>7. QED
  BY <1>2, <1>3, <1>4, <1>5, <1>6

-----------------------------------------------------------------------------
(* One lemma per operation: each of its steps preserves the invariant. *)

\* What the arithmetic of a step needs to know of the types.
LEMMA Numbers ==
  ASSUME TypeOK, NEW t \in Threads
  PROVE  /\ local[t] \in Local
         /\ clock \in Nat /\ held \in Nat /\ bench \in Nat
         /\ word \in Word /\ word.since \in Nat
         /\ MaxSkew \in Nat /\ Cooldown \in Nat
         /\ local[t].now \in Nat /\ local[t].due \in Nat /\ local[t].seen \in Nat
  BY BreakerAssumption DEF BreakerAssumption, TypeOK, Local, Word

LEMMA FreshIsLocal == Fresh \in Local /\ Fresh.now = 0 /\ Fresh.due = 0
  BY DEF Fresh, Local, Word, pack, Ended

\* A thread that another key has served holds nothing of this one.
LEMMA ElsewhereStep ==
  ASSUME IInv, NEW t \in Threads, Goto(t, "elsewhere", Fresh),
         UNCHANGED <<word, failures, windowStart, bench, clock, held, lastProbe>>
  PROVE  IInv'
<1> USE Numbers DEF IInv
<1>1. LocalOK("elsewhere", Fresh)
  BY DEF LocalOK, Calling
<1>2. QED
  BY <1>1, FreshIsLocal, ThreadStep
     DEF TypeOK, WordCarriesProbe, BenchBounds, BenchKept, Labels, Resting

LEMMA SelectStep ==
  ASSUME IInv, NEW t \in Threads, Select(t)
  PROVE  IInv'
<1> USE Numbers DEF IInv
<1>1. CASE Arrive(t) \/ ArriveKeyless(t) \/ Sweep(t)
  <2> DEFINE l == [local[t] EXCEPT !.now = clock, !.due = held]
  <2>1. CASE Goto(t, "elsewhere", Fresh)
    BY <1>1, <2>1, ElsewhereStep DEF Arrive, ArriveKeyless, Sweep
  <2>2. ASSUME NEW label \in {"look", "admit"}, Goto(t, label, l)
        PROVE  IInv'
    <3>1. l \in Local /\ l.now = clock /\ l.due = held
      BY DEF TypeOK, Local
    <3> HIDE DEF l
    <3>2. LocalOK(label, l)
      BY <3>1 DEF LocalOK
    <3>3. QED
      BY <1>1, <2>2, <3>1, <3>2, ThreadStep
         DEF Arrive, ArriveKeyless, Sweep, TypeOK, WordCarriesProbe, BenchBounds, BenchKept,
             Labels, Calling
  <2>3. QED
    BY <1>1, <2>1, <2>2 DEF Arrive, ArriveKeyless, Sweep, Sample, Passed
<1>2. CASE LooksHealthy(t)
  <2>1. /\ local[t].now <= clock /\ clock <= local[t].now + MaxSkew
        /\ local[t].due <= held
    BY <1>2 DEF LooksHealthy, SamplesFresh, BenchBounds, Calling
  <2>2. CASE Goto(t, "elsewhere", Fresh)
    BY <1>2, <2>2, ElsewhereStep DEF LooksHealthy
  <2>3. ASSUME NEW label \in {"admit", "flight", "idle"}, NEW l \in Local, Goto(t, label, l),
               label = "flight" => ~is_benched(bench, local[t].now),
               l.now \in {local[t].now, clock}, l.due = local[t].due
        PROVE  IInv'
    <3>1. label = "flight" => l.due <= clock
      BY <2>1, <2>3 DEF is_benched, BenchKept
    <3>2. LocalOK(label, l)
      BY <2>1, <2>3, <3>1 DEF LocalOK
    <3>3. QED
      BY <1>2, <2>3, <3>2, ThreadStep
         DEF LooksHealthy, TypeOK, WordCarriesProbe, BenchBounds, BenchKept, Labels, Calling,
             Resting, Ended
  <2>4. CASE is_benched(bench, local[t].now)
    <3> DEFINE again == [local[t] EXCEPT !.now = clock]
    <3>1. again \in Local /\ again.now = clock /\ again.due = local[t].due
      BY DEF TypeOK, Local
    <3>2. \/ Goto(t, "admit", again) \/ Goto(t, "admit", local[t])
          \/ Goto(t, "elsewhere", Fresh)
      BY <1>2, <2>4 DEF LooksHealthy, Benched, Passed
    <3> HIDE DEF again
    <3>3. QED
      BY <2>2, <2>3, <3>1, <3>2
  <2>5. CASE ~is_benched(bench, local[t].now)
    <3>1. PICK label \in {"flight", "idle"} : Goto(t, label, local[t])
      BY <1>2, <2>5 DEF LooksHealthy, Up
    <3>2. QED
      BY <2>3, <2>5, <3>1
  <2>6. QED
    BY <2>4, <2>5
<1>3. QED
  BY <1>1, <1>2 DEF Select

\* Where the loop of admit sends a thread is right for the word it judged.
LEMMA JudgeOK ==
  ASSUME IInv, NEW t \in Threads, pc[t] \in {"load", "claim"}, Judge(t, word)
  PROVE  \E label \in Labels :
           /\ Goto(t, label, [local[t] EXCEPT !.cur = word])
           /\ LocalOK(label, [local[t] EXCEPT !.cur = word])
<1> USE DEF IInv
<1> DEFINE l == [local[t] EXCEPT !.cur = word]
<1>1. PICK label \in {"flight", "idle", "claim"} :
        /\ Goto(t, label, l)
        /\ label = "claim" => word.state # "closed" /\ ~(Elapsed(local[t].now, word.since) < Cooldown)
  BY DEF Judge, Up
<1>2. l.cur = word /\ l.now = local[t].now /\ l.due = local[t].due
  BY DEF TypeOK, Local
<1>3. /\ l.now <= clock /\ clock <= l.now + MaxSkew /\ l.due <= clock
  BY <1>2 DEF SamplesFresh, BenchBounds, Calling
<1>4. Elapsed(l.now, l.cur.since) \in Nat
  BY <1>2 DEF Elapsed, TypeOK, Local, Word
<1>5. LocalOK(label, l)
  <2> HIDE DEF l
  <2>1. label = "claim" => l.cur.state # "closed" /\ Elapsed(l.now, l.cur.since) >= Cooldown
    BY <1>1, <1>2, <1>4, BreakerAssumption DEF BreakerAssumption
  <2>2. QED
    BY <2>1, <1>3 DEF LocalOK, Calling
<1>6. QED
  BY <1>1, <1>5 DEF Labels, Resting, Ended, Calling

LEMMA AdmitStep ==
  ASSUME IInv, NEW t \in Threads, admit(t)
  PROVE  IInv'
<1> USE Numbers DEF IInv
<1>1. CASE AdmitBench(t)
  <2> DEFINE l == [local[t] EXCEPT !.seen = bench]
  <2>1. PICK label \in {"idle", "clear", "load"} :
          /\ Goto(t, label, l)
          /\ label # "idle" => ~is_benched(bench, local[t].now)
    BY <1>1 DEF AdmitBench
  <2>2. l \in Local /\ l.now = local[t].now /\ l.due = local[t].due /\ l.seen = bench
    BY DEF TypeOK, Local
  <2> HIDE DEF l
  <2>3. /\ l.now <= clock /\ clock <= l.now + MaxSkew /\ l.due <= held
    BY <1>1, <2>2 DEF AdmitBench, SamplesFresh, BenchBounds, Calling
  <2>4. label # "idle" => l.due <= clock /\ l.seen <= clock
    BY <2>1, <2>2, <2>3 DEF is_benched, BenchKept
  <2>5. LocalOK(label, l)
    BY <2>3, <2>4 DEF LocalOK
  <2>6. QED
    BY <1>1, <2>1, <2>2, <2>5, ThreadStep
       DEF AdmitBench, TypeOK, WordCarriesProbe, BenchBounds, BenchKept, Labels, Calling, Resting, Ended
<1>2. CASE ClearBench(t)
  <2>1. /\ local[t].now <= clock /\ clock <= local[t].now + MaxSkew
        /\ local[t].due <= clock /\ local[t].seen <= clock
    BY <1>2 DEF ClearBench, SamplesFresh, BenchBounds, Calling
  <2>2. LocalOK("load", local[t])
    BY <2>1 DEF LocalOK
  <2>3. bench' \in Nat /\ bench' <= held /\ BenchKept'
    BY <1>2, <2>1 DEF ClearBench, BenchBounds, BenchKept
  <2>4. QED
    BY <1>2, <2>2, <2>3, ThreadStep
       DEF ClearBench, TypeOK, WordCarriesProbe, Labels, Calling
<1>3. CASE AdmitWord(t)
  <2> DEFINE l == [local[t] EXCEPT !.cur = word]
  <2>1. PICK label \in Labels : Goto(t, label, l) /\ LocalOK(label, l)
    BY <1>3, JudgeOK DEF AdmitWord
  <2>2. l \in Local
    BY DEF TypeOK, Local
  <2> HIDE DEF l
  <2>3. QED
    BY <1>3, <2>1, <2>2, ThreadStep DEF AdmitWord, TypeOK, WordCarriesProbe, BenchBounds, BenchKept
<1>4. CASE ClaimProbe(t)
  <2>1. CASE word' = pack(local[t].now, "half") /\ lastProbe' = local[t].now
             /\ Goto(t, "flight", local[t])
    <3>1. /\ local[t].now <= clock /\ clock <= local[t].now + MaxSkew
          /\ local[t].due <= clock
      BY <1>4 DEF ClaimProbe, SamplesFresh, BenchBounds, Calling
    <3>2. LocalOK("flight", local[t])
      BY <3>1 DEF LocalOK, Calling
    <3>3. /\ word' \in Word /\ word'.since = local[t].now /\ word'.state = "half"
          /\ lastProbe' = local[t].now
      BY <2>1 DEF pack, Word
    <3>4. lastProbe' \in Nat \cup {None} /\ WordCarriesProbe'
      BY <1>4, <3>1, <3>3 DEF ClaimProbe, WordCarriesProbe
    <3>5. QED
      BY <1>4, <2>1, <3>2, <3>3, <3>4, ThreadStep
         DEF ClaimProbe, TypeOK, BenchBounds, BenchKept, Labels, Resting, Ended
  <2>2. CASE Judge(t, word) /\ UNCHANGED <<word, lastProbe>>
    <3> DEFINE l == [local[t] EXCEPT !.cur = word]
    <3>1. PICK label \in Labels : Goto(t, label, l) /\ LocalOK(label, l)
      BY <1>4, <2>2, JudgeOK DEF ClaimProbe
    <3>2. l \in Local
      BY DEF TypeOK, Local
    <3> HIDE DEF l
    <3>3. QED
      BY <1>4, <2>2, <3>1, <3>2, ThreadStep
         DEF ClaimProbe, TypeOK, WordCarriesProbe, BenchBounds, BenchKept
  <2>3. QED
    BY <1>4, <2>1, <2>2 DEF ClaimProbe
<1>5. QED
  BY <1>1, <1>2, <1>3, <1>4 DEF admit

LEMMA CheckStep ==
  ASSUME IInv, NEW t \in Threads, Check(t)
  PROVE  IInv'
<1> USE Numbers DEF IInv
<1> DEFINE l == [local[t] EXCEPT !.now = clock, !.due = held]
<1>1. Goto(t, "checked", l)
  BY DEF Check, Sample
<1>2. l \in Local
  BY DEF TypeOK, Local
<1> HIDE DEF l
<1>3. LocalOK("checked", l)
  BY DEF LocalOK, Calling
<1>4. QED
  BY <1>1, <1>2, <1>3, ThreadStep
     DEF Check, TypeOK, WordCarriesProbe, BenchBounds, BenchKept, Labels, Resting, Ended

\* Where the loop of record_failure sends a thread is right for the word it
\* judged.
LEMMA FailureJudged ==
  ASSUME IInv, NEW t \in Threads, NEW k \in Local, JudgeFailure(t, word, k),
         k.now <= clock, clock <= k.now + MaxSkew
  PROVE  \E label \in Labels, l \in Local : Goto(t, label, l) /\ LocalOK(label, l)
<1> USE Numbers DEF IInv
<1> DEFINE l == [k EXCEPT !.cur = word]
<1>1. l \in Local /\ l.cur = word /\ l.now = k.now /\ l.then = k.then
  BY DEF TypeOK, Local
<1>2. k.then \in Ended
  BY DEF Local
<1>3. word.state \in {"closed", "open", "half"}
  BY DEF Word
<1>4. PICK label \in Ended \cup {"reopen", "window"} :
        /\ Goto(t, label, l)
        /\ label = "reopen" => word.state = "half"
        /\ label = "window" => word.state = "closed"
  <2>1. CASE word.state = "open"
    BY <1>2, <2>1 DEF JudgeFailure, Ended
  <2>2. CASE word.state = "half"
    BY <2>2 DEF JudgeFailure
  <2>3. CASE word.state = "closed"
    BY <2>3 DEF JudgeFailure
  <2>4. QED
    BY <1>3, <2>1, <2>2, <2>3
<1> HIDE DEF l
<1>5. LocalOK(label, l)
  BY <1>1, <1>4 DEF LocalOK, Ended, Calling
<1>6. QED
  BY <1>1, <1>4, <1>5 DEF Labels, Calling, Resting, Ended

LEMMA OutcomeStep ==
  ASSUME IInv, NEW t \in Threads, Finish(t) \/ record_success(t) \/ record_failure(t)
  PROVE  IInv'
<1> USE Numbers DEF IInv
<1>1. CASE Finish(t)
  <2>1. LocalOK("idle", Fresh)
    BY DEF LocalOK, Calling
  <2>2. QED
    BY <1>1, <2>1, FreshIsLocal, ThreadStep
       DEF Finish, TypeOK, WordCarriesProbe, BenchBounds, BenchKept, Labels, Resting, Ended
<1>2. CASE record_success(t)
  <2> DEFINE end == IF pc[t] = "failed" THEN "idle" ELSE "served"
             l == [local[t] EXCEPT !.now = clock, !.then = end]
  <2>1. Goto(t, "close", l)
    BY <1>2 DEF record_success
  <2>2. l \in Local /\ l.now = clock
    BY DEF TypeOK, Local, Ended
  <2> HIDE DEF l
  <2>3. LocalOK("close", l)
    BY <2>2 DEF LocalOK
  <2>4. failures' \in Nat
    BY <1>2 DEF record_success
  <2>5. QED
    BY <1>2, <2>1, <2>2, <2>3, <2>4, ThreadStep
       DEF record_success, TypeOK, WordCarriesProbe, BenchBounds, BenchKept, Labels, Calling
<1>3. CASE record_failure(t)
  <2> DEFINE end == CASE pc[t] = "served"  -> "refused"
                      [] pc[t] = "limited" -> "idle"
                      [] OTHER             -> "failed"
             k == [local[t] EXCEPT !.now = clock, !.then = end]
  <2>1. JudgeFailure(t, word, k)
    BY <1>3 DEF record_failure
  <2>2. k \in Local /\ k.now = clock
    BY DEF TypeOK, Local, Ended
  <2> HIDE DEF k
  <2>3. PICK label \in Labels, l \in Local : Goto(t, label, l) /\ LocalOK(label, l)
    BY <2>1, <2>2, FailureJudged
  <2>4. QED
    BY <1>3, <2>3, ThreadStep
       DEF record_failure, TypeOK, WordCarriesProbe, BenchBounds, BenchKept
<1>4. QED
  BY <1>1, <1>2, <1>3

LEMMA BenchStep ==
  ASSUME IInv, NEW t \in Threads, bench_until(t)
  PROVE  IInv'
<1> USE Numbers DEF IInv
<1>1. PICK length \in BenchLengths :
        /\ bench' = Later(bench, clock + length)
        /\ held' = Later(held, clock + length)
        /\ Goto(t, IF pc[t] \in {"checked", "flight"} THEN "limited" ELSE "idle", local[t])
        /\ UNCHANGED <<word, failures, windowStart, clock, lastProbe>>
  BY DEF bench_until
<1>2. length \in Nat
  BY BreakerAssumption DEF BreakerAssumption
<1>3. PICK label \in {"limited", "idle"} : Goto(t, label, local[t])
  BY <1>1
<1>4. Gone(t, label, local[t]) /\ label \in Labels
  BY <1>3, GotoFacts DEF Labels, Resting, Ended
<1>5. bench' \in Nat /\ held' \in Nat /\ bench' <= held' /\ held <= held'
  BY <1>1, <1>2 DEF Later, BenchBounds
<1>6. BenchKept'
  BY <1>1, <1>2 DEF Later, BenchKept, BenchBounds
<1>7. TypeOK'
  BY <1>1, <1>4, <1>5 DEF TypeOK, Gone, Labels
<1>8. SamplesFresh' /\ LoadedWord' /\ NoEarlyAdmission'
  BY <1>1, <1>4 DEF SamplesFresh, LoadedWord, NoEarlyAdmission, Gone, Calling
<1>9. BenchBounds'
  <2>1. \A u \in Threads : local[u].due \in Nat
    BY DEF TypeOK, Local
  <2>2. QED
    BY <1>1, <1>4, <1>5, <2>1 DEF BenchBounds, Gone
<1>10. WordCarriesProbe'
  BY <1>1 DEF WordCarriesProbe
<1>11. QED
  BY <1>6, <1>7, <1>8, <1>9, <1>10

LEMMA SucceedStep ==
  ASSUME IInv, NEW t \in Threads, Succeed(t)
  PROVE  IInv'
<1> USE Numbers DEF IInv
<1>1. CASE CloseWord(t)
  <2>1. LocalOK("unbench", local[t])
    BY <1>1 DEF CloseWord, LocalOK, SamplesFresh, Calling
  <2>2. word' \in Word /\ word'.state = "closed" /\ word'.since = 0
    BY <1>1 DEF CloseWord, pack, Word
  <2>3. WordCarriesProbe'
    BY <1>1, <2>2 DEF CloseWord, WordCarriesProbe, None
  <2>4. QED
    BY <1>1, <2>1, <2>2, <2>3, ThreadStep
       DEF CloseWord, TypeOK, BenchBounds, BenchKept, Labels, Calling
<1>2. CASE Unbench(t)
  <2> USE <1>2 DEF Unbench
  <2>1. local[t].then \in Ended
    BY DEF Local
  <2>2. /\ pc' \in [Threads -> Labels]
        /\ pc'[t] \in Ended
        /\ \A u \in Threads \ {t} : pc'[u] = pc[u]
    BY <2>1 DEF TypeOK, Labels, Resting
  <2>3. \A u \in Threads :
          LET k == [local[u] EXCEPT !.due = 0] IN
            /\ k \in Local /\ k.due = 0
            /\ k.now = local[u].now /\ k.cur = local[u].cur /\ k.seen = local[u].seen
    BY DEF TypeOK, Local
  <2>4. /\ local' \in [Threads -> Local]
        /\ \A u \in Threads : local'[u].due = 0
        /\ \A u \in Threads \ {t} : /\ local'[u].now = local[u].now
                                    /\ local'[u].cur = local[u].cur
                                    /\ local'[u].seen = local[u].seen
    BY <2>3, FreshIsLocal
  <2>5. TypeOK'
    BY <2>2, <2>4 DEF TypeOK, Labels
  <2>6. SamplesFresh' /\ LoadedWord'
    BY <2>2, <2>4 DEF SamplesFresh, LoadedWord, Ended, Calling
  <2>7. BenchBounds' /\ BenchKept' /\ NoEarlyAdmission'
    BY <2>2, <2>4 DEF BenchBounds, BenchKept, NoEarlyAdmission, Ended
  <2>8. WordCarriesProbe'
    BY DEF WordCarriesProbe
  <2>9. QED
    BY <2>5, <2>6, <2>7, <2>8
<1>3. QED
  BY <1>1, <1>2 DEF Succeed

\* The exchange that opens the breaker, at the time of the failure.
LEMMA OpenStep ==
  ASSUME IInv, NEW t \in Threads, pc[t] \in {"reopen", "trip"}, OpenAt(t, local[t].now)
  PROVE  IInv'
<1> USE Numbers DEF IInv
<1>1. local[t].now <= clock /\ clock <= local[t].now + MaxSkew
  BY DEF SamplesFresh, Calling
<1>2. CASE word = local[t].cur /\ word' = pack(local[t].now, "open")
           /\ Goto(t, local[t].then, local[t])
  <2>1. local[t].then \in Ended
    BY DEF Local
  <2>2. LocalOK(local[t].then, local[t])
    BY <2>1 DEF LocalOK, Ended, Calling
  <2>3. word' \in Word /\ word'.state = "open" /\ word'.since = local[t].now
    BY <1>2 DEF pack, Word
  <2>4. WordCarriesProbe'
    <3>1. lastProbe <= clock /\ lastProbe' = lastProbe /\ clock' = clock
      BY DEF OpenAt, WordCarriesProbe
    <3>2. lastProbe \in Int
      BY DEF TypeOK, None
    <3>3. QED
      BY <1>1, <2>3, <3>1, <3>2 DEF WordCarriesProbe
  <2>5. QED
    BY <1>2, <2>1, <2>2, <2>3, <2>4, ThreadStep
       DEF OpenAt, TypeOK, BenchBounds, BenchKept, Labels, Resting
<1>3. CASE JudgeFailure(t, word, local[t]) /\ UNCHANGED word
  <2>1. PICK label \in Labels, l \in Local : Goto(t, label, l) /\ LocalOK(label, l)
    BY <1>1, <1>3, FailureJudged
  <2>2. QED
    BY <1>3, <2>1, ThreadStep
       DEF OpenAt, TypeOK, WordCarriesProbe, BenchBounds, BenchKept
<1>4. QED
  BY <1>2, <1>3 DEF OpenAt

\* The bookkeeping of the failure window, on a word that was closed.
LEMMA WindowStep ==
  ASSUME IInv, NEW t \in Threads,
         LoadWindow(t) \/ RollWindow(t) \/ ResetCount(t) \/ Count(t)
  PROVE  IInv'
<1> USE Numbers DEF IInv
<1>1. /\ local[t].now <= clock /\ clock <= local[t].now + MaxSkew
      /\ local[t].cur.state = "closed"
  BY DEF LoadWindow, RollWindow, ResetCount, Count, SamplesFresh, LoadedWord, Calling
<1>2. local[t].then \in Ended
  BY DEF Local
<1>3. \A label \in Ended \cup {"roll", "reset", "count", "trip"} :
        label \in Labels /\ LocalOK(label, local[t])
  BY <1>1 DEF LocalOK, Labels, Resting, Ended, Calling
<1>4. CASE LoadWindow(t)
  <2> DEFINE l == [local[t] EXCEPT !.seen = windowStart]
  <2>1. PICK label \in {"roll", "count"} : Goto(t, label, l)
    BY <1>4 DEF LoadWindow
  <2>2. l \in Local /\ l.now = local[t].now /\ l.cur = local[t].cur
    BY DEF TypeOK, Local
  <2> HIDE DEF l
  <2>3. label \in Labels /\ LocalOK(label, l)
    BY <1>1, <2>1, <2>2 DEF LocalOK, Labels, Calling
  <2>4. QED
    BY <1>4, <2>1, <2>2, <2>3, ThreadStep
       DEF LoadWindow, TypeOK, WordCarriesProbe, BenchBounds, BenchKept
<1>5. CASE RollWindow(t)
  <2>1. PICK label \in {"reset", "count"} : Goto(t, label, local[t])
    BY <1>5 DEF RollWindow
  <2>2. windowStart' \in Nat
    BY <1>5 DEF RollWindow, TypeOK
  <2>3. QED
    BY <1>3, <1>5, <2>1, <2>2, ThreadStep
       DEF RollWindow, TypeOK, WordCarriesProbe, BenchBounds, BenchKept
<1>6. CASE ResetCount(t) \/ Count(t)
  <2>1. PICK label \in Ended \cup {"trip"} : Goto(t, label, local[t])
    BY <1>2, <1>6 DEF ResetCount, Count
  <2>2. failures' \in Nat
    BY <1>6 DEF ResetCount, Count, TypeOK
  <2>3. QED
    BY <1>3, <1>6, <2>1, <2>2, ThreadStep
       DEF ResetCount, Count, TypeOK, WordCarriesProbe, BenchBounds, BenchKept
<1>7. QED
  BY <1>4, <1>5, <1>6

LEMMA TickStep ==
  ASSUME IInv, Tick
  PROVE  IInv'
<1> USE DEF IInv, Tick
<1>1. /\ clock \in Nat /\ MaxSkew \in Nat /\ held \in Nat /\ bench \in Nat
      /\ word \in Word /\ word.since \in Nat /\ lastProbe \in Int
      /\ \A u \in Threads : /\ local[u].now \in Nat /\ local[u].due \in Nat
                            /\ local[u].seen \in Nat
  BY BreakerAssumption DEF BreakerAssumption, TypeOK, Local, Word, None
<1>2. TypeOK'
  BY DEF TypeOK
<1>3. SamplesFresh' /\ LoadedWord'
  BY <1>1 DEF SamplesFresh, LoadedWord
<1>4. WordCarriesProbe' /\ BenchKept' /\ NoEarlyAdmission' /\ BenchBounds'
  BY <1>1 DEF WordCarriesProbe, BenchKept, NoEarlyAdmission, BenchBounds
<1>5. QED
  BY <1>2, <1>3, <1>4

LEMMA InitIInv == Init => IInv
<1> SUFFICES ASSUME Init PROVE IInv
  OBVIOUS
<1> USE BreakerAssumption, FreshIsLocal DEF Init
<1>1. word \in Word /\ word.since = 0 /\ word.state = "closed"
  BY DEF pack, Word
<1>2. TypeOK
  BY <1>1 DEF TypeOK, BreakerAssumption, Resting, Ended, None
<1>3. SamplesFresh /\ LoadedWord
  BY DEF SamplesFresh, LoadedWord, Calling
<1>4. WordCarriesProbe
  BY <1>1 DEF WordCarriesProbe, None
<1>5. BenchBounds /\ BenchKept /\ NoEarlyAdmission
  BY DEF BenchBounds, BenchKept, NoEarlyAdmission
<1>6. QED
  BY <1>2, <1>3, <1>4, <1>5 DEF IInv

LEMMA StutterStep == IInv /\ UNCHANGED vars => IInv'
  BY DEF vars, IInv, TypeOK, SamplesFresh, LoadedWord, WordCarriesProbe,
         BenchBounds, BenchKept, NoEarlyAdmission

LEMMA NextStep ==
  ASSUME IInv, [Next]_vars
  PROVE  IInv'
<1>1. CASE Tick
  BY <1>1, TickStep
<1>2. ASSUME NEW t \in Threads,
             Select(t) \/ admit(t) \/ Check(t) \/ Outcome(t) \/ Succeed(t) \/ Fail(t)
      PROVE  IInv'
  <2>1. CASE Fail(t)
    BY <2>1, OpenStep, WindowStep DEF Fail, Reopen, Trip
  <2>2. CASE Outcome(t)
    BY <2>2, OutcomeStep, BenchStep DEF Outcome
  <2>3. QED
    BY <1>2, <2>1, <2>2, SelectStep, AdmitStep, CheckStep, SucceedStep
<1>3. CASE UNCHANGED vars
  BY <1>3, StutterStep
<1>4. QED
  BY <1>1, <1>2, <1>3 DEF Next

-----------------------------------------------------------------------------
(* The word: which steps change it, and what they stand for in KeyHealth. *)

\* A probe that is granted comes a cooldown after the word's time.
LEMMA ProbeTime ==
  ASSUME IInv, NEW t \in Threads, pc[t] = "claim", word = local[t].cur
  PROVE  /\ word.state # "closed"
         /\ local[t].now <= clock /\ clock <= local[t].now + MaxSkew
         /\ Elapsed(local[t].now, word.since) >= Cooldown
         /\ lastProbe # None => local[t].now - lastProbe >= Cooldown - MaxSkew
<1> USE Numbers DEF IInv
<1>1. /\ word.state # "closed"
      /\ Elapsed(local[t].now, word.since) >= Cooldown
  BY DEF LoadedWord
<1>2. /\ local[t].now <= clock /\ clock <= local[t].now + MaxSkew
      /\ lastProbe <= clock /\ lastProbe <= word.since + MaxSkew
  BY <1>1 DEF SamplesFresh, Calling, WordCarriesProbe
<1>3. lastProbe \in Int
  BY DEF TypeOK, None
<1>4. local[t].now - lastProbe >= Cooldown - MaxSkew
  BY <1>1, <1>2, <1>3 DEF Elapsed
<1>5. QED
  BY <1>1, <1>2, <1>4

\* The word is left alone by every step but four.
LEMMA WordSteps ==
  ASSUME NEW t \in Threads,
         Select(t) \/ admit(t) \/ Check(t) \/ Outcome(t) \/ Succeed(t) \/ Fail(t)
  PROVE  \/ ClaimProbe(t) \/ CloseWord(t) \/ Reopen(t) \/ Trip(t)
         \/ UNCHANGED <<word, clock, lastProbe>>
  BY DEF Select, admit, Check, Outcome, Succeed, Fail, Arrive, ArriveKeyless, Sweep,
         LooksHealthy, AdmitBench, ClearBench, AdmitWord, Finish, bench_until,
         record_success, record_failure, Unbench, LoadWindow, RollWindow,
         ResetCount, Count

LEMMA GateInitially == Init => Gate!GateInit
  BY DEF Init, Gate!GateInit, pack, None

LEMMA GateStep ==
  ASSUME IInv, [Next]_vars
  PROVE  [Gate!GateNext]_(Gate!gvars)
<1> USE Numbers DEF IInv
<1>1. CASE Tick
  BY <1>1 DEF Tick, Gate!GateNext, Gate!Pass
<1>2. ASSUME NEW t \in Threads, ClaimProbe(t)
      PROVE  [Gate!GateNext]_(Gate!gvars)
  <2>1. CASE word = local[t].cur /\ word' = pack(local[t].now, "half")
             /\ lastProbe' = local[t].now
    <3>1. /\ word.state # "closed"
          /\ local[t].now <= clock /\ clock <= local[t].now + MaxSkew
          /\ Elapsed(local[t].now, word.since) >= Cooldown
          /\ lastProbe # None => local[t].now - lastProbe >= Cooldown - MaxSkew
      BY <1>2, <2>1, ProbeTime DEF ClaimProbe
    <3>2. /\ word' = [state |-> "half", since |-> word'.since]
          /\ word'.since = local[t].now
      BY <2>1 DEF pack
    <3>3. word'.since \in Gate!Samples
      BY <3>1, <3>2 DEF Gate!Samples
    <3>4. Gate!Waited(word'.since, word.since)
      BY <3>1, <3>2 DEF Gate!Waited, Elapsed
    <3>5. Gate!Offer
      BY <1>2, <2>1, <3>1, <3>2, <3>3, <3>4 DEF Gate!Offer, ClaimProbe, None
    <3>6. QED
      BY <3>5 DEF Gate!GateNext
  <2>2. CASE UNCHANGED <<word, lastProbe>>
    BY <1>2, <2>2 DEF ClaimProbe, Gate!gvars
  <2>3. QED
    BY <1>2, <2>1, <2>2 DEF ClaimProbe
<1>3. ASSUME NEW t \in Threads, CloseWord(t)
      PROVE  Gate!GateNext
  BY <1>3 DEF CloseWord, pack, None, Gate!GateNext, Gate!Restore
<1>4. ASSUME NEW t \in Threads, Reopen(t) \/ Trip(t)
      PROVE  [Gate!GateNext]_(Gate!gvars)
  <2>1. CASE word = local[t].cur /\ word' = pack(local[t].now, "open")
    <3>1. local[t].now <= clock /\ clock <= local[t].now + MaxSkew
      BY <1>4 DEF Reopen, Trip, SamplesFresh, Calling
    <3>2. /\ word' = [state |-> "open", since |-> word'.since]
          /\ word'.since = local[t].now
      BY <2>1 DEF pack
    <3>3. word'.since \in Gate!Samples
      BY <3>1, <3>2 DEF Gate!Samples
    <3>4. UNCHANGED <<clock, lastProbe>>
      BY <1>4 DEF Reopen, Trip, OpenAt
    <3>5. CASE Reopen(t)
      <4>1. word.state = "half"
        BY <2>1, <3>5 DEF Reopen, LoadedWord
      <4>2. QED
        BY <3>2, <3>3, <3>4, <4>1 DEF Gate!GateNext, Gate!Reopen
    <3>6. CASE Trip(t)
      <4>1. word.state = "closed"
        BY <2>1, <3>6 DEF Trip, LoadedWord
      <4>2. QED
        BY <3>2, <3>3, <3>4, <4>1 DEF Gate!GateNext, Gate!Trip
    <3>7. QED
      BY <1>4, <3>5, <3>6
  <2>2. CASE UNCHANGED word
    BY <1>4, <2>2 DEF Reopen, Trip, OpenAt, Gate!gvars
  <2>3. QED
    BY <1>4, <2>1, <2>2 DEF Reopen, Trip, OpenAt
<1>5. CASE UNCHANGED <<word, clock, lastProbe>>
  BY <1>5 DEF Gate!gvars
<1>6. CASE UNCHANGED vars
  BY <1>6 DEF vars, Gate!gvars
<1>7. QED
  BY <1>1, <1>2, <1>3, <1>4, <1>5, <1>6, WordSteps DEF Next

LEMMA ProbeStep ==
  ASSUME IInv, [Next]_vars, NEW t \in Threads,
         pc[t] = "claim", pc'[t] = "flight", word'.state = "half", lastProbe # None
  PROVE  local[t].now - lastProbe >= Cooldown - MaxSkew
<1> USE DEF IInv
<1>1. ~Tick /\ ~UNCHANGED vars
  BY DEF Tick, vars
<1>2. PICK u \in Threads :
        Select(u) \/ admit(u) \/ Check(u) \/ Outcome(u) \/ Succeed(u) \/ Fail(u)
  BY <1>1 DEF Next
<1>3. u = t
  <2>1. pc \in [Threads -> Labels]
    BY DEF TypeOK, Labels
  <2>2. \E label : pc' = [pc EXCEPT ![u] = label]
    BY <1>2 DEF Select, admit, Check, Outcome, Succeed, Fail, Arrive, ArriveKeyless, Sweep,
         LooksHealthy, AdmitBench, ClearBench, AdmitWord, ClaimProbe, Finish, bench_until,
         record_success, record_failure, CloseWord, Unbench, Reopen, LoadWindow, RollWindow,
         ResetCount, Count, Trip, OpenAt, Judge, JudgeFailure, Passed, Benched, Goto
  <2>3. QED
    BY <2>1, <2>2
<1>4. ClaimProbe(t)
  BY <1>2, <1>3 DEF Select, admit, Check, Outcome, Succeed, Fail, Arrive, ArriveKeyless, Sweep,
         LooksHealthy, AdmitBench, ClearBench, AdmitWord, Finish, bench_until,
         record_success, record_failure, CloseWord, Unbench, Reopen, LoadWindow, RollWindow,
         ResetCount, Count, Trip, Told, Resting, Ended
<1>5. CASE word = local[t].cur
  BY <1>5, ProbeTime
<1>6. CASE Judge(t, word) /\ UNCHANGED word
  <2>1. word.state # "closed"
    BY <1>6
  <2>2. \E label \in {"idle", "claim"} : pc' = [pc EXCEPT ![t] = label]
    BY <1>6, <2>1 DEF Judge, Goto
  <2>3. QED
    BY <2>2 DEF TypeOK
<1>7. QED
  BY <1>4, <1>5, <1>6 DEF ClaimProbe

-----------------------------------------------------------------------------
(* Theorems about the breaker *)

\* What holds between any two accesses of the breaker.
THEOREM Invariance == Spec => []IInv
  BY InitIInv, NextStep, PTL DEF Spec

\* No interleaving of bench_until, record_success, looks_healthy and admit
\* hands out the key before the deadline in force when the request arrived.
THEOREM BenchSafety == Spec => []NoEarlyAdmission
  BY Invariance, PTL DEF IInv

\* Concurrent calls of bench_until leave the longest deadline in force, and
\* admit clearing an expired one does not remove it.
THEOREM LongestBench == Spec => []BenchKept
  BY Invariance, PTL DEF IInv

\* Between two probes with no success between them lies a cooldown, less the
\* age of a clock sample: admit's exchange lets one request through.
THEOREM OneProbe == Spec => SingleProbe
<1>1. ASSUME IInv, [Next]_vars
      PROVE  [\A t \in Threads :
                pc[t] = "claim" /\ pc'[t] = "flight" /\ word'.state = "half" /\ lastProbe # None
                  => local[t].now - lastProbe >= Cooldown - MaxSkew]_vars
  BY <1>1, ProbeStep
<1>2. QED
  BY <1>1, Invariance, PTL DEF Spec, SingleProbe

\* The loads and exchanges of the word implement the one-step gate of
\* KeyHealth: trip, one trial per cooldown, reopen, restore.
THEOREM Refinement == Spec => GateImplemented
  BY GateInitially, GateStep, Invariance, PTL DEF Spec, GateImplemented, Gate!GateSpec

-----------------------------------------------------------------------------
(* The token bucket *)

Places == Accessing \cup {"idle", "flight"}

-----------------------------------------------------------------------------
(* What credit is worth *)

\* Instants up to n are worth no more than n of them.
LEMMA Worth ==
  ASSUME NEW n \in Nat, NEW S, S \subseteq 1 .. n
  PROVE  /\ IsFiniteSet(S) /\ Cardinality(S) \in Nat
         /\ Rate * Cardinality(S) \in Nat
         /\ Rate * Cardinality(S) <= Rate * n
<1>1. IsFiniteSet(1 .. n) /\ Cardinality(1 .. n) = n
  BY FS_Interval
<1>2. IsFiniteSet(S) /\ Cardinality(S) <= n
  BY <1>1, FS_Subset
<1>3. Cardinality(S) \in Nat
  BY <1>2, FS_CardinalityType
<1>4. \A r, a, b \in Nat : a <= b => r * a \in Nat /\ r * a <= r * b
  OBVIOUS
<1>5. QED
  BY <1>2, <1>3, <1>4, BucketAssumption DEF BucketAssumption

\* An interval that was not credited adds its length.
LEMMA WorthOfMore ==
  ASSUME NEW n \in Nat, NEW S, S \subseteq 1 .. n,
         NEW a \in Nat, NEW b \in Nat, a <= b, (a + 1 .. b) \cap S = {}
  PROVE  Rate * Cardinality(S \cup (a + 1 .. b)) = Rate * Cardinality(S) + (b - a) * Rate
<1> DEFINE I == a + 1 .. b
<1>1. IsFiniteSet(S) /\ Cardinality(S) \in Nat
  BY Worth
<1>2. IsFiniteSet(I) /\ Cardinality(I) = b - a
  <2>1. a + 1 \in Int /\ b \in Int
    OBVIOUS
  <2>2. IsFiniteSet(I) /\ Cardinality(I) = IF a + 1 > b THEN 0 ELSE b - (a + 1) + 1
    BY <2>1, FS_Interval
  <2>3. QED
    BY <2>2
<1>3. Cardinality(S \cup I) = Cardinality(S) + Cardinality(I) - Cardinality(S \cap I)
  BY <1>1, <1>2, FS_Union
<1>4. Cardinality(S \cap I) = 0
  BY FS_EmptySet
<1> HIDE DEF I
<1>5. Cardinality(S \cup I) = Cardinality(S) + (b - a) /\ b - a \in Nat
  BY <1>1, <1>2, <1>3, <1>4
<1>6. \A r, x, y \in Nat : r * (x + y) = r * x + y * r
  OBVIOUS
<1>7. QED
  BY <1>1, <1>5, <1>6, BucketAssumption DEF BucketAssumption, I

-----------------------------------------------------------------------------
(* A step of one thread, on one bucket *)

LEMMA UnoccupiedIsCall == Unoccupied \in Call /\ Unoccupied.now = 0 /\ Unoccupied.of = 1
  BY BucketAssumption DEF BucketAssumption, Unoccupied, Call, Buckets

\* What GoOn(t, label, l) leaves behind, stated without its nested EXCEPTs.
GoneOn(t, label, l) ==
  /\ pc' \in [Threads -> Places]
  /\ local' \in [Threads -> Call]
  /\ pc'[t] = label
  /\ label \in Accessing => local'[t] = l
  /\ label \notin Accessing => local'[t].now = 0 /\ local'[t].of \in {1, l.of}
  /\ \A u \in Threads \ {t} : pc'[u] = pc[u] /\ local'[u] = local[u]

LEMMA GoOnFacts ==
  ASSUME BucketTypeOK, NEW t \in Threads, NEW label \in Places, NEW l \in Call,
         GoOn(t, label, l)
  PROVE  GoneOn(t, label, l)
<1>1. /\ [Unoccupied EXCEPT !.of = l.of] \in Call
      /\ [Unoccupied EXCEPT !.of = l.of].of = l.of
      /\ [Unoccupied EXCEPT !.of = l.of].now = 0
  BY DEF Unoccupied, Call
<1> DEFINE after == CASE label = "idle"   -> Unoccupied
                    [] label = "flight" -> [Unoccupied EXCEPT !.of = l.of]
                    [] OTHER            -> l
<1>2. label = "idle" => after = Unoccupied
  OBVIOUS
<1>3. label = "flight" => after = [Unoccupied EXCEPT !.of = l.of]
  OBVIOUS
<1>4. label \in Accessing => after = l
  BY DEF Accessing
<1>5. pc' = [pc EXCEPT ![t] = label] /\ local' = [local EXCEPT ![t] = after]
  BY DEF GoOn
<1> HIDE DEF after
<1>6. /\ after \in Call
      /\ label \notin Accessing => after.now = 0 /\ after.of \in {1, l.of}
  BY <1>1, <1>2, <1>3, <1>4, UnoccupiedIsCall DEF Places
<1>7. QED
  BY <1>4, <1>5, <1>6 DEF BucketTypeOK, Places, GoneOn

\* What the thread will owe where it goes.
OwedAt(label, l) == IF label \in {"refill", "credit"} THEN l.seen + 1 .. l.now ELSE {}

\* The thread t goes to label with l, and its bucket becomes k with out taken
\* out of it and the credit of the instants added.
LEMMA BucketStep ==
  ASSUME BucketInv, NEW t \in Threads, NEW label \in Places, NEW l \in Call,
         NEW k \in Bucket, NEW out \in Nat, NEW instants \in SUBSET Nat,
         GoOn(t, label, l),
         UNCHANGED <<table, limit, draft, clock>>,
         bucket' \in [Buckets -> Bucket], bucket'[l.of] = k,
         spent' \in [Buckets -> Nat], spent'[l.of] = out,
         credited' \in [Buckets -> SUBSET Nat], credited'[l.of] = instants,
         \A b \in Buckets \ {l.of} :
           bucket'[b] = bucket[b] /\ spent'[b] = spent[b] /\ credited'[b] = credited[b],
         k.capacity = bucket[l.of].capacity, k.available <= k.capacity,
         bucket[l.of].last <= k.last,
         Balanced(k, out, instants),
         OwedAt(label, l) \cap instants = {}, OwedAt(label, l) \subseteq 1 .. k.last,
         \A u \in Threads \ {t} :
           local[u].of = l.of => Owed(u) \cap (OwedAt(label, l) \cup instants) = {},
         l.now <= clock, l.of <= table,
         label \in {"claim", "refill", "credit"} => l.seen < l.now
  PROVE  BucketInv'
<1> USE DEF BucketInv
<1>1. GoneOn(t, label, l)
  BY GoOnFacts
<1>2. l.of \in Buckets /\ table \in Buckets /\ 1 <= table
  BY DEF Call, BucketTypeOK, Buckets
<1>3. BucketTypeOK'
  BY <1>1, <1>2 DEF BucketTypeOK, GoneOn, Places
<1>4. Conservation'
  <2>1. \A b \in Buckets : Balanced(bucket'[b], spent'[b], credited'[b])
    BY <1>2 DEF Conservation
  <2>2. \A b \in Buckets : Balanced(bucket[b], spent[b], credited[b])'
    BY <2>1 DEF Balanced
  <2>3. (draft.step = "publish" => Balanced(draft.bucket, draft.spent, draft.credited))'
    BY DEF Conservation, Balanced
  <2>4. bucket[table].last <= bucket'[table].last
        /\ bucket[table].last \in Nat /\ bucket'[table].last \in Nat
    BY <1>2 DEF BucketTypeOK, Bucket
  <2>5. draft.step = "cursor" => draft.credited \subseteq 1 .. bucket'[table].last
    BY <2>4 DEF Conservation
  <2>6. QED
    BY <2>2, <2>3, <2>5 DEF Conservation
<1>5. CreditedOnce'
  <2>1. Owed(t)' = OwedAt(label, l) /\ (Owed(t)' # {} => local'[t].of = l.of)
    BY <1>1 DEF Owed, OwedAt, Interval, GoneOn, Accessing
  <2>2. \A u \in Threads \ {t} : Owed(u)' = Owed(u) /\ local'[u].of = local[u].of
    BY <1>1 DEF Owed, Interval, GoneOn
  <2>3. \A u \in Threads : local[u].of \in Buckets /\ local'[u].of \in Buckets
    BY <1>3 DEF BucketTypeOK, Call
  <2>4. \A b \in Buckets : credited'[b] \subseteq 1 .. bucket'[b].last
    BY <1>4 DEF Conservation, Balanced
  <2>5. instants \subseteq 1 .. k.last
    BY DEF Balanced
  <2>6. ASSUME NEW u \in Threads \ {t}
        PROVE  /\ Owed(u) \cap credited'[local[u].of] = {}
               /\ Owed(u) \subseteq 1 .. bucket'[local[u].of].last
    <3>1. /\ Owed(u) \cap credited[local[u].of] = {}
          /\ Owed(u) \subseteq 1 .. bucket[local[u].of].last
      BY DEF CreditedOnce
    <3>2. CASE local[u].of = l.of
      <4>1. bucket[l.of].last \in Nat /\ k.last \in Nat
        BY <1>2 DEF BucketTypeOK, Bucket
      <4>2. QED
        BY <3>1, <3>2, <4>1
    <3>3. CASE local[u].of # l.of
      BY <3>1, <3>3, <2>3
    <3>4. QED
      BY <3>2, <3>3
  <2>7. \A u \in Threads \ {t} : local[u].of = local'[t].of => Owed(u) \cap Owed(t)' = {}
    BY <2>1
  <2>8. \A u, v \in Threads \ {t} :
          u # v /\ local[u].of = local[v].of => Owed(u) \cap Owed(v) = {}
    BY DEF CreditedOnce
  <2>9. ASSUME NEW v \in Threads
        PROVE  /\ Owed(v)' \cap credited'[local'[v].of] = {}
               /\ Owed(v)' \cup credited'[local'[v].of] \subseteq 1 .. bucket'[local'[v].of].last
               /\ \A u \in Threads \ {v} :
                    local'[u].of = local'[v].of => Owed(u)' \cap Owed(v)' = {}
    <3>1. CASE v = t
      <4>1. /\ Owed(t)' \cap credited'[local'[t].of] = {}
            /\ Owed(t)' \subseteq 1 .. bucket'[local'[t].of].last
        BY <2>1
      <4>2. QED
        BY <3>1, <4>1, <2>2, <2>3, <2>4, <2>7
    <3>2. CASE v # t
      <4>1. \A u \in Threads \ {v} :
              local'[u].of = local'[v].of => Owed(u)' \cap Owed(v)' = {}
        BY <3>2, <2>2, <2>7, <2>8
      <4>2. QED
        BY <3>2, <4>1, <2>2, <2>3, <2>4, <2>6
    <3>3. QED
      BY <3>1, <3>2
  <2>10. QED
    BY <2>9 DEF CreditedOnce
<1>6. InOrder'
  <2>1. \A u \in Threads \ {t} :
          /\ local'[u].now <= clock' /\ local'[u].of <= table'
          /\ pc'[u] \in {"claim", "refill", "credit"} => local'[u].seen < local'[u].now
    BY <1>1 DEF InOrder, GoneOn
  <2>2. /\ local'[t].now <= clock' /\ local'[t].of <= table'
        /\ pc'[t] \in {"claim", "refill", "credit"} => local'[t].seen < local'[t].now
    <3>1. 0 <= clock
      BY DEF BucketTypeOK
    <3>2. QED
      BY <1>1, <1>2, <3>1 DEF GoneOn, Accessing
  <2>3. QED
    BY <2>1, <2>2 DEF InOrder
<1>7. DraftInOrder' /\ CeilingInForce'
  BY <1>2 DEF DraftInOrder, CeilingInForce
<1>8. QED
  BY <1>3, <1>4, <1>5, <1>6, <1>7

\* What is known of a bucket and of a thread that uses it.
LEMMA KnownOfBucket ==
  ASSUME BucketInv, NEW t \in Threads
  PROVE  /\ local[t] \in Call /\ local[t].of \in Buckets
         /\ local[t].now \in Nat /\ local[t].seen \in Nat
         /\ local[t].cur \in Nat /\ local[t].need \in Nat
         /\ Mine(t) \in Bucket /\ Mine(t).capacity \in Nat
         /\ Mine(t).available \in Nat /\ Mine(t).last \in Nat
         /\ Mine(t).available <= Mine(t).capacity
         /\ spent[local[t].of] \in Nat /\ credited[local[t].of] \in SUBSET Nat
         /\ clock \in Nat /\ Rate \in Nat /\ table \in Buckets
         /\ local[t].now <= clock /\ local[t].of <= table
         /\ Balanced(Mine(t), spent[local[t].of], credited[local[t].of])
  BY BucketAssumption
     DEF BucketInv, BucketTypeOK, Call, Bucket, Mine, BucketAssumption, InOrder, Conservation

\* A step that leaves every bucket alone.
LEMMA QuietStep ==
  ASSUME BucketInv, NEW t \in Threads, NEW label \in Places, NEW l \in Call,
         GoOn(t, label, l),
         UNCHANGED <<table, bucket, limit, draft, clock, spent, credited>>,
         OwedAt(label, l) = {} \/ (OwedAt(label, l) = Owed(t) /\ l.of = local[t].of),
         l.now <= clock, l.of <= table,
         label \in {"claim", "refill", "credit"} => l.seen < l.now
  PROVE  BucketInv'
<1>1. l.of \in Buckets
  BY DEF Call
<1>2. /\ bucket[l.of] \in Bucket /\ spent[l.of] \in Nat /\ credited[l.of] \in SUBSET Nat
      /\ bucket[l.of].available <= bucket[l.of].capacity
      /\ bucket[l.of].last <= bucket[l.of].last
      /\ Balanced(bucket[l.of], spent[l.of], credited[l.of])
      /\ bucket \in [Buckets -> Bucket] /\ spent \in [Buckets -> Nat]
      /\ credited \in [Buckets -> SUBSET Nat]
  BY <1>1 DEF BucketInv, BucketTypeOK, Conservation, Bucket
<1>3. /\ OwedAt(label, l) \cap credited[l.of] = {}
      /\ OwedAt(label, l) \subseteq 1 .. bucket[l.of].last
  BY <1>1 DEF BucketInv, CreditedOnce
<1>4. \A u \in Threads \ {t} :
        local[u].of = l.of => Owed(u) \cap (OwedAt(label, l) \cup credited[l.of]) = {}
  <2>1. \A u \in Threads \ {t} : local[u].of = l.of => Owed(u) \cap credited[l.of] = {}
    BY DEF BucketInv, CreditedOnce
  <2>2. \A u \in Threads \ {t} : local[u].of = l.of => Owed(u) \cap OwedAt(label, l) = {}
    BY DEF BucketInv, CreditedOnce
  <2>3. QED
    BY <2>1, <2>2
<1>5. QED
  BY <1>2, <1>3, <1>4, BucketStep

-----------------------------------------------------------------------------
(* One lemma per operation: each of its steps preserves the invariant. *)

LEMMA CallStep ==
  ASSUME BucketInv, NEW t \in Threads, try_consume(t) \/ debit_saturating(t) \/ Leave(t)
  PROVE  BucketInv'
<1> USE KnownOfBucket
<1>1. CASE try_consume(t)
  <2>1. PICK need \in Needs :
          GoOn(t, "cursor", [Unoccupied EXCEPT !.of = table, !.need = need, !.now = clock])
    BY <1>1 DEF try_consume
  <2> DEFINE l == [Unoccupied EXCEPT !.of = table, !.need = need, !.now = clock]
  <2>2. l \in Call /\ l.of = table /\ l.now = clock
    BY BucketAssumption DEF Unoccupied, Call, BucketAssumption
  <2>3. table <= table /\ clock <= clock
    BY DEF Buckets
  <2> HIDE DEF l
  <2>4. QED
    BY <1>1, <2>1, <2>2, <2>3, QuietStep DEF try_consume, l, OwedAt, Places, Accessing
<1>2. CASE debit_saturating(t)
  <2>1. PICK need \in Debits :
          GoOn(t, "cursor", [local[t] EXCEPT !.kind = "debit", !.need = need, !.now = clock])
    BY <1>2 DEF debit_saturating
  <2> DEFINE l == [local[t] EXCEPT !.kind = "debit", !.need = need, !.now = clock]
  <2>2. l \in Call /\ l.of = local[t].of /\ l.now = clock
    BY BucketAssumption DEF Call, BucketAssumption
  <2>3. l.now <= clock /\ l.of <= table
    BY <2>2
  <2> HIDE DEF l
  <2>4. OwedAt("cursor", l) = {} /\ "cursor" \in Places
    BY DEF OwedAt, Places, Accessing
  <2>5. GoOn(t, "cursor", l)
    BY <2>1 DEF l
  <2>6. QED
    BY <1>2, <2>2, <2>3, <2>4, <2>5, QuietStep DEF debit_saturating
<1>3. CASE Leave(t)
  <2>1. Unoccupied.now <= clock /\ Unoccupied.of <= table
    BY UnoccupiedIsCall DEF Buckets
  <2>2. OwedAt("idle", Unoccupied) = {} /\ "idle" \in Places
    BY DEF OwedAt, Places
  <2>3. QED
    BY <1>3, <2>1, <2>2, UnoccupiedIsCall, QuietStep DEF Leave
<1>4. QED
  BY <1>1, <1>2, <1>3

\* The cursor moves to the sample of the thread that owns the interval now.
LEMMA ClaimStep ==
  ASSUME BucketInv, NEW t \in Threads, LoadCursor(t) \/ ClaimInterval(t)
  PROVE  BucketInv'
<1> USE KnownOfBucket
<1>1. CASE LoadCursor(t)
  <2> DEFINE l == [local[t] EXCEPT !.seen = Mine(t).last]
  <2>1. /\ l \in Call /\ l.of = local[t].of /\ l.now = local[t].now
        /\ l.seen = Mine(t).last
    BY DEF Call
  <2>2. PICK label \in {"balance", "claim"} :
          GoOn(t, label, l) /\ (label = "claim" => ~(local[t].now <= Mine(t).last))
    BY <1>1 DEF LoadCursor
  <2> HIDE DEF l
  <2>3. label = "claim" => l.seen < l.now
    BY <2>1, <2>2
  <2>4. QED
    BY <1>1, <2>1, <2>2, <2>3, QuietStep DEF LoadCursor, OwedAt, Places, Accessing
<1>2. CASE ClaimInterval(t) /\ UNCHANGED bucket /\ GoOn(t, "balance", local[t])
  BY <1>2, QuietStep DEF ClaimInterval, OwedAt, Places, Accessing
<1>3. CASE /\ ClaimInterval(t)
           /\ Mine(t).last = local[t].seen
           /\ bucket' = [bucket EXCEPT ![local[t].of].last = local[t].now]
           /\ GoOn(t, "refill", local[t])
  <2> DEFINE b == local[t].of
             k == [bucket[b] EXCEPT !.last = local[t].now]
  <2>1. /\ k \in Bucket /\ k.capacity = bucket[b].capacity
        /\ k.available = bucket[b].available /\ k.last = local[t].now
    BY DEF Bucket, Mine
  <2>2. bucket' = [bucket EXCEPT ![b] = k] /\ bucket \in [Buckets -> Bucket]
    BY <1>3 DEF BucketInv, BucketTypeOK
  <2>3. local[t].seen < local[t].now
    BY <1>3 DEF BucketInv, InOrder, ClaimInterval
  <2>4. credited[b] \subseteq 1 .. local[t].seen
    BY <1>3 DEF Balanced, Mine
  <2> HIDE DEF k
  <2>5. Balanced(k, spent[b], credited[b])
    <3>1. credited[b] \subseteq 1 .. k.last
      BY <2>1, <2>3, <2>4
    <3>2. k.available + spent[b] <= k.capacity + Rate * Cardinality(credited[b])
      BY <2>1 DEF Balanced, Mine
    <3>3. QED
      BY <2>1, <3>1, <3>2 DEF Balanced
  <2>6. OwedAt("refill", local[t]) = local[t].seen + 1 .. local[t].now
    BY DEF OwedAt
  <2>7. /\ OwedAt("refill", local[t]) \cap credited[b] = {}
        /\ OwedAt("refill", local[t]) \subseteq 1 .. k.last
    BY <2>1, <2>4, <2>6
  <2>8. ASSUME NEW u \in Threads \ {t}, local[u].of = b
        PROVE  Owed(u) \cap (OwedAt("refill", local[t]) \cup credited[b]) = {}
    <3>1. Owed(u) \cap credited[b] = {} /\ Owed(u) \subseteq 1 .. local[t].seen
      BY <1>3, <2>8 DEF BucketInv, CreditedOnce, Mine
    <3>2. QED
      BY <3>1, <2>6
  <2>9. k.available <= k.capacity /\ bucket[b].last <= k.last
    BY <1>3, <2>1, <2>3 DEF Mine
  <2>10. /\ "refill" \in Places /\ bucket' \in [Buckets -> Bucket] /\ bucket'[b] = k
         /\ \A d \in Buckets \ {b} : bucket'[d] = bucket[d]
         /\ spent' \in [Buckets -> Nat] /\ spent' = spent
         /\ credited' \in [Buckets -> SUBSET Nat] /\ credited' = credited
         /\ UNCHANGED <<table, limit, draft, clock>>
    BY <1>3, <2>1, <2>2 DEF ClaimInterval, BucketInv, BucketTypeOK, Places, Accessing
  <2>11. QED
    BY <1>3, <2>1, <2>3, <2>5, <2>7, <2>8, <2>9, <2>10, BucketStep
<1>4. QED
  BY <1>1, <1>2, <1>3 DEF ClaimInterval

\* The interval a thread owns is credited once, by the exchange that adds it.
LEMMA CreditStep ==
  ASSUME BucketInv, NEW t \in Threads, Refill(t) \/ AddCredit(t)
  PROVE  BucketInv'
<1> USE KnownOfBucket
<1> DEFINE b == local[t].of
           avail == Smaller(local[t].cur + Credit(t), Mine(t).capacity)
           k == [bucket[b] EXCEPT !.available = avail]
<1>1. /\ local[t].seen < local[t].now
      /\ Owed(t) = Interval(t)
  BY DEF BucketInv, InOrder, Refill, AddCredit, Owed
<1>2. CASE JudgeCredit(t, Mine(t).available) /\ UNCHANGED <<bucket, credited, spent>>
  <2> DEFINE l == [local[t] EXCEPT !.cur = Mine(t).available]
  <2>1. /\ l \in Call /\ l.of = b /\ l.now = local[t].now /\ l.seen = local[t].seen
    BY DEF Call
  <2>2. PICK label \in {"balance", "credit"} : GoOn(t, label, l)
    BY <1>2 DEF JudgeCredit
  <2> HIDE DEF l
  <2>3. OwedAt(label, l) = {} \/ OwedAt(label, l) = Owed(t)
    BY <1>1, <2>1, <2>2 DEF OwedAt, Interval
  <2>4. label \in Places /\ UNCHANGED <<table, limit, draft, clock>>
    BY <2>2 DEF Refill, AddCredit, Places, Accessing
  <2>5. QED
    BY <1>1, <1>2, <2>1, <2>2, <2>3, <2>4, QuietStep
<1>3. CASE /\ AddCredit(t)
           /\ Mine(t).available = local[t].cur
           /\ bucket' = [bucket EXCEPT ![b].available = avail]
           /\ credited' = [credited EXCEPT ![b] = @ \cup Interval(t)]
           /\ GoOn(t, "balance", local[t])
  <2>1. /\ Credit(t) = (local[t].now - local[t].seen) * Rate
        /\ Credit(t) \in Nat
    <3>1. local[t].now - local[t].seen \in Nat
      BY <1>1
    <3>2. \A x, y \in Nat : x * y \in Nat
      OBVIOUS
    <3>3. QED
      BY <3>1, <3>2 DEF Credit
  <2>2. avail \in Nat /\ avail <= local[t].cur + Credit(t) /\ avail <= Mine(t).capacity
    BY <2>1 DEF Smaller
  <2> HIDE DEF avail
  <2>3. /\ k \in Bucket /\ k.capacity = bucket[b].capacity
        /\ k.available = avail /\ k.last = bucket[b].last
    BY <2>2 DEF Bucket, Mine
  <2>4. bucket' = [bucket EXCEPT ![b] = k] /\ bucket \in [Buckets -> Bucket]
    BY <1>3 DEF BucketInv, BucketTypeOK
  <2> HIDE DEF k
  <2> DEFINE instants == credited[b] \cup Interval(t)
  <2>5. /\ Interval(t) = local[t].seen + 1 .. local[t].now
        /\ Interval(t) \cap credited[b] = {}
        /\ Interval(t) \subseteq 1 .. bucket[b].last
        /\ credited[b] \subseteq 1 .. bucket[b].last
    BY <1>1 DEF BucketInv, CreditedOnce, Interval
  <2>6. Rate * Cardinality(instants) = Rate * Cardinality(credited[b]) + Credit(t)
    <3>1. Mine(t).last \in Nat /\ credited[b] \subseteq 1 .. Mine(t).last
      BY <2>5 DEF Mine
    <3>2. local[t].seen <= local[t].now
          /\ (local[t].seen + 1 .. local[t].now) \cap credited[b] = {}
      BY <1>1, <2>5
    <3>3. Rate * Cardinality(credited[b] \cup (local[t].seen + 1 .. local[t].now))
            = Rate * Cardinality(credited[b]) + (local[t].now - local[t].seen) * Rate
      BY <3>1, <3>2, WorthOfMore
    <3>4. QED
      BY <2>1, <2>5, <3>3
  <2>7. instants \in SUBSET Nat /\ instants \subseteq 1 .. k.last
    BY <2>3, <2>5 DEF Mine
  <2>8. Rate * Cardinality(instants) \in Nat /\ Rate * Cardinality(credited[b]) \in Nat
    BY <2>3, <2>5, <2>7, Worth DEF Mine
  <2> HIDE DEF instants
  <2>9. Balanced(k, spent[b], instants)
    <3>1. Mine(t).available + spent[b] <= Mine(t).capacity + Rate * Cardinality(credited[b])
      BY DEF Balanced
    <3>2. k.available + spent[b] <= k.capacity + Rate * Cardinality(instants)
      BY <1>3, <2>1, <2>2, <2>3, <2>6, <2>8, <3>1 DEF Mine
    <3>3. k.last <= clock
      BY <2>3 DEF Balanced, Mine
    <3>4. QED
      BY <2>7, <3>2, <3>3 DEF Balanced
  <2>10. ASSUME NEW u \in Threads \ {t}, local[u].of = b
         PROVE  Owed(u) \cap (OwedAt("balance", local[t]) \cup instants) = {}
    <3>1. Owed(u) \cap credited[b] = {} /\ Owed(u) \cap Owed(t) = {}
      BY <2>10 DEF BucketInv, CreditedOnce
    <3>2. QED
      BY <1>1, <3>1 DEF OwedAt, instants
  <2>11. /\ "balance" \in Places /\ OwedAt("balance", local[t]) = {}
         /\ bucket' \in [Buckets -> Bucket] /\ bucket'[b] = k
         /\ \A d \in Buckets \ {b} : bucket'[d] = bucket[d]
    BY <2>3, <2>4 DEF Places, Accessing, OwedAt
  <2>12. /\ credited' \in [Buckets -> SUBSET Nat] /\ credited'[b] = instants
         /\ \A d \in Buckets \ {b} : credited'[d] = credited[d]
    BY <1>3, <2>7 DEF BucketInv, BucketTypeOK, instants
  <2>13. /\ spent' \in [Buckets -> Nat] /\ spent' = spent
         /\ UNCHANGED <<table, limit, draft, clock>>
    BY <1>3 DEF AddCredit, BucketInv, BucketTypeOK
  <2>14. k.available <= k.capacity /\ bucket[b].last <= k.last
    BY <2>2, <2>3 DEF Mine
  <2>15. QED
    BY <1>3, <2>3, <2>7, <2>9, <2>10, <2>11, <2>12, <2>13, <2>14, BucketStep
<1>4. QED
  BY <1>2, <1>3 DEF Refill, AddCredit

\* What is taken out of a balance was in it, and is not in it any more.
LEMMA TakeStep ==
  ASSUME BucketInv, NEW t \in Threads, LoadBalance(t) \/ Take(t)
  PROVE  BucketInv'
<1> USE KnownOfBucket
<1> DEFINE b == local[t].of
           sum == Taken(t, local[t].cur)
           k == [bucket[b] EXCEPT !.available = local[t].cur - sum]
<1>1. UNCHANGED <<table, limit, draft, clock, credited>>
  BY DEF LoadBalance, Take
<1>2. CASE JudgeBalance(t, Mine(t).available) /\ UNCHANGED <<bucket, spent>>
  <2> DEFINE l == [local[t] EXCEPT !.cur = Mine(t).available]
  <2>1. l \in Call /\ l.of = b /\ l.now = local[t].now
    BY DEF Call
  <2>2. PICK label \in {"idle", "take"} : GoOn(t, label, l)
    BY <1>2 DEF JudgeBalance
  <2> HIDE DEF l
  <2>3. OwedAt(label, l) = {} /\ label \in Places
    BY <2>2 DEF OwedAt, Places, Accessing
  <2>4. QED
    BY <1>1, <1>2, <2>1, <2>2, <2>3, QuietStep
<1>3. CASE /\ Take(t)
           /\ Mine(t).available = local[t].cur
           /\ TakeOut(t, local[t].cur)
  <2>1. sum \in Nat /\ sum <= local[t].cur
    BY DEF Taken, Smaller
  <2> HIDE DEF sum
  <2>2. /\ k \in Bucket /\ k.capacity = bucket[b].capacity
        /\ k.available = local[t].cur - sum /\ k.last = bucket[b].last
    BY <2>1 DEF Bucket, Mine
  <2>3. bucket' = [bucket EXCEPT ![b] = k] /\ bucket \in [Buckets -> Bucket]
    BY <1>3 DEF TakeOut, sum, BucketInv, BucketTypeOK
  <2> HIDE DEF k
  <2>4. credited[b] \subseteq 1 .. Mine(t).last /\ Rate * Cardinality(credited[b]) \in Nat
    BY Worth DEF Balanced
  <2>5. Balanced(k, spent[b] + sum, credited[b])
    BY <1>3, <2>1, <2>2, <2>4 DEF Balanced, Mine
  <2>6. PICK label \in {"idle", "flight"} : GoOn(t, label, local[t])
    BY <1>3 DEF TakeOut
  <2>7. label \in Places /\ OwedAt(label, local[t]) = {}
    BY <2>6 DEF Places, OwedAt
  <2>8. \A u \in Threads \ {t} : local[u].of = b =>
          Owed(u) \cap (OwedAt(label, local[t]) \cup credited[b]) = {}
    BY <2>7 DEF BucketInv, CreditedOnce
  <2>9. /\ bucket' \in [Buckets -> Bucket] /\ bucket'[b] = k
        /\ \A d \in Buckets \ {b} : bucket'[d] = bucket[d]
    BY <2>2, <2>3
  <2>10. /\ spent' \in [Buckets -> Nat] /\ spent'[b] = spent[b] + sum
         /\ \A d \in Buckets \ {b} : spent'[d] = spent[d]
         /\ spent[b] + sum \in Nat
    BY <1>3, <2>1 DEF TakeOut, sum, BucketInv, BucketTypeOK
  <2>11. credited' \in [Buckets -> SUBSET Nat] /\ credited' = credited
    BY <1>1 DEF BucketInv, BucketTypeOK
  <2>12. k.available <= k.capacity /\ bucket[b].last <= k.last
    BY <1>3, <2>1, <2>2 DEF Mine
  <2>13. QED
    BY <1>1, <2>2, <2>5, <2>6, <2>7, <2>8, <2>9, <2>10, <2>11, <2>12, BucketStep
<1>4. QED
  BY <1>2, <1>3 DEF LoadBalance, Take

-----------------------------------------------------------------------------
(* The clock, and the rebuild of the table *)

LEMMA PassStep ==
  ASSUME BucketInv, Pass
  PROVE  BucketInv'
<1> USE DEF BucketInv, Pass
<1>1. BucketTypeOK'
  BY DEF BucketTypeOK
<1>2. Conservation'
  <2>1. clock \in Nat /\ \A b \in Buckets : bucket[b].last \in Nat
    BY DEF BucketTypeOK, Bucket
  <2>2. \A b \in Buckets : Balanced(bucket[b], spent[b], credited[b])'
    BY <2>1 DEF Conservation, Balanced
  <2>3. draft.bucket.last \in Nat
    BY DEF BucketTypeOK, Bucket
  <2>4. (draft.step = "publish" => Balanced(draft.bucket, draft.spent, draft.credited))'
    BY <2>1, <2>3 DEF Conservation, Balanced
  <2>5. QED
    BY <2>2, <2>4 DEF Conservation
<1>3. CreditedOnce'
  BY DEF CreditedOnce, Owed, Interval
<1>4. InOrder'
  BY DEF InOrder, BucketTypeOK, Call
<1>5. DraftInOrder' /\ CeilingInForce'
  BY DEF DraftInOrder, CeilingInForce
<1>6. QED
  BY <1>1, <1>2, <1>3, <1>4, <1>5

\* A new bucket is full and owes nothing.
LEMMA NewBalanced ==
  ASSUME NEW l \in Limits
  PROVE  /\ new(l) \in Bucket /\ new(l).available <= new(l).capacity /\ new(l).capacity = l
         /\ clock \in Nat => Balanced(new(l), 0, {})
<1>1. l \in Nat /\ Rate \in Nat
  BY BucketAssumption DEF BucketAssumption
<1>2. Cardinality({}) = 0
  BY FS_EmptySet
<1>3. Rate * 0 = 0
  BY <1>1
<1>4. QED
  BY <1>1, <1>2, <1>3 DEF new, Bucket, Balanced

\* A draft of the next table: its balance is copied with what it stands for.
LEMMA RebuildStep ==
  ASSUME BucketInv, NEW l \in Limits, Rebuild(l)
  PROVE  BucketInv'
<1> USE DEF BucketInv
<1>1. /\ table \in Buckets /\ table <= MaxRebuilds
      /\ bucket[table] \in Bucket /\ spent[table] \in Nat /\ credited[table] \in SUBSET Nat
      /\ bucket[table].available <= bucket[table].capacity
      /\ clock \in Nat
  BY DEF BucketTypeOK, Rebuild
<1>2. /\ draft' \in [step : {"none", "cursor", "publish"}, bucket : Bucket, limit : Limits,
                     spent : Nat, credited : SUBSET Nat]
      /\ draft'.bucket.available <= draft'.bucket.capacity
      /\ draft'.step = "publish" => Balanced(draft'.bucket, draft'.spent, draft'.credited)
      /\ draft'.step = "cursor" =>
           draft'.bucket = bucket[table] /\ draft'.spent = spent[table]
           /\ draft'.credited = credited[table]
      /\ ~CarriesChanged => draft'.bucket.capacity = draft'.limit
  <2>1. CASE l = limit[table] \/ CarriesChanged
    <3>1. draft' = [step |-> "cursor", bucket |-> bucket[table], limit |-> l,
                    spent |-> spent[table], credited |-> credited[table]]
      BY <2>1 DEF Rebuild
    <3>2. QED
      BY <1>1, <2>1, <3>1 DEF CeilingInForce
  <2>2. CASE ~(l = limit[table] \/ CarriesChanged)
    <3>1. draft' = [step |-> "publish", bucket |-> new(l), limit |-> l,
                    spent |-> 0, credited |-> {}]
      BY <2>2 DEF Rebuild, NoDraft
    <3>2. QED
      BY <1>1, <3>1, NewBalanced
  <2>3. QED
    BY <2>1, <2>2
<1>3. UNCHANGED <<table, bucket, limit, clock, pc, local, spent, credited>>
  BY DEF Rebuild
<1>4. BucketTypeOK'
  BY <1>2, <1>3 DEF BucketTypeOK
<1>5. Conservation'
  <2>1. \A b \in Buckets : Balanced(bucket[b], spent[b], credited[b])'
    BY <1>3 DEF Conservation, Balanced
  <2>2. (draft.step = "publish" => Balanced(draft.bucket, draft.spent, draft.credited))'
    BY <1>2, <1>3 DEF Balanced
  <2>3. Balanced(bucket[table], spent[table], credited[table])
    BY <1>1 DEF Conservation
  <2>4. QED
    BY <1>2, <1>3, <2>1, <2>2, <2>3 DEF Conservation, Balanced
<1>6. CreditedOnce' /\ InOrder'
  BY <1>3 DEF CreditedOnce, Owed, Interval, InOrder
<1>7. DraftInOrder' /\ CeilingInForce'
  BY <1>1, <1>2, <1>3 DEF DraftInOrder, CeilingInForce
<1>8. QED
  BY <1>4, <1>5, <1>6, <1>7

\* The cursor is copied after the balance: time credited in between is lost to
\* the copy, and never credited to it again.
LEMMA CopyStep ==
  ASSUME BucketInv, CopyCursor
  PROVE  BucketInv'
<1> USE DEF BucketInv
<1> DEFINE k == [draft.bucket EXCEPT !.last = bucket[table].last]
<1>1. /\ table \in Buckets /\ bucket[table] \in Bucket /\ bucket[table].last \in Nat
      /\ draft.bucket \in Bucket /\ draft.limit \in Limits /\ draft.spent \in Nat
      /\ draft.credited \in SUBSET Nat /\ draft.step = "cursor"
  BY DEF BucketTypeOK, CopyCursor, Bucket
<1>2. /\ k \in Bucket /\ k.last = bucket[table].last
      /\ k.capacity = draft.bucket.capacity /\ k.available = draft.bucket.available
  BY <1>1 DEF Bucket
<1>3. draft' = [step |-> "publish", bucket |-> k, limit |-> draft.limit,
                spent |-> draft.spent, credited |-> draft.credited]
  BY DEF CopyCursor, BucketTypeOK
<1> HIDE DEF k
<1>4. /\ draft'.step = "publish" /\ draft'.bucket = k /\ draft'.limit = draft.limit
      /\ draft'.spent = draft.spent /\ draft'.credited = draft.credited
  BY <1>3
<1>5. UNCHANGED <<table, bucket, limit, clock, pc, local, spent, credited>>
  BY DEF CopyCursor
<1>6. BucketTypeOK'
  BY <1>1, <1>2, <1>3, <1>5 DEF BucketTypeOK
<1>7. Conservation'
  <2>1. \A b \in Buckets : Balanced(bucket[b], spent[b], credited[b])'
    BY <1>5 DEF Conservation, Balanced
  <2>2. bucket[table].last <= clock
    BY <1>1 DEF Conservation, Balanced
  <2>3. Balanced(k, draft.spent, draft.credited)
    BY <1>1, <1>2, <2>2 DEF Conservation, Balanced
  <2>4. QED
    BY <1>4, <1>5, <2>1, <2>3 DEF Conservation, Balanced
<1>8. CreditedOnce' /\ InOrder'
  BY <1>5 DEF CreditedOnce, Owed, Interval, InOrder
<1>9. DraftInOrder' /\ CeilingInForce'
  BY <1>1, <1>2, <1>4, <1>5 DEF DraftInOrder, CeilingInForce
<1>10. QED
  BY <1>6, <1>7, <1>8, <1>9

\* The table in force is replaced; no thread uses its bucket before that.
LEMMA PublishStep ==
  ASSUME BucketInv, Publish
  PROVE  BucketInv'
<1> USE DEF BucketInv
<1>1. /\ draft.step = "publish" /\ table \in Buckets /\ table + 1 \in Buckets
      /\ draft.bucket \in Bucket /\ draft.limit \in Limits /\ draft.spent \in Nat
      /\ draft.credited \in SUBSET Nat
      /\ draft.bucket.available <= draft.bucket.capacity
      /\ Balanced(draft.bucket, draft.spent, draft.credited)
      /\ 1 \in Buckets /\ limit[1] \in Limits
  BY BucketAssumption
     DEF Publish, BucketTypeOK, DraftInOrder, Conservation, Buckets, BucketAssumption
<1>2. /\ table' = table + 1 /\ UNCHANGED <<clock, pc, local>>
      /\ bucket' = [bucket EXCEPT ![table + 1] = draft.bucket]
      /\ limit' = [limit EXCEPT ![table + 1] = draft.limit]
      /\ spent' = [spent EXCEPT ![table + 1] = draft.spent]
      /\ credited' = [credited EXCEPT ![table + 1] = draft.credited]
  BY DEF Publish
<1>3. /\ draft' \in [step : {"none", "cursor", "publish"}, bucket : Bucket, limit : Limits,
                     spent : Nat, credited : SUBSET Nat]
      /\ draft'.step = "none"
  BY <1>1, NewBalanced DEF Publish, NoDraft
<1>4. /\ bucket' \in [Buckets -> Bucket] /\ limit' \in [Buckets -> Limits]
      /\ spent' \in [Buckets -> Nat] /\ credited' \in [Buckets -> SUBSET Nat]
      /\ bucket'[table + 1] = draft.bucket /\ limit'[table + 1] = draft.limit
      /\ spent'[table + 1] = draft.spent /\ credited'[table + 1] = draft.credited
      /\ \A b \in Buckets \ {table + 1} :
           /\ bucket'[b] = bucket[b] /\ limit'[b] = limit[b]
           /\ spent'[b] = spent[b] /\ credited'[b] = credited[b]
  BY <1>1, <1>2 DEF BucketTypeOK
<1>5. BucketTypeOK'
  BY <1>1, <1>2, <1>3, <1>4 DEF BucketTypeOK
<1>6. Conservation'
  BY <1>1, <1>2, <1>3, <1>4 DEF Conservation, Balanced
<1>7. \A t \in Threads : local[t].of \in Buckets \ {table + 1} /\ local[t].of <= table + 1
  <2>1. ASSUME NEW t \in Threads
        PROVE  local[t].of \in Buckets \ {table + 1} /\ local[t].of <= table + 1
    <3>1. local[t].of \in Buckets /\ local[t].of <= table /\ table \in Buckets
      BY DEF InOrder, BucketTypeOK, Call
    <3>2. QED
      BY <3>1 DEF Buckets
  <2>2. QED
    BY <2>1
<1>8. CreditedOnce'
  BY <1>2, <1>4, <1>7 DEF CreditedOnce, Owed, Interval
<1>9. InOrder'
  BY <1>2, <1>7 DEF InOrder
<1>10. DraftInOrder' /\ CeilingInForce'
  BY <1>1, <1>3, <1>4 DEF DraftInOrder, CeilingInForce
<1>11. QED
  BY <1>5, <1>6, <1>8, <1>9, <1>10

-----------------------------------------------------------------------------
LEMMA BucketInitInv == BucketInit => BucketInv
<1> SUFFICES ASSUME NEW l \in Limits,
                    table = 1, bucket = [b \in Buckets |-> new(l)],
                    limit = [b \in Buckets |-> l], draft = NoDraft(l), clock = 0,
                    pc = [t \in Threads |-> "idle"], local = [t \in Threads |-> Unoccupied],
                    spent = [b \in Buckets |-> 0], credited = [b \in Buckets |-> {}]
             PROVE  BucketInv
  BY DEF BucketInit
<1>1. /\ new(l) \in Bucket /\ new(l).available <= new(l).capacity /\ new(l).capacity = l
      /\ Balanced(new(l), 0, {})
  BY NewBalanced
<1>2. 1 \in Buckets
  BY BucketAssumption DEF Buckets, BucketAssumption
<1>3. BucketTypeOK
  <2>1. draft \in [step : {"none", "cursor", "publish"}, bucket : Bucket, limit : Limits,
                   spent : Nat, credited : SUBSET Nat]
    BY <1>1 DEF NoDraft
  <2>2. QED
    BY <1>1, <1>2, <2>1, UnoccupiedIsCall DEF BucketTypeOK
<1>4. draft.step = "none"
  BY DEF NoDraft
<1>5. Conservation
  BY <1>1, <1>4 DEF Conservation
<1>6. CreditedOnce
  BY <1>2, UnoccupiedIsCall DEF CreditedOnce, Owed
<1>7. InOrder
  <2>1. ASSUME NEW t \in Threads
        PROVE  /\ local[t].now <= clock /\ local[t].of <= table
               /\ pc[t] \notin {"claim", "refill", "credit"}
    <3>1. local[t] = Unoccupied /\ pc[t] = "idle"
      OBVIOUS
    <3>2. local[t].now = 0 /\ local[t].of = 1
      BY <3>1, UnoccupiedIsCall
    <3>3. QED
      BY <3>1, <3>2
  <2>2. QED
    BY <2>1 DEF InOrder
<1>8. DraftInOrder /\ CeilingInForce
  BY <1>1, <1>4 DEF DraftInOrder, CeilingInForce
<1>9. QED
  BY <1>3, <1>5, <1>6, <1>7, <1>8 DEF BucketInv

LEMMA BucketNextStep ==
  ASSUME BucketInv, [BucketNext]_bvars
  PROVE  BucketInv'
<1>1. ASSUME NEW t \in Threads,
             \/ try_consume(t) \/ debit_saturating(t) \/ Leave(t)
             \/ refill(t) \/ settle(t)
      PROVE  BucketInv'
  BY <1>1, CallStep, ClaimStep, CreditStep, TakeStep DEF refill, settle
<1>2. CASE UNCHANGED bvars
  BY <1>2 DEF bvars, BucketInv, BucketTypeOK, Conservation, Balanced, CreditedOnce, Owed, Interval,
              InOrder, DraftInOrder, CeilingInForce
<1>3. QED
  BY <1>1, <1>2, PassStep, RebuildStep, CopyStep, PublishStep DEF BucketNext

\* What a bucket gave away it had at first, or was credited for time that passed.
LEMMA RateFollows == BucketInv /\ ~CarriesChanged => RateHeld
<1> SUFFICES ASSUME BucketInv, ~CarriesChanged, NEW b \in 1 .. table
             PROVE  spent[b] <= limit[b] + Rate * clock
  BY DEF RateHeld
<1>1. b \in Buckets
  BY BucketAssumption DEF BucketInv, BucketTypeOK, Buckets, BucketAssumption
<1>2. /\ bucket[b].available \in Nat /\ bucket[b].last \in Nat /\ spent[b] \in Nat
      /\ limit[b] \in Nat /\ clock \in Nat /\ bucket[b].capacity = limit[b]
  BY <1>1, BucketAssumption
     DEF BucketInv, BucketTypeOK, Bucket, CeilingInForce, BucketAssumption
<1>3. Balanced(bucket[b], spent[b], credited[b])
  BY <1>1 DEF BucketInv, Conservation
<1>4. credited[b] \subseteq 1 .. clock
  BY <1>2, <1>3 DEF Balanced
<1>5. /\ Rate * Cardinality(credited[b]) \in Nat
      /\ Rate * Cardinality(credited[b]) <= Rate * clock
  BY <1>2, <1>4, Worth
<1>6. Rate * clock \in Nat
  <2>1. \A x, y \in Nat : x * y \in Nat
    OBVIOUS
  <2>2. QED
    BY <1>2, <2>1, BucketAssumption DEF BucketAssumption
<1>7. QED
  BY <1>2, <1>3, <1>5, <1>6 DEF Balanced

-----------------------------------------------------------------------------
(* Theorems about the bucket *)

\* What holds between any two accesses of a bucket.
THEOREM BucketInvariance == BucketSpec => []BucketInv
  BY BucketInitInv, BucketNextStep, PTL DEF BucketSpec

\* Every variable keeps its type: no balance is negative or above its capacity.
THEOREM BucketTyping == BucketSpec => []BucketTypeOK
  BY BucketInvariance, PTL DEF BucketInv

\* refill's exchange of the cursor gives every interval to one thread, and
\* clone_state copies no time that is then credited again.
THEOREM IntervalsOnce == BucketSpec => []CreditedOnce
  BY BucketInvariance, PTL DEF BucketInv

\* However many consumers, debits, refills and rebuilds race, what is taken out
\* of a bucket is covered by its ceiling and the time that has passed, when a
\* rebuild makes a new bucket for an edited ceiling (VkRuntime::new).
THEOREM NoOverdraft == ~CarriesChanged => (BucketSpec => []RateHeld)
<1> SUFFICES ASSUME ~CarriesChanged PROVE BucketSpec => []RateHeld
  OBVIOUS
<1>1. BucketInv => RateHeld
  BY RateFollows
<1>2. QED
  BY <1>1, BucketInvariance, PTL
=============================================================================
