------------------------------- MODULE Dispatch -------------------------------
(***************************************************************************)
(* A request's way through the gateway: the plan of targets (router.rs),   *)
(* the attempts on each (run_chat and attempt in proxy.rs), the selection  *)
(* of a key (admit_for), and the permits that ride with the request until  *)
(* its answer has been relayed, while the routing table is rebuilt.        *)
(*                                                                         *)
(* A breaker is its gate: up, or out.  When a gate that is out offers a    *)
(* probe, and that it offers one per cooldown, is Breaker.tla's matter;    *)
(* here it may at any time.  Which of several keys is picked (weights,     *)
(* balance, the pin of a session) is left open.                            *)
(*                                                                         *)
(* A definition named <name>_<fault> is <name> with a fault, kept to show  *)
(* that the properties detect it; no specification uses it.                *)
(***************************************************************************)
EXTENDS Integers, Sequences, FiniteSets

CONSTANTS
  Requests,
  Providers,
  Keys,
  Pool,           \* the keys of each provider; a provider without any is keyless
  Plans,          \* the sequences of targets that requests resolve to
  Rated,          \* keys with a ceiling per minute, which may refuse
  Ceiling,        \* ceiling of the slots of every key to begin with
  Ceilings,       \* ceilings an operator may give to the slots of a key
  Editable,       \* keys whose ceiling is edited
  MaxConcurrency, \* permits of a provider
  MaxAttempts,    \* max_attempts: configured attempts per target
  Cap,            \* MAX_ATTEMPTS_PER_TARGET
  RetryOn,        \* which of "429" and "5xx" are retried
  MaxRebuilds     \* bound on the rebuilds of the table

ASSUME DispatchAssumption ==
  /\ Pool \in [Providers -> SUBSET Keys]
  /\ IsFiniteSet(Keys) /\ IsFiniteSet(Requests)
  /\ Keys \cap Providers = {} /\ "none" \notin Keys
  /\ Plans # {} /\ Plans \subseteq Seq(Providers) \ {<< >>}
  /\ Ceiling \in Ceilings /\ Ceilings \subseteq Nat \ {0}
  /\ MaxConcurrency \in Nat \ {0}
  /\ MaxAttempts \in Nat
  /\ Cap \in Nat \ {0}
  /\ MaxRebuilds \in Nat

VARIABLES
  table,   \* the table in force
  ceiling, \* of the slots of each key, in each table
  slots,   \* the table that made the semaphore of each key in each table
  free,    \* free slots of the semaphores each table made
  permits, \* free permits of each provider in each table
  gate,    \* whether the breaker of each key or keyless provider is up
  pc,
  req,     \* what each request carries
  \* history
  spare    \* keys that have had room ever since a request began to look for one to recover

vars == <<table, ceiling, slots, free, permits, gate, pc, req, spare>>

Tables == 1 .. MaxRebuilds + 1
Units == Keys \cup Providers
None == "none"

\* table: its routing table; plan, t: its targets and the one it is at; a,
\* budget: the attempt and how many there are; todo: keys still to look at;
\* healthy: those found up; key: the key (or keyless provider) it was admitted
\* on, with its slot; permit: whether it holds a permit; back: where a refusal
\* by the rate takes it.
Request == [table : Tables, plan : Plans, t : Nat \ {0}, a : 0 .. Cap, budget : 0 .. Cap,
            todo : SUBSET Keys, healthy : SUBSET Keys, key : Units \cup {None},
            permit : BOOLEAN, back : {"pick", "recover"}]

\* The state stays in its types; a plan is never read past its end, and a
\* target is tried no more often than the cap allows.
TypeOK ==
  /\ table \in Tables
  /\ ceiling \in [Tables -> [Keys -> Ceilings]]
  /\ slots \in [Tables -> [Keys -> Tables]]
  /\ free \in [Tables -> [Keys -> Nat]]
  /\ permits \in [Tables -> [Providers -> 0 .. MaxConcurrency]]
  /\ gate \in [Tables -> [Units -> {"up", "out"}]]
  /\ pc \in [Requests -> {"idle", "target", "keyless", "filter", "pick", "recover", "rate",
                          "permit", "sent", "renew", "collect", "relay"}]
  /\ req \in [Requests -> Request]
  /\ \A r \in Requests : req[r].t <= Len(req[r].plan)
  /\ spare \in [Requests -> SUBSET Keys]

Fresh == [table |-> 1, plan |-> CHOOSE plan \in Plans : TRUE, t |-> 1, a |-> 0, budget |-> 0,
          todo |-> {}, healthy |-> {}, key |-> None, permit |-> FALSE, back |-> "pick"]

Init ==
  /\ table = 1
  /\ ceiling = [v \in Tables |-> [k \in Keys |-> Ceiling]]
  /\ slots = [v \in Tables |-> [k \in Keys |-> 1]]
  /\ free = ceiling
  /\ permits = [v \in Tables |-> [p \in Providers |-> MaxConcurrency]]
  /\ gate = [v \in Tables |-> [u \in Units |-> "up"]]
  /\ pc = [r \in Requests |-> "idle"]
  /\ req = [r \in Requests |-> Fresh]
  /\ spare = [r \in Requests |-> {}]

-----------------------------------------------------------------------------
Goto(r, label, q) ==
  /\ pc' = [pc EXCEPT ![r] = label]
  /\ req' = [req EXCEPT ![r] = IF label = "idle" THEN Fresh ELSE q]

Target(q) == q.plan[q.t]
Up(v) == {u \in Units : gate[v][u] = "up"}

Smaller(a, b) == IF a < b THEN a ELSE b
Larger(a, b) == IF a > b THEN a ELSE b

tables == <<table, ceiling, slots>>
room == <<free, permits>>

\* A request without a key, a slot or a permit.
Empty(q) == [q EXCEPT !.key = None, !.permit = FALSE, !.todo = {}, !.healthy = {}]

\* A request that has found its key looks no further.
Admit(r, q) == Goto(r, "permit", [q EXCEPT !.todo = {}, !.healthy = {}, !.back = "pick"])

\* The target is given up: the next one's turn, or the last error is answered.
NextTarget(r, q) ==
  IF q.t = Len(q.plan) THEN Goto(r, "idle", Fresh)
  ELSE Goto(r, "target", [Empty(q) EXCEPT !.t = q.t + 1])

Attempt(r, q) ==
  Goto(r, IF Pool[Target(q)] = {} THEN "keyless" ELSE "filter",
       [q EXCEPT !.a = @ + 1, !.todo = Pool[Target(q)]])

\* The attempt failed.
NextAttempt(r, q) == IF q.a = q.budget THEN NextTarget(r, q) ELSE Attempt(r, Empty(q))

IsLastCandidate(q) == q.t = Len(q.plan) /\ q.a = q.budget

\* The slots of a key, by the table that made them.
Maker(q, k) == slots[q.table][k]
HasSlot(q, k) == free[Maker(q, k)][k] > 0
TakeSlot(q, k) == free' = [free EXCEPT ![Maker(q, k)][k] = @ - 1]

\* What a request holds goes back when what carries it is dropped.
Release(q) ==
  /\ free' = IF q.key \in Keys THEN [free EXCEPT ![Maker(q, q.key)][q.key] = @ + 1] ELSE free
  /\ permits' = IF q.permit THEN [permits EXCEPT ![q.table][Target(q)] = @ + 1] ELSE permits

-----------------------------------------------------------------------------
(* run_chat: the plan, and how often a target is worth trying *)

Plan(r) ==
  \E plan \in Plans :
    /\ pc[r] = "idle"
    /\ Goto(r, "target", [Fresh EXCEPT !.table = table, !.plan = plan])
    /\ UNCHANGED <<tables, room, gate>>

\* attempt_budget: the configured attempts or, if more, the keys that could serve.
AttemptBudget(q) ==
  LET usable == Cardinality(Pool[Target(q)] \cap Up(q.table))
  IN  Smaller(Cap, Larger(MaxAttempts, Larger(1, usable)))

Begin(r) ==
  /\ pc[r] = "target"
  /\ Attempt(r, [req[r] EXCEPT !.a = 0, !.budget = AttemptBudget(req[r])])
  /\ UNCHANGED <<tables, room, gate>>

-----------------------------------------------------------------------------
(* admit_for *)

\* A keyless provider is admitted by its own breaker, or refused.
AdmitKeyless(r) ==
  LET p == Target(req[r]) IN
    /\ pc[r] = "keyless"
    /\ \/ Admit(r, [req[r] EXCEPT !.key = p])
       \/ p \notin Up(req[r].table) /\ NextTarget(r, req[r])
    /\ UNCHANGED <<tables, room, gate>>

\* looks_healthy, key by key in the order of the config.
Filter(r) ==
  LET k == CHOOSE k \in req[r].todo : TRUE
      rest == req[r].todo \ {k}
  IN
    /\ pc[r] = "filter"
    /\ Goto(r, IF rest = {} THEN "pick" ELSE "filter",
            [req[r] EXCEPT !.todo = rest, !.healthy = @ \cup ({k} \cap Up(req[r].table))])
    /\ UNCHANGED <<tables, room, gate>>

\* admit_now takes the slot first, and then asks the rate.
Reserve(r, k, q) ==
  IF HasSlot(q, k)
  THEN /\ TakeSlot(q, k)
       /\ IF k \in Rated THEN Goto(r, "rate", [q EXCEPT !.key = k])
          ELSE Admit(r, [q EXCEPT !.key = k])
  ELSE UNCHANGED free /\ Goto(r, q.back, q)

\* The healthy keys, one after the other; when none has room, all keys again.
Pick(r) ==
  /\ pc[r] = "pick"
  /\ IF req[r].healthy = {}
     THEN UNCHANGED free /\ Goto(r, "recover", [req[r] EXCEPT !.todo = Pool[Target(req[r])]])
     ELSE \E k \in req[r].healthy :
            Reserve(r, k, [req[r] EXCEPT !.healthy = @ \ {k}, !.back = "pick"])
  /\ UNCHANGED <<tables, permits, gate>>

Without(q, k) == [q EXCEPT !.todo = @ \ {k}, !.back = "recover"]

\* A key whose gate is out is refused, or probed: a probe needs no more than a
\* slot, and is lost for want of one.
Probe(r, k) ==
  /\ k \notin Up(req[r].table)
  /\ \/ UNCHANGED free /\ Goto(r, "recover", Without(req[r], k))
     \/ /\ HasSlot(req[r], k)
        /\ TakeSlot(req[r], k)
        /\ Admit(r, [req[r] EXCEPT !.key = k])

Recover_ProbesOnly(r) ==
  /\ pc[r] = "recover"
  /\ \E k \in req[r].todo :
       \/ k \in Up(req[r].table) /\ Goto(r, "recover", Without(req[r], k)) /\ UNCHANGED free
       \/ Probe(r, k)
  /\ UNCHANGED <<tables, permits, gate>>

\* A key that has come up since it was filtered out is taken like any other.
Recover(r) ==
  /\ pc[r] = "recover"
  /\ \E k \in req[r].todo :
       \/ k \in Up(req[r].table) /\ Reserve(r, k, Without(req[r], k))
       \/ Probe(r, k)
  /\ UNCHANGED <<tables, permits, gate>>

PoolEmpty(r) ==
  /\ pc[r] = "recover" /\ req[r].todo = {}
  /\ NextTarget(r, req[r])
  /\ UNCHANGED <<tables, room, gate>>

Rate_KeepsSlot(r) ==
  /\ pc[r] = "rate"
  /\ \/ Admit(r, req[r])
     \/ Goto(r, req[r].back, [req[r] EXCEPT !.key = None])
  /\ UNCHANGED <<tables, room, gate>>

\* try_admit_request: a slot of a key over its rate is given back.
Rate(r) ==
  /\ pc[r] = "rate"
  /\ \/ Admit(r, req[r]) /\ UNCHANGED room
     \/ Goto(r, req[r].back, [req[r] EXCEPT !.key = None]) /\ Release(req[r])
  /\ UNCHANGED <<tables, gate>>

\* The provider's permit; without one the slot is dropped and the target left.
Permit(r) ==
  LET q == req[r] IN
    /\ pc[r] = "permit"
    /\ IF permits[q.table][Target(q)] > 0
       THEN /\ permits' = [permits EXCEPT ![q.table][Target(q)] = @ - 1]
            /\ Goto(r, "sent", [q EXCEPT !.permit = TRUE])
            /\ UNCHANGED free
       ELSE Release(q) /\ NextTarget(r, q)
    /\ UNCHANGED <<tables, gate>>

-----------------------------------------------------------------------------
(* attempt *)

Succeed(q) == gate' = [gate EXCEPT ![q.table][q.key] = "up"]

\* A failure may trip the breaker, or a bench take the key out.
Fault(q) == UNCHANGED gate \/ gate' = [gate EXCEPT ![q.table][q.key] = "out"]

\* The permits were the attempt's.
Retry(r) == Release(req[r]) /\ NextAttempt(r, req[r])

\* The answer is relayed as it comes, verbatim or event by event.
Relay(r) == Goto(r, "relay", req[r]) /\ UNCHANGED room

\* The transport fails or times out.
Unreachable(r) ==
  /\ pc[r] = "sent" /\ Fault(req[r]) /\ Retry(r)
  /\ UNCHANGED tables

\* Served, or refused for what it asks.  An answer to be translated may be
\* collected whole first.
Served(r) ==
  /\ pc[r] = "sent" /\ Succeed(req[r])
  /\ Relay(r) \/ (Goto(r, "collect", req[r]) /\ UNCHANGED room)
  /\ UNCHANGED tables

Throttled(r) ==
  \E status \in {"429", "5xx"} :
    /\ pc[r] = "sent" /\ Fault(req[r])
    /\ IF status \in RetryOn /\ ~IsLastCandidate(req[r]) THEN Retry(r) ELSE Relay(r)
    /\ UNCHANGED tables

\* The seat cannot authenticate; it may be renewed.
Denied(r) ==
  /\ pc[r] = "sent" /\ Fault(req[r])
  /\ Goto(r, "renew", req[r])
  /\ UNCHANGED <<tables, room>>

Renew(r) ==
  /\ pc[r] = "renew"
  /\ IF IsLastCandidate(req[r])
     THEN (Succeed(req[r]) \/ UNCHANGED gate) /\ Relay(r)
     ELSE UNCHANGED gate /\ Retry(r)
  /\ UNCHANGED tables

\* Whether the caller's pool still has a key that is up, the one just held
\* out not counted.
NobodyLeft(q) == q.key \in Keys /\ {k \in Pool[Target(q)] : gate'[q.table][k] = "up"} = {}

\* A whole answer: the permits go back once it is here.  If it turns out to be
\* a refusal the key is held out and another tried, if there is one.
Collect(r) ==
  /\ pc[r] = "collect"
  /\ Release(req[r])
  /\ \/ Goto(r, "idle", Fresh) /\ UNCHANGED gate
     \/ /\ Fault(req[r])
        /\ IF IsLastCandidate(req[r]) \/ NobodyLeft(req[r]) THEN Goto(r, "idle", Fresh)
           ELSE NextAttempt(r, req[r])
  /\ UNCHANGED tables

\* The body ends; a translated stream may have carried a refusal.
EndOfBody(r) ==
  /\ pc[r] = "relay"
  /\ Fault(req[r])
  /\ Release(req[r])
  /\ Goto(r, "idle", Fresh)
  /\ UNCHANGED tables

\* The client hangs up while the gateway waits for the provider: nothing is
\* reported to the breaker, and what the request held is dropped with it.
Disconnect(r) ==
  /\ pc[r] \in {"sent", "renew", "collect", "relay"}
  /\ Release(req[r])
  /\ Goto(r, "idle", Fresh)
  /\ UNCHANGED <<tables, gate>>

-----------------------------------------------------------------------------
(* What happens besides *)

\* A bench expires on a key whose breaker is closed.
ComeUp ==
  \E v \in 1 .. table, u \in Units :
    /\ gate[v][u] = "out"
    /\ gate' = [gate EXCEPT ![v][u] = "up"]
    /\ UNCHANGED <<tables, room, pc, req>>

carry_slots_Never(c, k) == table + 1

\* The semaphore of a key whose ceiling stands is carried into the new table.
carry_slots(c, k) == IF c[k] = ceiling[table][k] THEN slots[table][k] ELSE table + 1

\* Every breaker and every provider's semaphore is made anew.
Rebuild ==
  \E c \in [Keys -> Ceilings] :
    LET carried == [k \in Keys |-> carry_slots(c, k)] IN
      /\ table <= MaxRebuilds
      /\ \A k \in Keys \ Editable : c[k] = ceiling[table][k]
      /\ table' = table + 1
      /\ ceiling' = [ceiling EXCEPT ![table'] = c]
      /\ slots' = [slots EXCEPT ![table'] = carried]
      /\ free' = [free EXCEPT ![table'] = c]
      /\ permits' = [permits EXCEPT ![table'] = [p \in Providers |-> MaxConcurrency]]
      /\ gate' = [gate EXCEPT ![table'] = [u \in Units |-> "up"]]
      /\ UNCHANGED <<pc, req>>

admit_for(r) == \/ AdmitKeyless(r) \/ Filter(r) \/ Pick(r) \/ Recover(r)
                \/ PoolEmpty(r) \/ Rate(r)
attempt(r) == \/ Unreachable(r) \/ Served(r) \/ Throttled(r) \/ Denied(r) \/ Renew(r)
              \/ Collect(r) \/ EndOfBody(r)
\* Keys that are up, have a slot, and cannot be refused by their rate.
Roomy(q) ==
  {k \in Pool[Target(q)] \ Rated : gate[q.table][k] = "up" /\ free[slots[q.table][k]][k] > 0}

Recovering(r) == pc[r] = "recover" \/ (pc[r] = "rate" /\ req[r].back = "recover")

Step ==
  \/ \E r \in Requests : \/ Plan(r) \/ Begin(r) \/ admit_for(r) \/ Permit(r)
                           \/ attempt(r) \/ Disconnect(r)
  \/ ComeUp \/ Rebuild

Next ==
  /\ Step
  /\ spare' = [r \in Requests |->
                 IF ~Recovering(r)' THEN {}
                 ELSE Roomy(req[r])' \cap (IF Recovering(r) THEN spare[r] ELSE Keys)]

Spec == Init /\ [][Next]_vars

-----------------------------------------------------------------------------
(* Properties *)

Carry(v, k) == {r \in Requests : req[r].key = k /\ slots[req[r].table][k] = v}
Hold(v, p) == {r \in Requests : req[r].permit /\ req[r].table = v /\ Target(req[r]) = p}

\* Every slot and every permit is with one request or free: none leaks on a
\* retry, a refusal, a disconnect or a reload, and none is returned twice.
Conserved ==
  \A v \in 1 .. table :
    /\ \A p \in Providers : permits[v][p] + Cardinality(Hold(v, p)) = MaxConcurrency
    /\ \A k \in Keys : free[v][k] + Cardinality(Carry(v, k)) = ceiling[v][k]

\* As long as its ceiling stands, a key never carries more requests than it
\* allows, whatever tables they were routed by.
CeilingStands ==
  \A k \in Keys :
    (\A v \in 1 .. table : ceiling[v][k] = ceiling[1][k]) =>
      Cardinality({r \in Requests : req[r].key = k}) <= ceiling[1][k]

\* A pool is not reported empty while one of its keys has been up and had room
\* ever since the healthy keys were exhausted.
NotTurnedAway ==
  \A r \in Requests : pc[r] = "recover" /\ req[r].todo = {} => spare[r] = {}
=============================================================================
