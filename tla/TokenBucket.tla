----------------------------- MODULE TokenBucket -----------------------------
(***************************************************************************)
(* The token bucket of router-core (token_bucket.rs) behind the per-minute *)
(* ceilings of a key, one access of shared memory per action, and the      *)
(* rebuild of the table that holds it (VkRuntime::new in vkey.rs,          *)
(* carry_bucket in router.rs).                                             *)
(*                                                                         *)
(* Every rebuild makes a bucket of its own, numbered from 1; a request     *)
(* keeps the bucket of the table it was admitted under until it ends.      *)
(* Amounts are in the smallest unit the code counts (millitokens); time is *)
(* in milliseconds since the process started.                              *)
(*                                                                         *)
(* A definition named <name>_<fault> is <name> with a fault, kept to show  *)
(* that the properties detect it; no specification uses it.                *)
(***************************************************************************)
EXTENDS KeyTasks, Integers, FiniteSets

CONSTANTS
  Limits,         \* ceilings an operator may configure
  Rate,           \* units credited per millisecond
  Needs,          \* what a request asks for up front
  Debits,         \* what a request may turn out to have cost
  CarriesChanged, \* a bucket whose ceiling was edited is carried (router.rs) or made anew (vkey.rs)
  MaxRebuilds     \* bound on the rebuilds of the table

ASSUME BucketAssumption ==
  /\ Limits \subseteq Nat
  /\ Rate \in Nat
  /\ Needs \subseteq Nat
  /\ Debits \subseteq Nat
  /\ CarriesChanged \in BOOLEAN
  /\ MaxRebuilds \in Nat
  /\ MaxClock \in Nat

VARIABLES
  table,     \* the bucket of the table in force
  bucket,    \* [capacity, available, last] of every bucket
  limit,     \* the ceiling configured when each bucket was made
  draft,     \* the table being rebuilt: where the rebuild stands, and its bucket
  \* history
  spent,     \* what was granted or debited out of each bucket and its originals
  credited   \* the milliseconds whose credit has been added to the balance

bvars == <<table, bucket, limit, draft, clock, pc, local, spent, credited>>

Buckets == 1 .. MaxRebuilds + 1
Bucket == [capacity : Limits, available : Nat, last : Nat]
Accessing == {"cursor", "claim", "refill", "credit", "balance", "take"}

\* of: the bucket; kind and need: the call; now: its clock sample; seen: the
\* cursor it loaded; cur: the balance it loaded.
Call == [of : Buckets, kind : {"consume", "debit"}, need : Nat,
          now : Nat, seen : Nat, cur : Nat]

\* A balance stays between zero and the capacity of its bucket.
BucketTypeOK ==
  /\ table \in Buckets
  /\ bucket \in [Buckets -> Bucket]
  /\ \A b \in Buckets : bucket[b].available <= bucket[b].capacity
  /\ limit \in [Buckets -> Limits]
  /\ draft \in [step : {"none", "cursor", "publish"}, bucket : Bucket, limit : Limits,
                spent : Nat, credited : SUBSET Nat]
  /\ clock \in Nat
  /\ pc \in [Threads -> Accessing \cup {"idle", "flight"}]
  /\ local \in [Threads -> Call]
  /\ spent \in [Buckets -> Nat]
  /\ credited \in [Buckets -> SUBSET Nat]

\* TokenBucket::new: full, its cursor at zero.
new(l) == [capacity |-> l, available |-> l, last |-> 0]

NoDraft(l) == [step |-> "none", bucket |-> new(l), limit |-> l, spent |-> 0, credited |-> {}]

Unoccupied == [of |-> 1, kind |-> "consume", need |-> 0, now |-> 0, seen |-> 0, cur |-> 0]

BucketInit ==
  \E l \in Limits :
    /\ table = 1
    /\ bucket = [b \in Buckets |-> new(l)]
    /\ limit = [b \in Buckets |-> l]
    /\ draft = NoDraft(l)
    /\ clock = 0
    /\ pc = [t \in Threads |-> "idle"]
    /\ local = [t \in Threads |-> Unoccupied]
    /\ spent = [b \in Buckets |-> 0]
    /\ credited = [b \in Buckets |-> {}]

-----------------------------------------------------------------------------
Smaller(a, b) == IF a < b THEN a ELSE b

\* What the thread loaded is of no use to it past the label that follows.
GoOn(t, label, l) ==
  /\ pc' = [pc EXCEPT ![t] = label]
  /\ local' = [local EXCEPT ![t] =
                 CASE label = "idle"   -> Unoccupied
                   [] label = "flight" -> [Unoccupied EXCEPT !.of = l.of]
                   [] OTHER            -> l]

Mine(t) == bucket[local[t].of]

Pass ==
  /\ clock < MaxClock
  /\ clock' = clock + 1
  /\ UNCHANGED <<table, bucket, limit, draft, pc, local, spent, credited>>

\* A request asks the table in force for admission.
try_consume(t) ==
  \E need \in Needs :
    /\ pc[t] = "idle"
    /\ GoOn(t, "cursor", [Unoccupied EXCEPT !.of = table, !.need = need, !.now = clock])
    /\ UNCHANGED <<table, bucket, limit, draft, clock, spent, credited>>

\* It has been answered: its cost is taken out of the bucket it was admitted by.
debit_saturating(t) ==
  \E need \in Debits :
    /\ pc[t] = "flight"
    /\ GoOn(t, "cursor", [local[t] EXCEPT !.kind = "debit", !.need = need, !.now = clock])
    /\ UNCHANGED <<table, bucket, limit, draft, clock, spent, credited>>

\* It ends without a cost to settle.
Leave(t) ==
  /\ pc[t] = "flight"
  /\ GoOn(t, "idle", Unoccupied)
  /\ UNCHANGED <<table, bucket, limit, draft, clock, spent, credited>>

-----------------------------------------------------------------------------
(* refill *)

LoadCursor(t) ==
  /\ pc[t] = "cursor"
  /\ GoOn(t, IF local[t].now <= Mine(t).last THEN "balance" ELSE "claim",
          [local[t] EXCEPT !.seen = Mine(t).last])
  /\ UNCHANGED <<table, bucket, limit, draft, clock, spent, credited>>

ClaimInterval_Store(t) ==
  /\ pc[t] = "claim"
  /\ bucket' = [bucket EXCEPT ![local[t].of].last = local[t].now]
  /\ GoOn(t, "refill", local[t])
  /\ UNCHANGED <<table, limit, draft, clock, spent, credited>>

\* Whoever moves the cursor owns the credit of the interval; a thread that
\* loses goes on without.
ClaimInterval(t) ==
  /\ pc[t] = "claim"
  /\ IF Mine(t).last = local[t].seen
     THEN /\ bucket' = [bucket EXCEPT ![local[t].of].last = local[t].now]
          /\ GoOn(t, "refill", local[t])
     ELSE /\ UNCHANGED bucket
          /\ GoOn(t, "balance", local[t])
  /\ UNCHANGED <<table, limit, draft, clock, spent, credited>>

Interval(t) == local[t].seen + 1 .. local[t].now
Credit(t) == (local[t].now - local[t].seen) * Rate

\* One turn of the loop that adds the credit, on the balance just loaded.
JudgeCredit(t, balance) ==
  GoOn(t, IF Smaller(balance + Credit(t), Mine(t).capacity) = balance THEN "balance"
          ELSE "credit",
       [local[t] EXCEPT !.cur = balance])

Refill(t) ==
  /\ pc[t] = "refill"
  /\ JudgeCredit(t, Mine(t).available)
  /\ UNCHANGED <<table, bucket, limit, draft, clock, spent, credited>>

AddCredit_Uncapped(t) ==
  /\ pc[t] = "credit"
  /\ Mine(t).available = local[t].cur
  /\ bucket' = [bucket EXCEPT ![local[t].of].available = local[t].cur + Credit(t)]
  /\ credited' = [credited EXCEPT ![local[t].of] = @ \cup Interval(t)]
  /\ GoOn(t, "balance", local[t])
  /\ UNCHANGED <<table, limit, draft, clock, spent>>

\* compare_exchange_weak: it may fail for no reason.
AddCredit(t) ==
  /\ pc[t] = "credit"
  /\ \/ /\ Mine(t).available = local[t].cur
        /\ bucket' = [bucket EXCEPT ![local[t].of].available =
                        Smaller(local[t].cur + Credit(t), Mine(t).capacity)]
        /\ credited' = [credited EXCEPT ![local[t].of] = @ \cup Interval(t)]
        /\ GoOn(t, "balance", local[t])
     \/ /\ JudgeCredit(t, Mine(t).available)
        /\ UNCHANGED <<bucket, credited>>
  /\ UNCHANGED <<table, limit, draft, clock, spent>>

-----------------------------------------------------------------------------
(* The loops of try_consume and debit_saturating *)

\* What is taken out of a balance: all of the need or, by a debit, what there is.
Taken(t, balance) == Smaller(local[t].need, balance)

Refuses(t, balance) == local[t].kind = "consume" /\ balance < local[t].need

\* A debit of an empty bucket has nothing to exchange; a consumption of
\* nothing exchanges all the same.
NothingDue(t, balance) == local[t].kind = "debit" /\ Taken(t, balance) = 0

JudgeBalance(t, balance) ==
  GoOn(t, IF Refuses(t, balance) \/ NothingDue(t, balance) THEN "idle" ELSE "take",
       [local[t] EXCEPT !.cur = balance])

LoadBalance(t) ==
  /\ pc[t] = "balance"
  /\ JudgeBalance(t, Mine(t).available)
  /\ UNCHANGED <<table, bucket, limit, draft, clock, spent, credited>>

TakeOut(t, balance) ==
  /\ bucket' = [bucket EXCEPT ![local[t].of].available = balance - Taken(t, balance)]
  /\ spent' = [spent EXCEPT ![local[t].of] = @ + Taken(t, balance)]
  /\ GoOn(t, IF local[t].kind = "consume" THEN "flight" ELSE "idle", local[t])

Take_Store(t) ==
  /\ pc[t] = "take"
  /\ TakeOut(t, local[t].cur)
  /\ UNCHANGED <<table, limit, draft, clock, credited>>

Take(t) ==
  /\ pc[t] = "take"
  /\ \/ Mine(t).available = local[t].cur /\ TakeOut(t, local[t].cur)
     \/ JudgeBalance(t, Mine(t).available) /\ UNCHANGED <<bucket, spent>>
  /\ UNCHANGED <<table, limit, draft, clock, credited>>

-----------------------------------------------------------------------------
(* The rebuild of the table: clone_state reads the balance, then the cursor *)

\* The bucket is carried when its ceiling stands, and by carry_bucket even
\* when it does not: then it keeps the ceiling it was made with.
Rebuild(l) ==
  /\ draft.step = "none" /\ table <= MaxRebuilds
  /\ draft' = IF l = limit[table] \/ CarriesChanged
              THEN [step |-> "cursor", bucket |-> bucket[table], limit |-> l,
                    spent |-> spent[table], credited |-> credited[table]]
              ELSE [NoDraft(l) EXCEPT !.step = "publish"]
  /\ UNCHANGED <<table, bucket, limit, clock, pc, local, spent, credited>>

CopyCursor ==
  /\ draft.step = "cursor"
  /\ draft' = [draft EXCEPT !.step = "publish", !.bucket.last = bucket[table].last]
  /\ UNCHANGED <<table, bucket, limit, clock, pc, local, spent, credited>>

\* The new table is swapped in; requests in flight keep the old one.
Publish ==
  /\ draft.step = "publish"
  /\ table' = table + 1
  /\ bucket' = [bucket EXCEPT ![table'] = draft.bucket]
  /\ limit' = [limit EXCEPT ![table'] = draft.limit]
  /\ spent' = [spent EXCEPT ![table'] = draft.spent]
  /\ credited' = [credited EXCEPT ![table'] = draft.credited]
  /\ draft' = NoDraft(limit[1])
  /\ UNCHANGED <<clock, pc, local>>

-----------------------------------------------------------------------------
refill(t) == LoadCursor(t) \/ ClaimInterval(t) \/ Refill(t) \/ AddCredit(t)
settle(t) == LoadBalance(t) \/ Take(t)

BucketNext ==
  \/ Pass
  \/ \E t \in Threads : \/ try_consume(t) \/ debit_saturating(t) \/ Leave(t)
                        \/ refill(t) \/ settle(t)
  \/ (\E l \in Limits : Rebuild(l)) \/ CopyCursor \/ Publish

BucketSpec == BucketInit /\ [][BucketNext]_bvars

-----------------------------------------------------------------------------
(* Properties *)

\* Whatever races on it, and however often the table is rebuilt, what has been
\* taken out of a bucket never exceeds the ceiling configured plus the credit
\* of the time that has passed ("consumers can never jointly overdraw",
\* "an interval is credited once").
RateHeld == \A b \in 1 .. table : spent[b] <= limit[b] + Rate * clock

\* An interval is credited once: what a thread is about to add to a balance has
\* not been added to it by another, nor is another about to add it, and it lies
\* behind the cursor the next interval will start from.
Owed(t) == IF pc[t] \in {"refill", "credit"} THEN Interval(t) ELSE {}
CreditedOnce ==
  \A t \in Threads :
    LET b == local[t].of IN
      /\ Owed(t) \cap credited[b] = {}
      /\ Owed(t) \cup credited[b] \subseteq 1 .. bucket[b].last
      /\ \A u \in Threads \ {t} : local[u].of = b => Owed(u) \cap Owed(t) = {}

-----------------------------------------------------------------------------
(* The inductive invariant behind them *)

\* A bucket holds no more than it started with and was credited.
Balanced(k, out, instants) ==
  /\ instants \subseteq 1 .. k.last
  /\ k.last <= clock
  /\ k.available + out <= k.capacity + Rate * Cardinality(instants)

Conservation ==
  /\ \A b \in Buckets : Balanced(bucket[b], spent[b], credited[b])
  /\ draft.step = "publish" => Balanced(draft.bucket, draft.spent, draft.credited)
  /\ draft.step = "cursor" =>
       /\ draft.credited \subseteq 1 .. bucket[table].last
       /\ draft.bucket.available + draft.spent
            <= draft.bucket.capacity + Rate * Cardinality(draft.credited)

\* A clock sample is not ahead of the clock, nor a claimed cursor of its sample;
\* a thread uses a bucket that has been published.
InOrder ==
  \A t \in Threads :
    /\ local[t].now <= clock /\ local[t].of <= table
    /\ pc[t] \in {"claim", "refill", "credit"} => local[t].seen < local[t].now

\* A table under construction has its place, and its bucket is no fuller than full.
DraftInOrder ==
  draft.step # "none" =>
    table <= MaxRebuilds /\ draft.bucket.available <= draft.bucket.capacity

\* A bucket has the ceiling that was configured for it.
CeilingInForce ==
  ~CarriesChanged =>
    /\ \A b \in Buckets : bucket[b].capacity = limit[b]
    /\ draft.step # "none" => draft.bucket.capacity = draft.limit

BucketInv ==
  BucketTypeOK /\ Conservation /\ CreditedOnce /\ InOrder /\ DraftInOrder /\ CeilingInForce
=============================================================================
