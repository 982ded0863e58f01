----------------------------- MODULE VirtualKeys ------------------------------
(***************************************************************************)
(* A virtual key on one node of the gateway (router-core vkey.rs): who may *)
(* present it, the budget a request is admitted under, and the debit its   *)
(* answer makes to a word that every build of the key table shares.        *)
(*                                                                         *)
(* Time passes in days, the finest a budget can tell.  A rate limit is the *)
(* business of TokenBucket: here it refuses a request or does not.         *)
(*                                                                         *)
(* A definition named <name>_<fault> is <name> with a fault, kept to show  *)
(* that the properties detect it; no specification uses it.                *)
(***************************************************************************)
EXTENDS Integers, FiniteSets

CONSTANTS
  Requests,     \* tasks that carry requests
  Models,       \* names a request may ask for
  Scope,        \* the models of the key; empty for every model
  Costs,        \* what an answer may cost
  Limits,       \* the amounts a budget may be set to
  Periods,      \* the periods a budget may be set to, "none" for no budget
  SpendMask,    \* the largest spend the word can hold
  DaysPerMonth, \* days of a month
  MaxDay,       \* bound on the clock
  Edits,        \* what operators edit
  MaxEdits,     \* bound on the edits
  MaxCrashes,   \* bound on the crashes of the process
  Straddle      \* may midnight fall while a debit is being made?

ASSUME VirtualKeyAssumption ==
  /\ IsFiniteSet(Requests)
  /\ Costs \subseteq Nat /\ \E c \in Costs : \A d \in Costs : d <= c
  /\ Limits \subseteq Nat /\ \E c \in Limits : 0 < c /\ \A d \in Limits : d <= c
  /\ Periods # {}
  /\ Periods \subseteq {"none", "daily", "monthly"}
  /\ Scope \subseteq Models
  /\ SpendMask \in Nat /\ DaysPerMonth \in Nat \ {0}
  /\ MaxDay \in Nat /\ MaxEdits \in Nat /\ MaxCrashes \in Nat
  /\ Edits \subseteq {"rotate", "enable", "expire", "limit", "period", "delete"}
  /\ Straddle \in BOOLEAN

VARIABLES
  now,     \* the day
  doc,     \* the definition in the store, or NoKey
  table,   \* the definition the node enforces, or NoKey
  up,      \* the process runs
  word,    \* SpendState: the period and the spend, packed
  pc,
  req,     \* what a request carries
  pending, \* cost of the usage records not flushed yet, by day
  disk,    \* cost of the usage records that can be read from the partitions, by day
  edits, crashes,
  \* history
  lost,    \* cost of the records this process dropped, by day
  ledger,  \* what debits made one at a time would leave in the word
  billedBy \* the periods the key has been enforced by

vars == <<now, doc, table, up, word, pc, req, pending, disk, edits, crashes,
          lost, ledger, billedBy>>


Days == 0 .. MaxDay
NoKey == [secret |-> 0]

\* A definition: the latest secret, the one it replaced and until when that
\* one is honoured, and what bounds the key.
Definition ==
  [secret : Nat \ {0}, prev : Nat, until : Int, enabled : BOOLEAN,
   expires : Nat, period : Periods, limit : Limits]

\* Days and months are counted from one epoch, in the same word.
Word == [period : Nat, spent : 0 .. SpendMask]

Empty == [period |-> 0, spent |-> 0]

Idle == [def |-> NoKey, ord |-> 0, day |-> 0, cost |-> 0, seen |-> Empty]

-----------------------------------------------------------------------------
(* The word *)

\* period_ordinal: a key without a budget is billed by the month.  Months stand
\* above the days, as they do until 2036.
MonthBase == 2 * (MaxDay + 1)
Ordinal(period, day) ==
  IF period = "daily" THEN day + 1 ELSE MonthBase + day \div DaysPerMonth

Least(a, b) == IF a < b THEN a ELSE b

AddTo_Overflow(w, ord, cost) ==
  [period |-> ord, spent |-> IF w.period = ord THEN w.spent + cost ELSE cost]

\* add, when the compare-and-swap takes: a debit of another period, whichever
\* of the two is later, becomes the opening balance.
AddTo(w, ord, cost) ==
  [period |-> ord,
   spent  |-> Least(SpendMask, IF w.period = ord THEN w.spent + cost ELSE cost)]

\* current: the spend of another period reads as nothing.
Current(w, ord) == IF w.period = ord THEN w.spent ELSE 0

Exhausted_Late(def, day) ==
  /\ def.period # "none"
  /\ Current(word, Ordinal(def.period, day)) > def.limit

\* budget_exhausted
Exhausted(def, day) ==
  /\ def.period # "none"
  /\ Current(word, Ordinal(def.period, day)) >= def.limit

\* The units of cost that records hold for some days, each under its day.
Units(held, days) == UNION {{d} \X (1 .. held[d]) : d \in days}

\* The days of the period of a day.
SamePeriod(period, day) == {d \in Days : Ordinal(period, d) = Ordinal(period, day)}

\* What the records of a key say was spent in the period of a day.
Spent(held, def, day) == Cardinality(Units(held, SamePeriod(def.period, day)))

-----------------------------------------------------------------------------
Opening ==
  [secret : {1}, prev : {0}, until : {0}, enabled : {TRUE}, expires : {0},
   period : Periods, limit : Limits]

Init ==
  /\ now = 0
  /\ doc \in Opening
  /\ table = doc
  /\ up = TRUE
  /\ word = Empty
  /\ pc = [r \in Requests |-> "idle"]
  /\ req = [r \in Requests |-> Idle]
  /\ pending = [d \in Days |-> 0]
  /\ disk = [d \in Days |-> 0]
  /\ lost = [d \in Days |-> 0]
  /\ edits = 0
  /\ crashes = 0
  /\ ledger = Empty
  /\ billedBy = {doc.period}

records == <<pending, disk, lost>>
control == <<doc, table, up, edits, crashes, billedBy>>
PeriodOf(def) == IF def = NoKey THEN {} ELSE {def.period}

Goto(r, label, l) ==
  /\ pc' = [pc EXCEPT ![r] = label]
  /\ req' = [req EXCEPT ![r] = l]

-----------------------------------------------------------------------------
(* A request *)

\* verify_secret
Honours(def, secret, day) ==
  \/ secret = def.secret
  \/ secret = def.prev /\ day <= def.until

\* VkTable::verify: the key is known and the secret its own, it is enabled and
\* it has not expired.
Verifies(def, secret, day) ==
  /\ def # NoKey
  /\ Honours(def, secret, day)
  /\ def.enabled
  /\ def.expires # 0 => day < def.expires

\* gateway_auth: a request presents a secret that was issued; it holds the
\* VkRuntime it found until its answer has been billed.  The others are
\* refused, and leave nothing behind.
Arrive(r) ==
  /\ pc[r] = "idle" /\ up
  /\ \E secret \in 1 .. edits + 1 :
       /\ Verifies(table, secret, now)
       /\ Goto(r, "held", [Idle EXCEPT !.def = table])
  /\ UNCHANGED <<now, control, word, records, ledger>>

\* allows_model, of the name asked for and the first target of its plan
Allows(asked, target) == Scope = {} \/ asked \in Scope \/ target \in Scope

\* vk_gate, then admit: the scope, the rate, the budget.
Gate(r) ==
  /\ pc[r] = "held"
  /\ \/ \E asked \in Models, target \in Models :
          /\ Allows(asked, target)
          /\ ~Exhausted(req[r].def, now)
          /\ Goto(r, "open", req[r])
     \/ Goto(r, "idle", Idle)
  /\ UNCHANGED <<now, control, word, records, ledger>>

\* complete_with_body: the period is that of the end of the answer, under the
\* definition the request was admitted by; add loads the word.
Complete(r) ==
  /\ pc[r] = "open"
  /\ \E cost \in Costs :
       Goto(r, IF cost > 0 THEN "adding" ELSE "idle",
            IF cost > 0
            THEN [req[r] EXCEPT !.ord = Ordinal(req[r].def.period, now),
                                !.day = now, !.cost = cost, !.seen = word]
            ELSE Idle)
  /\ UNCHANGED <<now, control, word, records, ledger>>

\* UsagePipeline::record: try_send takes the record, or the channel is full and
\* the record dropped.
Record(day, cost) ==
  /\ \/ pending' = [pending EXCEPT ![day] = @ + cost] /\ UNCHANGED lost
     \/ lost' = [lost EXCEPT ![day] = @ + cost] /\ UNCHANGED pending
  /\ UNCHANGED disk

Add_Blind(r) ==
  /\ pc[r] = "adding"
  /\ word' = AddTo(req[r].seen, req[r].ord, req[r].cost)
  /\ ledger' = AddTo(ledger, req[r].ord, req[r].cost)
  /\ Record(req[r].day, req[r].cost)
  /\ Goto(r, "idle", Idle)
  /\ UNCHANGED <<now, control>>

\* compare_exchange takes; the record goes to the pipeline.  Nothing of the
\* node can come between the two and tell them apart.
Add(r) ==
  /\ pc[r] = "adding"
  /\ word = req[r].seen
  /\ word' = AddTo(req[r].seen, req[r].ord, req[r].cost)
  /\ ledger' = AddTo(ledger, req[r].ord, req[r].cost)
  /\ Record(req[r].day, req[r].cost)
  /\ Goto(r, "idle", Idle)
  /\ UNCHANGED <<now, control>>

\* It fails, and add goes round again with the word it found.
AddAgain(r) ==
  /\ pc[r] = "adding" /\ word # req[r].seen
  /\ Goto(r, "adding", [req[r] EXCEPT !.seen = word])
  /\ UNCHANGED <<now, control, word, records, ledger>>

-----------------------------------------------------------------------------
(* Operators, the store and the process *)

\* The clock of the host.  Unless Straddle, no debit spans midnight: the
\* instant between the reading of the clock and the swap is left out.
Tick ==
  /\ now < MaxDay
  /\ Straddle \/ \A r \in Requests : pc[r] # "adding"
  /\ now' = now + 1
  /\ UNCHANGED <<control, word, pc, req, records, ledger>>

Commit(kind, def) ==
  /\ kind \in Edits /\ doc # NoKey /\ edits < MaxEdits
  /\ doc' = def
  /\ edits' = edits + 1
  /\ UNCHANGED <<now, table, up, crashes, word, pc, req, records, ledger, billedBy>>

\* rotate_key: the secret in force is honoured for a day more.
Rotate ==
  Commit("rotate", [doc EXCEPT !.prev = doc.secret, !.until = now + 1, !.secret = edits + 2])

\* update_key, of one field
Enable == Commit("enable", [doc EXCEPT !.enabled = ~@])

Expire == Commit("expire", [doc EXCEPT !.expires = now + 1])

SetLimit == \E l \in Limits : Commit("limit", [doc EXCEPT !.limit = l])

SetPeriod == \E p \in Periods : Commit("period", [doc EXCEPT !.period = p])

\* delete_key
Delete == Commit("delete", NoKey)

\* refresh_vkeys, here or when the store's change is collected: VkRuntime::new
\* carries the spend over by id.  That of a key that is gone stays with the
\* requests that hold it, and nobody reads it.
Publish ==
  /\ up /\ table # doc
  /\ table' = doc
  /\ billedBy' = billedBy \cup PeriodOf(doc)
  /\ UNCHANGED <<now, doc, up, edits, crashes, word, pc, req, records, ledger>>

\* What is readable of a batch that write_batch left at some day: it writes day
\* by day, and an error leaves part of a file and none of the days after it.
Readable(last, part) ==
  [d \in Days |-> IF d < last THEN pending[d] ELSE IF d = last THEN part ELSE 0]

\* flusher: the batch is written, or as much of it as there was no error before;
\* the rest is dropped.
Flush ==
  /\ up /\ pending # [d \in Days |-> 0]
  /\ \E last \in Days : \E part \in 0 .. pending[last] :
       LET written == Readable(last, part)
       IN  /\ disk' = [d \in Days |-> disk[d] + written[d]]
           /\ lost' = [d \in Days |-> lost[d] + (pending[d] - written[d])]
  /\ pending' = [d \in Days |-> 0]
  /\ UNCHANGED <<now, control, word, pc, req, ledger>>

\* The process dies, with its requests and the records it held.
Crash ==
  /\ up /\ crashes < MaxCrashes
  /\ up' = FALSE
  /\ crashes' = crashes + 1
  /\ pc' = [r \in Requests |-> "idle"]
  /\ req' = [r \in Requests |-> Idle]
  /\ pending' = [d \in Days |-> 0]
  /\ lost' = [d \in Days |-> 0]
  /\ UNCHANGED <<now, doc, table, word, disk, edits, ledger, billedBy>>

Seeded_Unseeded(def) == Empty

\* AppState::new builds the table and seed_budgets reads back what the present
\* period of a key with a budget has cost.
Seeded(def) ==
  IF def # NoKey /\ def.period # "none" /\ Spent(disk, def, now) > 0
  THEN AddTo(Empty, Ordinal(def.period, now), Spent(disk, def, now))
  ELSE Empty

Boot ==
  /\ ~up
  /\ up' = TRUE
  /\ table' = doc
  /\ billedBy' = billedBy \cup PeriodOf(doc)
  /\ word' = Seeded(doc)
  /\ ledger' = Seeded(doc)
  /\ UNCHANGED <<now, doc, edits, crashes, pc, req, records>>

Next ==
  \/ \E r \in Requests : Arrive(r) \/ Gate(r) \/ Complete(r) \/ Add(r) \/ AddAgain(r)
  \/ Tick
  \/ Rotate \/ Enable \/ Expire \/ SetLimit \/ SetPeriod \/ Delete
  \/ Publish \/ Flush \/ Crash \/ Boot

Spec == Init /\ [][Next]_vars

-----------------------------------------------------------------------------
(* Properties *)

\* The type of the variables of a key.
TypeOK ==
  /\ now \in Days
  /\ doc \in Definition \cup {NoKey} /\ table \in Definition \cup {NoKey}
  /\ up \in BOOLEAN
  /\ word \in Word /\ ledger \in Word
  /\ pc \in [Requests -> {"idle", "held", "open", "adding"}]
  /\ req \in [Requests -> [def : Definition \cup {NoKey}, ord : Nat, day : Days,
                           cost : Nat, seen : Word]]
  /\ pending \in [Days -> Nat] /\ disk \in [Days -> Nat] /\ lost \in [Days -> Nat]
  /\ edits \in 0 .. MaxEdits /\ crashes \in 0 .. MaxCrashes
  /\ billedBy \subseteq Periods

\* Debits that overlap, and a turn of the period among them, leave in the word
\* (SpendState::add) exactly what they would have left one after the other.
DebitsSerial == word = ledger

\* What the gate reads for the present period is what some amounts add up to.
Reads(amount) ==
  up /\ table # NoKey /\ table.period # "none" =>
    Current(word, Ordinal(table.period, now)) = Least(SpendMask, amount)

\* While a budget keeps its period, the gate reads what the records on disk, those
\* on their way to it and those this process dropped add up to: a rebuild of the
\* table forgets no spend, a restart what is not on disk and no more, and nothing
\* is counted twice (VkRuntime::new, seed_budgets, complete_with_body, record).
SpendKept ==
  Cardinality(billedBy) = 1 =>
    Reads(Spent(disk, table, now) + Spent(pending, table, now) + Spent(lost, table, now))

\* The lag of a budget is bounded by the flush interval (usage.rs:8): what the gate
\* reads is on disk, where the next process will read it, or waits for a flush.
LagBounded ==
  Cardinality(billedBy) = 1 =>
    Reads(Spent(disk, table, now) + Spent(pending, table, now))

\* A budget is overrun by no more than the requests in flight when it ran out
\* (admit is asked before the answer, debit_usage after it).
Largest(S) == CHOOSE x \in S : \A y \in S : y <= x
OverrunBounded ==
  Cardinality(billedBy) = 1 /\ "none" \notin billedBy =>
    word.spent < Largest(Limits) + Cardinality(Requests) * Largest(Costs)
=============================================================================
