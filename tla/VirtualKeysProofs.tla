--------------------------- MODULE VirtualKeysProofs ---------------------------
(***************************************************************************)
(* Theorems about a virtual key, for any number of requests and any costs, *)
(* limits, periods and edits.                                              *)
(***************************************************************************)
EXTENDS VirtualKeys, FiniteSetTheorems, FunctionTheorems, TLAPS

-----------------------------------------------------------------------------
(* Debits are serial *)

\* SpendState::add: a compare-and-swap that takes found the word the debit was
\* computed from, so what it leaves is that debit made after those before it.
THEOREM Serial == Spec => []DebitsSerial
<1>1. Init => DebitsSerial
  BY DEF Init, DebitsSerial
<1>2. DebitsSerial /\ [Next]_vars => DebitsSerial'
  <2> SUFFICES ASSUME DebitsSerial, [Next]_vars
               PROVE  DebitsSerial'
    OBVIOUS
  <2>1. ASSUME NEW r \in Requests, Arrive(r) \/ Gate(r) \/ Complete(r) \/ AddAgain(r)
        PROVE  DebitsSerial'
    BY <2>1 DEF DebitsSerial, Arrive, Gate, Complete, AddAgain
  <2>2. ASSUME NEW r \in Requests, Add(r)
        PROVE  DebitsSerial'
    BY <2>2 DEF DebitsSerial, Add
  <2>3. CASE Tick \/ Publish \/ Flush \/ Crash
    BY <2>3 DEF DebitsSerial, Tick, Publish, Flush, Crash
  <2>4. CASE Rotate \/ Enable \/ Expire \/ SetLimit \/ SetPeriod \/ Delete
    BY <2>4 DEF DebitsSerial, Rotate, Enable, Expire, SetLimit, SetPeriod, Delete, Commit
  <2>5. CASE Boot
    BY <2>5 DEF DebitsSerial, Boot
  <2>6. CASE UNCHANGED vars
    BY <2>6 DEF DebitsSerial, vars
  <2>7. QED
    BY <2>1, <2>2, <2>3, <2>4, <2>5, <2>6 DEF Next
<1>3. QED
  BY <1>1, <1>2, PTL DEF Spec

-----------------------------------------------------------------------------
(* Budgets are overrun by no more than what was in flight *)

C == Largest(Costs)
Room == Largest(Limits) + Cardinality(Requests) * C

Labels == {"idle", "held", "open", "adding"}
Due == {"open", "adding"}

\* The requests whose cost is still to come.
Flying(f) == {r \in Requests : f[r] \in Due}
InFlight == Flying(pc)

Carried == [def : Definition \cup {NoKey}, ord : Nat, day : Days, cost : Nat, seen : Word]
Typed ==
  /\ now \in Days
  /\ up = TRUE /\ crashes = 0 /\ edits \in Nat
  /\ word \in Word
  /\ pc \in [Requests -> Labels]
  /\ req \in [Requests -> Carried]
  /\ {doc, table} \subseteq Definition \cup {NoKey}
  /\ billedBy # {} /\ billedBy \subseteq Periods

\* Whoever is let in, or billed, is so by a definition that was enforced.
Enforced(def) == def.period \in billedBy /\ def.limit \in Limits
ByTheTable ==
  /\ table # NoKey => Enforced(table)
  /\ \A r \in Requests : pc[r] # "idle" => Enforced(req[r].def)

\* While a budget keeps its period, what it has cost and what may still come
\* stay under the bound; the word is not of a period to come.
Bounded(p) ==
  LET ord == Ordinal(p, now)
  IN  /\ word.period <= ord
      /\ \A r \in Requests : pc[r] = "adding" => req[r].ord = ord /\ req[r].cost \in Costs
      /\ word.spent < Room
      /\ Current(word, ord) + Cardinality(InFlight) * C < Room

OInv ==
  /\ Typed
  /\ ByTheTable
  /\ \A p \in Periods \ {"none"} : billedBy = {p} => Bounded(p)

\* The greatest cost and the greatest limit.
LEMMA Maxima ==
  /\ C \in Nat /\ \A c \in Costs : c <= C
  /\ Largest(Limits) \in Nat \ {0} /\ \A l \in Limits : l <= Largest(Limits)
<1>1. \A S : (\E x \in S : \A y \in S : y <= x) =>
               Largest(S) \in S /\ \A y \in S : y <= Largest(S)
  BY DEF Largest
<1>2. (\E x \in Costs : \A y \in Costs : y <= x) /\ (\E x \in Limits : \A y \in Limits : y <= x)
  BY VirtualKeyAssumption DEF VirtualKeyAssumption
<1>3. C \in Costs /\ (\A c \in Costs : c <= C)
  BY <1>1, <1>2 DEF C
<1>4. Largest(Limits) \in Limits /\ \A l \in Limits : l <= Largest(Limits)
  BY <1>1, <1>2
<1>5. PICK c \in Limits : 0 < c
  BY VirtualKeyAssumption DEF VirtualKeyAssumption
<1>6. C \in Nat /\ Largest(Limits) \in Nat /\ c \in Nat /\ c <= Largest(Limits)
  BY <1>3, <1>4, VirtualKeyAssumption DEF VirtualKeyAssumption
<1>7. QED
  BY <1>3, <1>4, <1>5, <1>6

\* Products of counts and the greatest cost.
LEMMA Products ==
  /\ \A a, b \in Nat : a * C \in Nat /\ (a <= b => a * C <= b * C)
  /\ \A a \in Nat \ {0} : (a - 1) * C + C = a * C
<1>1. \A c, a, b \in Nat : a * c \in Nat /\ (a <= b => a * c <= b * c)
  OBVIOUS
<1>2. \A c \in Nat, a \in Nat \ {0} : (a - 1) * c + c = a * c
  OBVIOUS
<1>3. QED
  BY <1>1, <1>2, Maxima

\* period_ordinal: a later day is not of an earlier period.
LEMMA Ordinals ==
  ASSUME NEW p, NEW d \in Nat
  PROVE  /\ Ordinal(p, d) \in Nat
         /\ Ordinal(p, d + 1) \in Nat
         /\ Ordinal(p, d) <= Ordinal(p, d + 1)
<1>1. DaysPerMonth \in Nat \ {0} /\ MaxDay \in Nat
  BY VirtualKeyAssumption DEF VirtualKeyAssumption
<1>2. \A n \in Nat \ {0}, a \in Nat : a \div n \in Nat /\ (a \div n) <= ((a + 1) \div n)
  OBVIOUS
<1>3. d \div DaysPerMonth \in Nat /\ (d + 1) \div DaysPerMonth \in Nat
      /\ (d \div DaysPerMonth) <= ((d + 1) \div DaysPerMonth)
  BY <1>1, <1>2
<1>4. QED
  BY <1>1, <1>3 DEF Ordinal, MonthBase

\* However many requests are under way, they are some of Requests.
LEMMA Flights ==
  ASSUME NEW f
  PROVE  /\ IsFiniteSet(Flying(f))
         /\ Cardinality(Flying(f)) \in Nat /\ Cardinality(Requests) \in Nat
         /\ Cardinality(Flying(f)) <= Cardinality(Requests)
<1>1. IsFiniteSet(Requests) /\ Flying(f) \in SUBSET Requests
  BY VirtualKeyAssumption DEF VirtualKeyAssumption, Flying
<1>2. IsFiniteSet(Flying(f)) /\ Cardinality(Flying(f)) <= Cardinality(Requests)
  BY <1>1, FS_Subset
<1>3. QED
  BY <1>1, <1>2, FS_CardinalityType

\* A request that is billed, or is not, is in flight no more.
LEMMA Landing ==
  ASSUME NEW f \in [Requests -> Labels], NEW r \in Requests, f[r] \in Due
  PROVE  /\ Cardinality(Flying(f)) \in Nat \ {0}
         /\ Cardinality(Flying([f EXCEPT ![r] = "idle"])) = Cardinality(Flying(f)) - 1
<1>1. Flying([f EXCEPT ![r] = "idle"]) = Flying(f) \ {r} /\ r \in Flying(f)
  BY DEF Flying, Labels, Due
<1>2. IsFiniteSet(Flying(f)) /\ Cardinality(Flying(f)) \in Nat
  BY Flights
<1>3. Cardinality(Flying(f) \ {r}) = Cardinality(Flying(f)) - 1
  BY <1>1, <1>2, FS_RemoveElement
<1>4. Cardinality(Flying(f)) # 0
  BY <1>1, <1>2, FS_EmptySet
<1>5. QED
  BY <1>1, <1>2, <1>3, <1>4

\* A request that is in flight before and after its step, or neither, is counted as before.
LEMMA Staying ==
  ASSUME NEW f \in [Requests -> Labels], NEW r \in Requests, NEW l,
         l \in Due <=> f[r] \in Due
  PROVE  Flying([f EXCEPT ![r] = l]) = Flying(f)
BY DEF Flying, Labels, Due

-----------------------------------------------------------------------------
(* A step of the key *)

\* rotate_key and the fields of update_key: what becomes of a definition is one.
LEMMA Redefined ==
  ASSUME NEW def \in Definition
  PROVE  /\ def # NoKey
         /\ \A s \in Nat, u \in Int, e \in Nat \ {0} :
              [def EXCEPT !.prev = s, !.until = u, !.secret = e] \in Definition
         /\ [def EXCEPT !.enabled = ~@] \in Definition
         /\ \A n \in Nat : [def EXCEPT !.expires = n] \in Definition
         /\ \A l \in Limits : [def EXCEPT !.limit = l] \in Definition
         /\ \A p \in Periods : [def EXCEPT !.period = p] \in Definition
<1>1. DOMAIN def # DOMAIN NoKey
  <2>1. "limit" \in DOMAIN def /\ "limit" \notin DOMAIN NoKey
    BY DEF Definition, NoKey
  <2>2. QED
    BY <2>1
<1>2. def # NoKey
  BY <1>1
<1>3. ASSUME NEW s \in Nat, NEW u \in Int, NEW e \in Nat \ {0}
      PROVE  [def EXCEPT !.prev = s, !.until = u, !.secret = e] \in Definition
  BY DEF Definition
<1>4. [def EXCEPT !.enabled = ~@] \in Definition
  BY DEF Definition
<1>5. ASSUME NEW n \in Nat
      PROVE  [def EXCEPT !.expires = n] \in Definition
  BY DEF Definition
<1>6. ASSUME NEW l \in Limits
      PROVE  [def EXCEPT !.limit = l] \in Definition
  BY DEF Definition
<1>7. ASSUME NEW p \in Periods
      PROVE  [def EXCEPT !.period = p] \in Definition
  BY DEF Definition
<1>8. QED
  BY <1>2, <1>3, <1>4, <1>5, <1>6, <1>7, Zenon

\* The definitions a key may begin with.
LEMMA Opens ==
  ASSUME NEW def \in Opening
  PROVE  def \in Definition
<1>1. def = [secret |-> def.secret, prev |-> def.prev, until |-> def.until,
             enabled |-> def.enabled, expires |-> def.expires,
             period |-> def.period, limit |-> def.limit]
  BY DEF Opening
<1>2. def.secret = 1 /\ def.prev = 0 /\ def.until = 0 /\ def.expires = 0
      /\ def.period \in Periods /\ def.limit \in Limits
  BY DEF Opening
<1>3. def.enabled \in {TRUE}
  BY DEF Opening
<1>4. def.enabled \in BOOLEAN
  BY <1>3, Zenon
<1>5. QED
  BY <1>1, <1>2, <1>4 DEF Definition

\* Before the first request nothing is owed.
LEMMA OInit == Init => OInv
<1> SUFFICES ASSUME Init
             PROVE  OInv
  OBVIOUS
<1>1. doc \in Definition /\ table = doc /\ doc.period \in Periods /\ doc.limit \in Limits
  BY Opens DEF Init, Definition
<1>2. now \in Days /\ Empty \in Word /\ Idle \in Carried
  BY VirtualKeyAssumption DEF VirtualKeyAssumption, Init, Days, Empty, Word, Idle, Carried
<1>3. Typed
  BY <1>1, <1>2 DEF Init, Typed, Labels
<1>4. ByTheTable
  BY <1>1 DEF Init, ByTheTable, Enforced
<1>5. Flying(pc) = {}
  BY DEF Init, Flying, Due
<1>6. Cardinality(InFlight) * C = 0 /\ Cardinality(Requests) * C \in Nat
  BY <1>5, FS_EmptySet, Flights, Maxima, Products DEF InFlight
<1>7. Room \in Nat \ {0}
  BY <1>6, Maxima DEF Room
<1>8. ASSUME NEW p PROVE Bounded(p)
  <2>1. Ordinal(p, now) \in Nat
    BY Ordinals DEF Init
  <2>2. word.period = 0 /\ word.spent = 0 /\ Current(word, Ordinal(p, now)) = 0
    BY DEF Init, Empty, Current
  <2>3. \A r \in Requests : pc[r] # "adding"
    BY DEF Init
  <2>4. QED
    BY <1>6, <1>7, <2>1, <2>2, <2>3 DEF Bounded
<1>9. QED
  BY <1>3, <1>4, <1>8 DEF OInv

\* What an operator commits is a definition, or the key is gone.
LEMMA Redefinition ==
  ASSUME doc \in Definition \cup {NoKey}, now \in Nat, edits \in Nat,
         Rotate \/ Enable \/ Expire \/ SetLimit \/ SetPeriod \/ Delete
  PROVE  doc' \in Definition \cup {NoKey} /\ edits' \in Nat
<1>1. (doc # NoKey => doc \in Definition) /\ now \in Nat /\ edits \in Nat
  OBVIOUS
<1>2. edits' = edits + 1 /\ doc # NoKey
  BY DEF Rotate, Enable, Expire, SetLimit, SetPeriod, Delete, Commit
<1>3. ASSUME NEW def, doc' = def, def \in Definition
      PROVE  doc' \in Definition \cup {NoKey} /\ edits' \in Nat
  BY <1>1, <1>2, <1>3
<1>4. CASE Rotate
  <2> DEFINE new == [doc EXCEPT !.prev = doc.secret, !.until = now + 1, !.secret = edits + 2]
  <2>1. doc' = new
    BY <1>4, Zenon DEF Rotate, Commit
  <2>2. doc.secret \in Nat /\ now + 1 \in Int /\ edits + 2 \in Nat \ {0}
    BY <1>1, <1>2 DEF Definition
  <2>3. new \in Definition
    BY <1>1, <1>2, <2>2, Redefined, Zenon
  <2> HIDE DEF new
  <2>4. QED
    BY <1>3, <2>1, <2>3
<1>5. CASE Enable
  <2> DEFINE new == [doc EXCEPT !.enabled = ~@]
  <2>1. doc' = new
    BY <1>5, Zenon DEF Enable, Commit
  <2>2. new \in Definition
    BY <1>1, <1>2, Redefined, Zenon
  <2> HIDE DEF new
  <2>3. QED
    BY <1>3, <2>1, <2>2
<1>6. CASE Expire
  <2> DEFINE new == [doc EXCEPT !.expires = now + 1]
  <2>1. doc' = new
    BY <1>6, Zenon DEF Expire, Commit
  <2>2. now + 1 \in Nat
    BY <1>1
  <2>3. new \in Definition
    BY <1>1, <1>2, <2>2, Redefined, Zenon
  <2> HIDE DEF new
  <2>4. QED
    BY <1>3, <2>1, <2>3
<1>7. CASE SetLimit \/ SetPeriod
  <2>1. PICK def : doc' = def /\ def \in Definition
    BY <1>1, <1>2, <1>7, Redefined, Zenon DEF SetLimit, SetPeriod, Commit
  <2>2. QED
    BY <1>3, <2>1
<1>8. CASE Delete
  BY <1>1, <1>2, <1>8 DEF Delete, Commit
<1>9. QED
  BY <1>4, <1>5, <1>6, <1>7, <1>8

\* Steps that leave the word, the clock and the requests alone.
LEMMA OperatorStep ==
  ASSUME OInv, Publish \/ Flush \/ Rotate \/ Enable \/ Expire \/ SetLimit \/ SetPeriod \/ Delete
  PROVE  OInv'
<1> USE DEF OInv
<1>1. UNCHANGED <<now, word, pc, req, up, crashes>>
  BY DEF Publish, Flush, Rotate, Enable, Expire, SetLimit, SetPeriod, Delete, Commit, control
<1>2. doc' \in Definition \cup {NoKey} /\ edits' \in Nat
  <2>1. CASE Publish \/ Flush
    BY <2>1 DEF Publish, Flush, control, Typed
  <2>2. CASE Rotate \/ Enable \/ Expire \/ SetLimit \/ SetPeriod \/ Delete
    BY <2>2, Redefinition DEF Typed, Days
  <2>3. QED
    BY <2>1, <2>2
<1>3. ASSUME Publish
      PROVE  table' = doc /\ billedBy' = billedBy \cup PeriodOf(doc)
  BY <1>3 DEF Publish
<1>4. ASSUME ~Publish
      PROVE  UNCHANGED <<table, billedBy>>
  BY <1>4 DEF Flush, Rotate, Enable, Expire, SetLimit, SetPeriod, Delete, Commit, control
<1>5. doc # NoKey => doc.period \in Periods /\ doc.limit \in Limits
  BY DEF Typed, Definition
<1>6. billedBy \subseteq billedBy' /\ billedBy' \subseteq Periods /\ billedBy' # {}
  BY <1>3, <1>4, <1>5 DEF PeriodOf, Typed
<1>7. Typed'
  BY <1>1, <1>2, <1>3, <1>4, <1>6 DEF Typed
<1>8. ByTheTable'
  BY <1>1, <1>3, <1>4, <1>5, <1>6 DEF ByTheTable, Enforced, PeriodOf
<1>9. ASSUME NEW p \in Periods \ {"none"}, billedBy' = {p}
      PROVE  Bounded(p)'
  <2>1. billedBy = {p}
    BY <1>6, <1>9 DEF Typed
  <2>2. QED
    BY <1>1, <2>1 DEF Bounded, InFlight, Current, Ordinal
<1>10. QED
  BY <1>7, <1>8, <1>9

\* The word and the costs to come are numbers, and the latter at most those of
\* every request.
LEMMA Quantities ==
  ASSUME Typed, NEW p
  PROVE  /\ Ordinal(p, now) \in Nat /\ word.period \in Nat /\ word.spent \in Nat
         /\ Current(word, Ordinal(p, now)) \in Nat
         /\ Cardinality(InFlight) \in Nat /\ Cardinality(InFlight) * C \in Nat
         /\ Room \in Nat
         /\ \A f : Largest(Limits) + Cardinality(Flying(f)) * C <= Room
<1>1. Ordinal(p, now) \in Nat
  BY Ordinals DEF Typed, Days
<1>2. word.period \in Nat /\ word.spent \in Nat
  BY VirtualKeyAssumption DEF Typed, Word, VirtualKeyAssumption
<1>3. Current(word, Ordinal(p, now)) \in Nat
  BY <1>2 DEF Current
<1>4. \A f : Cardinality(Flying(f)) \in Nat /\ Cardinality(Flying(f)) * C \in Nat
             /\ Cardinality(Flying(f)) * C <= Cardinality(Requests) * C
             /\ Cardinality(Requests) * C \in Nat
  BY Flights, Products
<1>5. QED
  BY <1>1, <1>2, <1>3, <1>4, Maxima DEF InFlight, Room

\* Midnight, when no debit is being made.
LEMMA TickStep ==
  ASSUME OInv, ~Straddle, Tick
  PROVE  OInv'
<1> USE DEF OInv
<1>1. now' = now + 1 /\ now' \in Days /\ now \in Nat
      /\ UNCHANGED <<doc, table, up, edits, crashes, billedBy, word, pc, req>>
      /\ \A r \in Requests : pc[r] # "adding"
  BY VirtualKeyAssumption DEF Tick, control, Typed, Days, VirtualKeyAssumption
<1>2. Typed' /\ ByTheTable'
  BY <1>1 DEF Typed, ByTheTable, Enforced
<1>3. ASSUME NEW p \in Periods \ {"none"}, billedBy' = {p}
      PROVE  Bounded(p)'
  <2>1. Bounded(p)
    BY <1>1, <1>3
  <2> DEFINE new == Ordinal(p, now + 1)
  <2>2. Ordinal(p, now) <= new /\ new \in Nat
    BY <1>1, Ordinals
  <2>3. word.period <= new /\ (word.period = new => new = Ordinal(p, now))
    BY <2>1, <2>2, Quantities DEF Bounded
  <2>4. Cardinality(InFlight) * C < Room
    BY Quantities, Maxima DEF InFlight
  <2>5. Current(word, new) = Current(word, Ordinal(p, now)) \/ Current(word, new) = 0
    BY <2>3 DEF Current
  <2>6. Current(word, new) + Cardinality(InFlight) * C < Room
    BY <2>1, <2>4, <2>5, Quantities DEF Bounded
  <2>7. QED
    BY <1>1, <2>1, <2>3, <2>6 DEF Bounded, InFlight, Current, Ordinal
<1>4. QED
  BY <1>2, <1>3

\* A step of a request that leaves the word alone.
LEMMA Stepped ==
  ASSUME OInv, NEW r \in Requests, NEW l \in Labels, NEW c \in Carried, Goto(r, l, c),
         UNCHANGED <<now, control, word>>,
         l # "idle" => Enforced(c.def),
         \A p \in Periods \ {"none"} : billedBy = {p} =>
           /\ l = "adding" => c.ord = Ordinal(p, now) /\ c.cost \in Costs
           /\ Current(word, Ordinal(p, now)) + Cardinality(InFlight') * C < Room
  PROVE  OInv'
<1> USE DEF OInv
<1>1. pc' = [pc EXCEPT ![r] = l] /\ req' = [req EXCEPT ![r] = c]
      /\ UNCHANGED <<now, word, doc, table, up, edits, crashes, billedBy>>
  BY DEF Goto, control
<1>2. pc' \in [Requests -> Labels] /\ req' \in [Requests -> Carried]
  BY <1>1 DEF Typed
<1>3. Typed'
  BY <1>1, <1>2 DEF Typed
<1>4. ByTheTable'
  BY <1>1 DEF Typed, ByTheTable, Enforced
<1>5. ASSUME NEW p \in Periods \ {"none"}, billedBy' = {p}
      PROVE  Bounded(p)'
  <2>1. Bounded(p) /\ billedBy = {p}
    BY <1>1, <1>5
  <2>2. \A q \in Requests :
          pc'[q] = "adding" => req'[q].ord = Ordinal(p, now) /\ req'[q].cost \in Costs
    BY <1>1, <2>1 DEF Typed, Bounded
  <2>3. QED
    BY <1>1, <2>1, <2>2 DEF Bounded, Current, Ordinal
<1>6. QED
  BY <1>3, <1>4, <1>5

\* gateway_auth: the definition a request takes along is one that is enforced.
LEMMA ArriveStep ==
  ASSUME OInv, NEW r \in Requests, Arrive(r)
  PROVE  OInv'
<1> USE DEF OInv
<1> DEFINE c == [Idle EXCEPT !.def = table]
<1>1. pc[r] = "idle" /\ Goto(r, "held", c) /\ table # NoKey /\ UNCHANGED <<now, control, word>>
  BY DEF Arrive, Verifies
<1>2. c \in Carried /\ c.def = table
  BY VirtualKeyAssumption DEF VirtualKeyAssumption, Idle, Carried, Typed, Days, Empty, Word
<1>3. Enforced(table)
  BY <1>1 DEF ByTheTable
<1>4. InFlight' = InFlight
  BY <1>1, Staying DEF InFlight, Flying, Goto, Due, Typed
<1>5. \A p \in Periods \ {"none"} : billedBy = {p} =>
        Current(word, Ordinal(p, now)) + Cardinality(InFlight') * C < Room
  BY <1>4 DEF Bounded
<1> HIDE DEF c
<1>6. QED
  BY <1>1, <1>2, <1>3, <1>5, Stepped DEF Labels

\* vk_gate: what is let in found the budget not exhausted.
LEMMA GateStep ==
  ASSUME OInv, NEW r \in Requests, Gate(r)
  PROVE  OInv'
<1> USE DEF OInv
<1>1. pc[r] = "held" /\ UNCHANGED <<now, control, word>> /\ Enforced(req[r].def)
      /\ req[r] \in Carried /\ Idle \in Carried
  BY VirtualKeyAssumption
     DEF Gate, ByTheTable, Typed, VirtualKeyAssumption, Idle, Carried, Days, Empty, Word
<1>2. CASE Goto(r, "idle", Idle)
  <2>1. InFlight' = InFlight
    BY <1>1, <1>2 DEF InFlight, Flying, Goto, Due, Typed
  <2>2. \A p \in Periods \ {"none"} : billedBy = {p} =>
          Current(word, Ordinal(p, now)) + Cardinality(InFlight') * C < Room
    BY <2>1 DEF Bounded
  <2>3. QED
    BY <1>1, <1>2, <2>2, Stepped DEF Labels
<1>3. CASE ~Exhausted(req[r].def, now) /\ Goto(r, "open", req[r])
  <2>1. ASSUME NEW p \in Periods \ {"none"}, billedBy = {p}
        PROVE  Current(word, Ordinal(p, now)) + Cardinality(InFlight') * C < Room
    <3>1. req[r].def.period = p /\ req[r].def.limit \in Limits
      BY <1>1, <2>1 DEF Enforced
    <3>2. ~(Current(word, Ordinal(p, now)) >= req[r].def.limit)
      BY <1>3, <2>1, <3>1 DEF Exhausted
    <3>3. req[r].def.limit \in Nat /\ req[r].def.limit <= Largest(Limits)
      BY <3>1, Maxima, VirtualKeyAssumption DEF VirtualKeyAssumption
    <3>4. Current(word, Ordinal(p, now)) < Largest(Limits)
      BY <3>2, <3>3, Quantities, Maxima
    <3>5. Largest(Limits) + Cardinality(InFlight') * C <= Room
      BY Quantities DEF InFlight
    <3>6. Cardinality(InFlight') * C \in Nat
      BY Flights, Products DEF InFlight
    <3>7. QED
      BY <3>4, <3>5, <3>6, Quantities, Maxima
  <2>2. QED
    BY <1>1, <1>3, <2>1, Stepped DEF Labels
<1>4. QED
  BY <1>2, <1>3 DEF Gate

\* A request that lands makes room for what it may have cost.
LEMMA Landed ==
  ASSUME Typed, NEW r \in Requests, pc[r] \in Due, pc' = [pc EXCEPT ![r] = "idle"]
  PROVE  /\ Cardinality(InFlight') * C \in Nat
         /\ Cardinality(InFlight') * C + C = Cardinality(InFlight) * C
<1>1. pc \in [Requests -> Labels]
  BY DEF Typed
<1>2. Cardinality(InFlight) \in Nat \ {0}
      /\ Cardinality(InFlight') = Cardinality(InFlight) - 1
  BY <1>1, Landing DEF InFlight
<1>3. QED
  BY <1>2, Products

\* complete_with_body, before the debit.
LEMMA CompleteStep ==
  ASSUME OInv, NEW r \in Requests, Complete(r)
  PROVE  OInv'
<1> USE DEF OInv
<1>1. PICK cost \in Costs :
        Goto(r, IF cost > 0 THEN "adding" ELSE "idle",
             IF cost > 0
             THEN [req[r] EXCEPT !.ord = Ordinal(req[r].def.period, now),
                                 !.day = now, !.cost = cost, !.seen = word]
             ELSE Idle)
  BY DEF Complete
<1>2. pc[r] = "open" /\ UNCHANGED <<now, control, word>> /\ Enforced(req[r].def)
      /\ req[r] \in Carried /\ Idle \in Carried
  BY VirtualKeyAssumption
     DEF Complete, ByTheTable, Typed, VirtualKeyAssumption, Idle, Carried, Days, Empty, Word
<1> DEFINE c == [req[r] EXCEPT !.ord = Ordinal(req[r].def.period, now),
                               !.day = now, !.cost = cost, !.seen = word]
<1>3. CASE cost > 0
  <2>1. Goto(r, "adding", c)
    BY <1>1, <1>3
  <2>2. cost \in Nat /\ now \in Days /\ word \in Word /\ Ordinal(req[r].def.period, now) \in Nat
    BY Quantities, VirtualKeyAssumption DEF VirtualKeyAssumption, Typed
  <2>3. c \in Carried /\ c.def = req[r].def /\ c.cost = cost
        /\ c.ord = Ordinal(req[r].def.period, now)
    BY <1>2, <2>2 DEF Carried
  <2> HIDE DEF c
  <2>4. InFlight' = InFlight
    BY <1>2, <2>1 DEF InFlight, Flying, Goto, Due, Typed
  <2>5. \A p \in Periods \ {"none"} : billedBy = {p} =>
          /\ c.ord = Ordinal(p, now) /\ c.cost \in Costs
          /\ Current(word, Ordinal(p, now)) + Cardinality(InFlight') * C < Room
    BY <1>2, <2>3, <2>4 DEF Bounded, Enforced
  <2>6. QED
    BY <1>2, <2>1, <2>3, <2>5, Stepped DEF Labels
<1>4. CASE ~(cost > 0)
  <2>1. Goto(r, "idle", Idle) /\ pc' = [pc EXCEPT ![r] = "idle"]
    BY <1>1, <1>4 DEF Goto
  <2>2. Cardinality(InFlight') * C \in Nat
        /\ Cardinality(InFlight') * C + C = Cardinality(InFlight) * C
    BY <1>2, <2>1, Landed DEF Due
  <2>3. \A p \in Periods \ {"none"} : billedBy = {p} =>
          Current(word, Ordinal(p, now)) + Cardinality(InFlight') * C < Room
    BY <2>2, Quantities, Maxima DEF Bounded
  <2>4. QED
    BY <1>2, <2>1, <2>3, Stepped DEF Labels
<1>5. QED
  BY <1>3, <1>4

\* SpendState::add goes round again.
LEMMA AddAgainStep ==
  ASSUME OInv, NEW r \in Requests, AddAgain(r)
  PROVE  OInv'
<1> USE DEF OInv
<1> DEFINE c == [req[r] EXCEPT !.seen = word]
<1>1. pc[r] = "adding" /\ Goto(r, "adding", c) /\ UNCHANGED <<now, control, word>>
  BY DEF AddAgain
<1>2. c \in Carried /\ c.def = req[r].def /\ c.ord = req[r].ord /\ c.cost = req[r].cost
  BY DEF Carried, Typed
<1> HIDE DEF c
<1>3. Enforced(req[r].def)
  BY <1>1 DEF ByTheTable
<1>4. InFlight' = InFlight
  BY <1>1 DEF InFlight, Flying, Goto, Due, Typed
<1>5. \A p \in Periods \ {"none"} : billedBy = {p} =>
        /\ c.ord = Ordinal(p, now) /\ c.cost \in Costs
        /\ Current(word, Ordinal(p, now)) + Cardinality(InFlight') * C < Room
  BY <1>1, <1>2, <1>4 DEF Bounded
<1>6. QED
  BY <1>1, <1>2, <1>3, <1>5, Stepped DEF Labels

\* The debit: what it adds to the word is no more than the request held room for.
LEMMA AddStep ==
  ASSUME OInv, NEW r \in Requests, Add(r)
  PROVE  OInv'
<1> USE DEF OInv
<1>1. /\ pc[r] = "adding" /\ word' = AddTo(word, req[r].ord, req[r].cost)
      /\ pc' = [pc EXCEPT ![r] = "idle"] /\ req' = [req EXCEPT ![r] = Idle]
      /\ UNCHANGED <<now, doc, table, up, edits, crashes, billedBy>>
  BY DEF Add, Goto, control
<1>2. req[r] \in Carried /\ Idle \in Carried /\ word \in Word
  BY VirtualKeyAssumption
     DEF Typed, VirtualKeyAssumption, Idle, Carried, Days, Empty, Word
<1>3. req[r].ord \in Nat /\ req[r].cost \in Nat /\ SpendMask \in Nat
  BY <1>2, VirtualKeyAssumption DEF Carried, VirtualKeyAssumption
<1> DEFINE sum == IF word.period = req[r].ord THEN word.spent + req[r].cost ELSE req[r].cost
<1>4. word' = [period |-> req[r].ord, spent |-> Least(SpendMask, sum)]
  BY <1>1 DEF AddTo
<1>5. sum \in Nat /\ sum = Current(word, req[r].ord) + req[r].cost
  BY <1>2, <1>3, VirtualKeyAssumption DEF Current, Word, VirtualKeyAssumption
<1> HIDE DEF sum
<1>6. Least(SpendMask, sum) \in 0 .. SpendMask /\ Least(SpendMask, sum) <= sum
  BY <1>3, <1>5 DEF Least
<1>7. word' \in Word
  BY <1>3, <1>4, <1>6 DEF Word
<1>8. Typed'
  BY <1>1, <1>2, <1>7 DEF Typed, Labels
<1>9. ByTheTable'
  BY <1>1 DEF Typed, ByTheTable, Enforced
<1>10. ASSUME NEW p \in Periods \ {"none"}, billedBy' = {p}
       PROVE  Bounded(p)'
  <2>1. Bounded(p)
    BY <1>1, <1>10
  <2> DEFINE spent == Current(word, Ordinal(p, now))
  <2>2. req[r].ord = Ordinal(p, now) /\ req[r].cost <= C
    BY <1>1, <2>1, Maxima DEF Bounded
  <2>3. word'.period = Ordinal(p, now) /\ word'.spent <= spent + C /\ word'.spent \in Nat
    <3>1. word'.period = req[r].ord /\ word'.spent = Least(SpendMask, sum)
      BY <1>4
    <3>2. sum = spent + req[r].cost
      BY <1>5, <2>2
    <3>3. QED
      BY <1>3, <1>6, <2>2, <3>1, <3>2, Quantities, Maxima
  <2>4. Cardinality(InFlight') * C \in Nat
        /\ Cardinality(InFlight') * C + C = Cardinality(InFlight) * C
    BY <1>1, Landed DEF Due
  <2>5. spent + Cardinality(InFlight) * C < Room /\ spent \in Nat /\ Room \in Nat
    BY <2>1, Quantities DEF Bounded
  <2> HIDE DEF spent
  <2>6. word'.spent + Cardinality(InFlight') * C < Room /\ word'.spent < Room
    BY <2>3, <2>4, <2>5, Maxima
  <2>7. Current(word', Ordinal(p, now)) = word'.spent
    BY <2>3 DEF Current
  <2>8. \A q \in Requests :
          pc'[q] = "adding" => req'[q].ord = Ordinal(p, now) /\ req'[q].cost \in Costs
    BY <1>1, <2>1 DEF Typed, Bounded
  <2>9. Ordinal(p, now') = Ordinal(p, now) /\ Ordinal(p, now) \in Nat
    BY <1>1, Quantities
  <2>10. QED
    BY <1>1, <2>3, <2>6, <2>7, <2>8, <2>9 DEF Bounded
<1>11. QED
  BY <1>8, <1>9, <1>10

\* Nothing of it changes.
LEMMA StutterStep ==
  ASSUME OInv, UNCHANGED vars
  PROVE  OInv'
BY DEF OInv, vars, Typed, ByTheTable, Enforced, Bounded, InFlight, Current, Ordinal

\* Few periods bound a budget.
LEMMA FewPeriods ==
  ASSUME NEW P \in SUBSET Periods
  PROVE  IsFiniteSet(P)
<1>1. P \in SUBSET (({"none"} \cup {"daily"}) \cup {"monthly"})
  BY VirtualKeyAssumption DEF VirtualKeyAssumption
<1>2. IsFiniteSet({"none"})
  BY FS_Singleton
<1>3. IsFiniteSet({"none"} \cup {"daily"})
  BY <1>2, FS_AddElement
<1>4. IsFiniteSet(({"none"} \cup {"daily"}) \cup {"monthly"})
  BY <1>3, FS_AddElement
<1>5. QED
  BY <1>1, <1>4, FS_Subset

\* A budget that keeps its period is overrun by no more than the requests in
\* flight when it ran out (admit before the answer, debit_usage after it), as
\* long as no debit spans midnight and the process does not restart.
THEOREM Overrun == ~Straddle /\ MaxCrashes = 0 => (Spec => []OverrunBounded)
<1> SUFFICES ASSUME ~Straddle, MaxCrashes = 0
             PROVE  Spec => []OverrunBounded
  OBVIOUS
<1>1. OInv /\ [Next]_vars => OInv'
  <2> SUFFICES ASSUME OInv, [Next]_vars
               PROVE  OInv'
    OBVIOUS
  <2>1. ~Crash /\ ~Boot
    BY DEF OInv, Typed, Crash, Boot
  <2>2. QED
    BY <2>1, ArriveStep, GateStep, CompleteStep, AddStep, AddAgainStep, TickStep,
       OperatorStep, StutterStep DEF Next
<1>2. OInv => OverrunBounded
  <2> SUFFICES ASSUME OInv, Cardinality(billedBy) = 1, "none" \notin billedBy
               PROVE  word.spent < Room
    BY DEF OverrunBounded, Room, C
  <2>1. billedBy \in SUBSET {"none", "daily", "monthly"}
    BY VirtualKeyAssumption DEF OInv, Typed, VirtualKeyAssumption
  <2>2. IsFiniteSet(billedBy)
    BY FewPeriods DEF OInv, Typed
  <2>3. PICK p : billedBy = {p}
    BY <2>2, FS_Singleton
  <2>4. p \in Periods \ {"none"}
    BY <2>3 DEF OInv, Typed
  <2>5. QED
    BY <2>3, <2>4 DEF OInv, Bounded
<1>3. QED
  BY OInit, <1>1, <1>2, PTL DEF Spec

-----------------------------------------------------------------------------
(* Adding up records *)

\* The units of one day, from one number to another.
LEMMA OneDay ==
  ASSUME NEW d, NEW m \in Nat, NEW n \in Nat, m <= n + 1
  PROVE  /\ IsFiniteSet({d} \X (m .. n))
         /\ Cardinality({d} \X (m .. n)) = n + 1 - m
<1>1. IsFiniteSet({d}) /\ Cardinality({d}) = 1
  BY FS_Singleton
<1>2. IsFiniteSet(m .. n) /\ Cardinality(m .. n) = n + 1 - m
  BY FS_Interval
<1>3. QED
  BY <1>1, <1>2, FS_Product

\* A unit, by its day and its number.
LEMMA UnitOf ==
  ASSUME NEW f, NEW D
  PROVE  /\ \A u : u \in Units(f, D) <=> \E d \in D : u \in {d} \X (1 .. f[d])
         /\ \A d, i : <<d, i>> \in Units(f, D) <=> d \in D /\ i \in 1 .. f[d]
         /\ \A u \in Units(f, D) : u = <<u[1], u[2]>>
BY DEF Units

\* The records of finitely many days hold finitely many units.
LEMMA FiniteUnits ==
  ASSUME NEW f \in [Days -> Nat], NEW D \in SUBSET Days
  PROVE  IsFiniteSet(Units(f, D)) /\ Cardinality(Units(f, D)) \in Nat
<1> DEFINE days == {{d} \X (1 .. f[d]) : d \in D}
<1> DEFINE under == [d \in D |-> {d} \X (1 .. f[d])]
<1>1. IsFiniteSet(Days)
  BY FS_Interval, VirtualKeyAssumption DEF Days, VirtualKeyAssumption
<1>2. IsFiniteSet(D)
  BY <1>1, FS_Subset
<1>3. under \in Surjection(D, days)
  BY DEF Surjection
<1>4. IsFiniteSet(days)
  BY <1>2, <1>3, FS_Surjection
<1>5. ASSUME NEW T \in days
      PROVE  IsFiniteSet(T)
  <2>1. PICK d \in D : T = {d} \X (1 .. f[d])
    OBVIOUS
  <2>2. f[d] \in Nat /\ 1 <= f[d] + 1
    OBVIOUS
  <2>3. QED
    BY <2>1, <2>2, OneDay
<1> HIDE DEF days, under
<1>6. IsFiniteSet(UNION days)
  BY <1>4, <1>5, FS_UNION
<1>7. QED
  BY <1>6, FS_CardinalityType DEF Units, days

\* Nothing adds up to nothing.
LEMMA NoUnits ==
  ASSUME NEW f \in [Days -> Nat], NEW D \in SUBSET Days, \A d \in D : f[d] = 0
  PROVE  Cardinality(Units(f, D)) = 0
<1>1. Units(f, D) = {}
  BY DEF Units
<1>2. QED
  BY <1>1, FS_EmptySet

\* A record of a day that counts adds its cost.
LEMMA MoreUnits ==
  ASSUME NEW f \in [Days -> Nat], NEW D \in SUBSET Days, NEW day \in D, NEW c \in Nat
  PROVE  Cardinality(Units([f EXCEPT ![day] = @ + c], D)) = Cardinality(Units(f, D)) + c
<1> DEFINE g == [f EXCEPT ![day] = @ + c]
<1> DEFINE new == {day} \X (f[day] + 1 .. f[day] + c)
<1>1. g \in [Days -> Nat] /\ f[day] \in Nat /\ g[day] = f[day] + c
      /\ \A d \in D \ {day} : g[d] = f[d]
  OBVIOUS
<1>2. \A n \in Nat : \A i : i \in 1 .. n + c <=> i \in 1 .. n \/ i \in n + 1 .. n + c
  OBVIOUS
<1> HIDE DEF g
<1>3. Units(g, D) = Units(f, D) \cup new
  <2>1. ASSUME NEW u \in Units(g, D)
        PROVE  u \in Units(f, D) \cup new
    <3>1. PICK d \in D : u \in {d} \X (1 .. g[d])
      BY UnitOf
    <3>2. CASE d = day
      BY <1>1, <1>2, <3>1, <3>2 DEF Units
    <3>3. CASE d # day
      BY <1>1, <3>1, <3>3 DEF Units
    <3>4. QED
      BY <3>2, <3>3
  <2>2. ASSUME NEW u \in Units(f, D) \cup new
        PROVE  u \in Units(g, D)
    <3>1. CASE u \in new
      <4>1. PICK i \in f[day] + 1 .. f[day] + c : u = <<day, i>>
        BY <3>1
      <4>2. i \in 1 .. g[day]
        BY <1>1, <1>2, <4>1
      <4>3. <<day, i>> \in Units(g, D)
        BY <4>2, UnitOf
      <4>4. QED
        BY <4>1, <4>3
    <3>2. CASE u \in Units(f, D)
      <4>1. PICK d \in D : u \in {d} \X (1 .. f[d])
        BY <3>2, UnitOf
      <4>2. u \in {d} \X (1 .. g[d])
        BY <1>1, <1>2, <4>1
      <4>3. QED
        BY <4>2, UnitOf
    <3>3. QED
      BY <3>1, <3>2
  <2>3. QED
    BY <2>1, <2>2
<1>4. Units(f, D) \cap new = {}
  <2>1. ASSUME NEW u \in Units(f, D), u \in new
        PROVE  FALSE
    <3>1. PICK i \in f[day] + 1 .. f[day] + c : u = <<day, i>>
      BY <2>1
    <3>2. i \in 1 .. f[day]
      BY <3>1, UnitOf
    <3>3. QED
      BY <1>1, <3>1, <3>2
  <2>2. QED
    BY <2>1
<1>5. IsFiniteSet(new) /\ Cardinality(new) = c
  <2> DEFINE m == f[day] + 1
  <2> DEFINE n == f[day] + c
  <2>1. m \in Nat /\ n \in Nat /\ m <= n + 1 /\ n + 1 - m = c
    BY <1>1
  <2>2. new = {day} \X (m .. n)
    OBVIOUS
  <2> HIDE DEF m, n, new
  <2>3. QED
    BY <2>1, <2>2, OneDay
<1>6. IsFiniteSet(Units(f, D)) /\ Cardinality(Units(f, D)) \in Nat
  BY FiniteUnits
<1> HIDE DEF new, g
<1>7. Cardinality(Units(g, D)) = Cardinality(Units(f, D)) + c - 0
  BY <1>3, <1>4, <1>5, <1>6, FS_Union, FS_EmptySet
<1>8. QED
  BY <1>6, <1>7 DEF g

\* Records put together hold what they held apart.
LEMMA BothUnits ==
  ASSUME NEW f \in [Days -> Nat], NEW g \in [Days -> Nat], NEW D \in SUBSET Days
  PROVE  Cardinality(Units([d \in Days |-> f[d] + g[d]], D))
           = Cardinality(Units(f, D)) + Cardinality(Units(g, D))
<1> DEFINE h == [d \in Days |-> f[d] + g[d]]
<1> DEFINE above == UNION {{d} \X (f[d] + 1 .. f[d] + g[d]) : d \in D}
<1> DEFINE lift == [u \in Units(g, D) |-> <<u[1], f[u[1]] + u[2]>>]
<1>1. \A d \in D : f[d] \in Nat /\ g[d] \in Nat /\ h[d] = f[d] + g[d]
  OBVIOUS
<1>2. \A d, i : <<d, i>> \in above <=> d \in D /\ i \in f[d] + 1 .. f[d] + g[d]
  OBVIOUS
<1>3. \A u \in above : u = <<u[1], u[2]>>
  OBVIOUS
<1> HIDE DEF above
<1>4. Units(h, D) = Units(f, D) \cup above
  <2>1. \A m, n \in Nat : \A i : i \in 1 .. m + n <=> i \in 1 .. m \/ i \in m + 1 .. m + n
    OBVIOUS
  <2> HIDE DEF h
  <2>2. ASSUME NEW d, NEW i
        PROVE  <<d, i>> \in Units(h, D) <=> <<d, i>> \in Units(f, D) \/ <<d, i>> \in above
    <3>1. /\ <<d, i>> \in Units(h, D) <=> d \in D /\ i \in 1 .. h[d]
          /\ <<d, i>> \in Units(f, D) <=> d \in D /\ i \in 1 .. f[d]
      BY UnitOf
    <3>2. QED
      BY <1>1, <1>2, <2>1, <3>1
  <2>3. QED
    BY <1>3, <2>2, UnitOf
<1>5. Units(f, D) \cap above = {}
  <2>1. ASSUME NEW u \in Units(f, D), u \in above
        PROVE  FALSE
    <3>1. u = <<u[1], u[2]>>
      BY UnitOf
    <3>2. u[1] \in D /\ u[2] \in 1 .. f[u[1]] /\ u[2] \in f[u[1]] + 1 .. f[u[1]] + g[u[1]]
      BY <1>2, <2>1, <3>1, UnitOf
    <3>3. QED
      BY <1>1, <3>2
  <2>2. QED
    BY <2>1
<1>6. \A u \in Units(g, D) : u[1] \in D /\ u[2] \in 1 .. g[u[1]] /\ u = <<u[1], u[2]>>
  BY UnitOf
<1>7. lift \in Bijection(Units(g, D), above)
  <2>1. lift \in [Units(g, D) -> above]
    <3>1. ASSUME NEW u \in Units(g, D)
          PROVE  <<u[1], f[u[1]] + u[2]>> \in above
      BY <1>1, <1>2, <1>6
    <3>2. QED
      BY <3>1
  <2>2. ASSUME NEW u \in Units(g, D), NEW v \in Units(g, D), lift[u] = lift[v]
        PROVE  u = v
    <3>1. u[1] = v[1] /\ f[u[1]] + u[2] = f[v[1]] + v[2]
      BY <2>2
    <3>2. u[2] = v[2]
      BY <1>1, <1>6, <3>1
    <3>3. QED
      BY <1>6, <3>1, <3>2
  <2>3. ASSUME NEW u \in above
        PROVE  \E v \in Units(g, D) : lift[v] = u
    <3> DEFINE i == u[2] - f[u[1]]
    <3>1. u = <<u[1], u[2]>> /\ u[1] \in D /\ u[2] \in f[u[1]] + 1 .. f[u[1]] + g[u[1]]
      BY <1>2, <1>3
    <3>2. i \in 1 .. g[u[1]] /\ f[u[1]] + i = u[2]
      BY <1>1, <3>1
    <3> HIDE DEF i
    <3>3. <<u[1], i>> \in Units(g, D)
      BY <3>1, <3>2, UnitOf
    <3>4. lift[<<u[1], i>>] = u
      BY <3>1, <3>2, <3>3
    <3>5. QED
      BY <3>3, <3>4
  <2> HIDE DEF lift
  <2>4. QED
    BY <2>1, <2>2, <2>3, Fun_IsBij
<1>8. IsFiniteSet(above) /\ Cardinality(above) = Cardinality(Units(g, D))
  BY <1>7, FiniteUnits, FS_Bijection DEF ExistsBijection
<1> HIDE DEF lift, h
<1>9. Cardinality(Units(h, D)) = Cardinality(Units(f, D)) + Cardinality(above) - 0
  BY <1>4, <1>5, <1>8, FiniteUnits, FS_Union, FS_EmptySet
<1>10. QED
  BY <1>8, <1>9, FiniteUnits DEF h

-----------------------------------------------------------------------------
(* Spend is kept *)

\* SpendState::add: what the word reads as grows by the cost, up to what it holds.
LEMMA Added ==
  ASSUME NEW w \in Word, NEW ord \in Nat, NEW cost \in Nat
  PROVE  /\ Current(w, ord) \in 0 .. SpendMask
         /\ AddTo(w, ord, cost) \in Word
         /\ AddTo(w, ord, cost).period = ord
         /\ AddTo(w, ord, cost).spent = Least(SpendMask, Current(w, ord) + cost)
<1>1. w.period \in Nat /\ w.spent \in 0 .. SpendMask /\ SpendMask \in Nat
  BY VirtualKeyAssumption DEF Word, VirtualKeyAssumption
<1>2. Current(w, ord) \in 0 .. SpendMask
  BY <1>1 DEF Current
<1>3. (IF w.period = ord THEN w.spent + cost ELSE cost) = Current(w, ord) + cost
  BY <1>1 DEF Current
<1>4. Least(SpendMask, Current(w, ord) + cost) \in 0 .. SpendMask
  BY <1>1, <1>2 DEF Least
<1>5. QED
  BY <1>2, <1>3, <1>4 DEF AddTo, Word

\* The period of a day has the day in it and days only, and no others when the
\* period lasts.
LEMMA PeriodOfDay ==
  ASSUME NEW p, NEW d \in Days
  PROVE  /\ d \in SamePeriod(p, d) /\ SamePeriod(p, d) \in SUBSET Days
         /\ \A e : Ordinal(p, e) = Ordinal(p, d) => SamePeriod(p, e) = SamePeriod(p, d)
BY DEF SamePeriod

\* What records say was spent is a number.
LEMMA SpentTyped ==
  ASSUME NEW held \in [Days -> Nat], NEW def, NEW d \in Days
  PROVE  Spent(held, def, d) \in Nat
BY FiniteUnits, PeriodOfDay DEF Spent

\* seed_budgets leaves a word.
LEMMA SeededTyped ==
  ASSUME TypeOK, NEW def
  PROVE  Seeded(def) \in Word
<1>1. Empty \in Word /\ now \in Days /\ now \in Nat
  BY VirtualKeyAssumption DEF TypeOK, Empty, Word, Days, VirtualKeyAssumption
<1>2. Spent(disk, def, now) \in Nat /\ Ordinal(def.period, now) \in Nat
  BY <1>1, SpentTyped, Ordinals DEF TypeOK
<1>3. QED
  BY <1>1, <1>2, Added DEF Seeded

\* A request carries what it should at each step.
LEMMA CarriedStep ==
  ASSUME TypeOK, NEW r \in Requests, NEW l \in Labels, NEW c \in Carried, Goto(r, l, c)
  PROVE  pc' \in [Requests -> Labels] /\ req' \in [Requests -> Carried]
BY DEF TypeOK, Goto, Labels, Carried

\* flusher: of each day's records some are written and the others are dropped.
LEMMA Flushed ==
  ASSUME TypeOK, Flush
  PROVE  \E written \in [Days -> Nat], rest \in [Days -> Nat] :
           /\ pending = [d \in Days |-> written[d] + rest[d]]
           /\ pending' = [d \in Days |-> 0]
           /\ disk' = [d \in Days |-> disk[d] + written[d]]
           /\ lost' = [d \in Days |-> lost[d] + rest[d]]
<1>1. pending \in [Days -> Nat] /\ pending' = [d \in Days |-> 0]
  BY DEF TypeOK, Flush
<1>2. PICK last \in Days : \E part \in 0 .. pending[last] :
        /\ disk' = [d \in Days |-> disk[d] + Readable(last, part)[d]]
        /\ lost' = [d \in Days |-> lost[d] + (pending[d] - Readable(last, part)[d])]
  BY DEF Flush
<1>3. PICK part \in 0 .. pending[last] :
        /\ disk' = [d \in Days |-> disk[d] + Readable(last, part)[d]]
        /\ lost' = [d \in Days |-> lost[d] + (pending[d] - Readable(last, part)[d])]
  BY <1>2
<1> DEFINE written == Readable(last, part)
<1> DEFINE rest == [d \in Days |-> pending[d] - written[d]]
<1>4. \A d \in Days : written[d] = IF d < last THEN pending[d] ELSE IF d = last THEN part ELSE 0
  BY DEF Readable
<1>5. \A d \in Days : pending[d] \in Nat /\ written[d] \in 0 .. pending[d]
  BY <1>1, <1>3, <1>4
<1>6. written = [d \in Days |-> written[d]]
  BY DEF Readable
<1> HIDE DEF written
<1>7. written \in [Days -> Nat] /\ rest \in [Days -> Nat]
  BY <1>5, <1>6
<1>8. \A d \in Days : rest[d] = pending[d] - written[d] /\ pending[d] = written[d] + rest[d]
  BY <1>5
<1>9. lost' = [d \in Days |-> lost[d] + rest[d]] /\ disk' = [d \in Days |-> disk[d] + written[d]]
  BY <1>3, <1>8 DEF written
<1> HIDE DEF rest
<1>10. pending = [d \in Days |-> written[d] + rest[d]]
  BY <1>1, <1>8
<1>11. QED
  BY <1>1, <1>7, <1>9, <1>10

\* The variables of a key keep their types.
LEMMA TypeStep == TypeOK /\ [Next]_vars => TypeOK'
<1> SUFFICES ASSUME TypeOK, [Next]_vars
             PROVE  TypeOK'
  OBVIOUS
<1>1. now \in Days /\ now \in Nat /\ edits \in Nat /\ Empty \in Word /\ Idle \in Carried
      /\ SpendMask \in Nat
  BY VirtualKeyAssumption
     DEF TypeOK, VirtualKeyAssumption, Days, Empty, Word, Idle, Carried
<1>2. ASSUME NEW r \in Requests, NEW l \in Labels, NEW c \in Carried, Goto(r, l, c),
             UNCHANGED <<now, control, word, records, ledger>>
      PROVE  TypeOK'
  BY <1>2, CarriedStep DEF TypeOK, control, records, Labels, Carried
<1>3. ASSUME NEW r \in Requests, Arrive(r)
      PROVE  TypeOK'
  <2>1. [Idle EXCEPT !.def = table] \in Carried
    BY <1>1 DEF TypeOK, Carried
  <2>2. QED
    BY <1>2, <1>3, <2>1 DEF Arrive, Labels
<1>4. ASSUME NEW r \in Requests, Gate(r)
      PROVE  TypeOK'
  <2>1. req[r] \in Carried
    BY DEF TypeOK, Carried
  <2>2. QED
    BY <1>1, <1>2, <1>4, <2>1 DEF Gate, Labels
<1>5. ASSUME NEW r \in Requests, Complete(r)
      PROVE  TypeOK'
  <2>1. PICK cost \in Costs :
          Goto(r, IF cost > 0 THEN "adding" ELSE "idle",
               IF cost > 0
               THEN [req[r] EXCEPT !.ord = Ordinal(req[r].def.period, now),
                                   !.day = now, !.cost = cost, !.seen = word]
               ELSE Idle)
    BY <1>5 DEF Complete
  <2>2. cost \in Nat /\ Ordinal(req[r].def.period, now) \in Nat /\ word \in Word
    BY <1>1, Ordinals, VirtualKeyAssumption DEF VirtualKeyAssumption, TypeOK
  <2>3. req[r] \in Carried
    BY DEF TypeOK, Carried
  <2>4. [req[r] EXCEPT !.ord = Ordinal(req[r].def.period, now),
                       !.day = now, !.cost = cost, !.seen = word] \in Carried
    BY <1>1, <2>2, <2>3 DEF Carried
  <2>5. QED
    BY <1>1, <1>2, <1>5, <2>1, <2>4 DEF Complete, Labels
<1>6. ASSUME NEW r \in Requests, Add(r)
      PROVE  TypeOK'
  <2>1. req[r].ord \in Nat /\ req[r].cost \in Nat /\ req[r].day \in Days
    BY DEF TypeOK
  <2>2. word' \in Word /\ ledger' \in Word
    BY <1>6, <2>1, Added DEF Add, TypeOK
  <2>3. pending' \in [Days -> Nat] /\ lost' \in [Days -> Nat] /\ disk' = disk
    BY <1>6, <2>1 DEF Add, Record, TypeOK
  <2>4. pc' \in [Requests -> Labels] /\ req' \in [Requests -> Carried]
    BY <1>1, <1>6, CarriedStep DEF Add, Labels
  <2>5. QED
    BY <1>6, <2>2, <2>3, <2>4 DEF Add, TypeOK, control, Labels, Carried
<1>7. ASSUME NEW r \in Requests, AddAgain(r)
      PROVE  TypeOK'
  <2>1. [req[r] EXCEPT !.seen = word] \in Carried
    BY DEF TypeOK, Carried
  <2>2. QED
    BY <1>2, <1>7, <2>1 DEF AddAgain, Labels
<1>8. CASE Tick
  <2>1. now' \in Days
    BY <1>1, <1>8, VirtualKeyAssumption DEF Tick, Days, VirtualKeyAssumption
  <2>2. QED
    BY <1>8, <2>1 DEF Tick, TypeOK, control, records
<1>9. CASE Rotate \/ Enable \/ Expire \/ SetLimit \/ SetPeriod \/ Delete
  <2>1. doc' \in Definition \cup {NoKey}
    BY <1>1, <1>9, Redefinition DEF TypeOK
  <2>2. edits < MaxEdits /\ edits' = edits + 1
        /\ UNCHANGED <<now, table, up, crashes, word, pc, req, records, ledger, billedBy>>
    BY <1>9 DEF Rotate, Enable, Expire, SetLimit, SetPeriod, Delete, Commit
  <2>3. edits' \in 0 .. MaxEdits
    BY <1>1, <2>2, VirtualKeyAssumption DEF VirtualKeyAssumption
  <2>4. QED
    BY <2>1, <2>2, <2>3 DEF TypeOK, records
<1>10. PeriodOf(doc) \subseteq Periods
  BY DEF PeriodOf, TypeOK, Definition
<1>11. CASE Publish
  BY <1>10, <1>11 DEF Publish, TypeOK, records
<1>12. CASE Flush
  <2>1. disk' \in [Days -> Nat] /\ pending' \in [Days -> Nat] /\ lost' \in [Days -> Nat]
    BY <1>12, Flushed DEF TypeOK
  <2>2. QED
    BY <1>12, <2>1 DEF Flush, TypeOK, control
<1>13. CASE Crash
  <2>1. crashes' \in 0 .. MaxCrashes
    BY <1>13, VirtualKeyAssumption DEF Crash, TypeOK, VirtualKeyAssumption
  <2>2. req' \in [Requests -> Carried] /\ pc' \in [Requests -> Labels]
    BY <1>1, <1>13 DEF Crash, Labels
  <2>3. QED
    BY <1>13, <2>1, <2>2 DEF Crash, TypeOK, Labels, Carried
<1>14. CASE Boot
  <2>1. Seeded(doc) \in Word
    BY SeededTyped
  <2>2. QED
    BY <1>10, <1>14, <2>1 DEF Boot, TypeOK, records
<1>15. CASE UNCHANGED vars
  BY <1>15 DEF vars, TypeOK
<1>16. QED
  BY <1>3, <1>4, <1>5, <1>6, <1>7, <1>8, <1>9, <1>11, <1>12, <1>13, <1>14, <1>15 DEF Next

\* Before the first request the variables have their types.
LEMMA TypeInit == Init => TypeOK
<1> SUFFICES ASSUME Init
             PROVE  TypeOK
  OBVIOUS
<1>1. doc \in Definition /\ table = doc /\ doc.period \in Periods
  BY Opens DEF Init, Definition
<1>2. now \in Days /\ Empty \in Word /\ Idle \in Carried
  BY VirtualKeyAssumption DEF VirtualKeyAssumption, Init, Days, Empty, Word, Idle, Carried
<1>3. QED
  BY <1>1, <1>2, VirtualKeyAssumption DEF Init, TypeOK, Carried, VirtualKeyAssumption

\* The types of a key.
THEOREM Typing == Spec => []TypeOK
BY TypeInit, TypeStep, PTL DEF Spec

-----------------------------------------------------------------------------
(* The word reads what the records add up to *)

\* What the records of the present period hold, on disk, not flushed or dropped.
Total(p) == Cardinality(Units(disk, SamePeriod(p, now)))
              + Cardinality(Units(pending, SamePeriod(p, now)))
              + Cardinality(Units(lost, SamePeriod(p, now)))

\* Under one period the word is not of a period to come, what is being billed
\* is of today, and the word reads what the records add up to.
Kept(p) ==
  /\ word.period <= Ordinal(p, now)
  /\ \A r \in Requests : pc[r] = "adding" => req[r].ord = Ordinal(p, now) /\ req[r].day = now
  /\ Current(word, Ordinal(p, now)) = Least(SpendMask, Total(p))

\* Whatever is enforced, or is billed, is under a period the key was enforced
\* by; a key that is gone does not come back.
UnderPeriods ==
  /\ billedBy # {}
  /\ table # NoKey => table.period \in billedBy
  /\ table = NoKey => doc = NoKey
  /\ \A r \in Requests : pc[r] # "idle" => req[r].def # NoKey /\ req[r].def.period \in billedBy

\* No record is of a day to come.
NoFuture ==
  /\ \A r \in Requests : pc[r] = "adding" => req[r].day <= now
  /\ \A d \in Days : d > now => disk[d] = 0 /\ pending[d] = 0 /\ lost[d] = 0

\* A process that is down holds nothing, and has nothing to lose.
DownLost ==
  ~up => /\ \A r \in Requests : pc[r] = "idle"
         /\ \A d \in Days : pending[d] = 0 /\ lost[d] = 0

KInv ==
  /\ TypeOK /\ UnderPeriods /\ NoFuture /\ DownLost
  /\ \A p \in Periods \ {"none"} : billedBy = {p} /\ up /\ table # NoKey => Kept(p)

\* period_ordinal counts from one, and grows with the day.
LEMMA Later ==
  ASSUME NEW p, NEW a \in Nat, NEW b \in Nat, a <= b
  PROVE  Ordinal(p, a) \in Nat \ {0} /\ Ordinal(p, a) <= Ordinal(p, b)
<1>1. DaysPerMonth \in Nat \ {0} /\ MaxDay \in Nat
  BY VirtualKeyAssumption DEF VirtualKeyAssumption
<1>2. \A n \in Nat \ {0}, x, y \in Nat : x <= y => (x \div n) \in Nat /\ (x \div n) <= (y \div n)
  OBVIOUS
<1>3. a \div DaysPerMonth \in Nat /\ (a \div DaysPerMonth) <= (b \div DaysPerMonth)
  BY <1>1, <1>2
<1>4. QED
  BY <1>1, <1>3 DEF Ordinal, MonthBase

\* Midnight leaves the period as it is, or begins one whose days are all to come.
LEMMA Midnight ==
  ASSUME NEW p, NEW d \in Nat, d + 1 \in Days
  PROVE  \/ /\ Ordinal(p, d + 1) = Ordinal(p, d)
            /\ SamePeriod(p, d + 1) = SamePeriod(p, d)
         \/ /\ Ordinal(p, d + 1) > Ordinal(p, d)
            /\ \A e \in SamePeriod(p, d + 1) : e > d
<1>1. CASE Ordinal(p, d + 1) = Ordinal(p, d)
  BY <1>1 DEF SamePeriod
<1>2. CASE Ordinal(p, d + 1) # Ordinal(p, d)
  <2>1. Ordinal(p, d) \in Nat /\ Ordinal(p, d + 1) \in Nat /\ Ordinal(p, d) <= Ordinal(p, d + 1)
    BY Later
  <2>2. ASSUME NEW e \in SamePeriod(p, d + 1), ~(e > d)
        PROVE  FALSE
    <3>1. e \in Nat /\ e <= d /\ Ordinal(p, e) = Ordinal(p, d + 1)
      BY <2>2, VirtualKeyAssumption DEF SamePeriod, Days, VirtualKeyAssumption
    <3>2. Ordinal(p, e) <= Ordinal(p, d)
      BY <3>1, Later
    <3>3. QED
      BY <1>2, <2>1, <3>1, <3>2
  <2>3. QED
    BY <1>2, <2>1, <2>2
<1>3. QED
  BY <1>1, <1>2

\* The records of the present period hold a number of units.
LEMMA Totals ==
  ASSUME TypeOK, NEW p
  PROVE  /\ now \in Nat /\ SamePeriod(p, now) \in SUBSET Days /\ now \in SamePeriod(p, now)
         /\ Ordinal(p, now) \in Nat \ {0}
         /\ Cardinality(Units(disk, SamePeriod(p, now))) \in Nat
         /\ Cardinality(Units(pending, SamePeriod(p, now))) \in Nat
         /\ Cardinality(Units(lost, SamePeriod(p, now))) \in Nat
         /\ Total(p) \in Nat
         /\ word \in Word /\ word.period \in Nat /\ SpendMask \in Nat
<1>1. now \in Days /\ now \in Nat /\ SpendMask \in Nat
  BY VirtualKeyAssumption DEF TypeOK, Days, VirtualKeyAssumption
<1>2. SamePeriod(p, now) \in SUBSET Days /\ now \in SamePeriod(p, now)
  BY <1>1, PeriodOfDay
<1>3. disk \in [Days -> Nat] /\ pending \in [Days -> Nat] /\ lost \in [Days -> Nat]
      /\ word \in Word /\ word.period \in Nat
  BY DEF TypeOK, Word
<1>4. Cardinality(Units(disk, SamePeriod(p, now))) \in Nat
      /\ Cardinality(Units(pending, SamePeriod(p, now))) \in Nat
      /\ Cardinality(Units(lost, SamePeriod(p, now))) \in Nat
  BY <1>2, <1>3, FiniteUnits
<1>5. QED
  BY <1>1, <1>2, <1>3, <1>4, Later DEF Total

\* Debits stop at what the word can hold, one after another as at once.
LEMMA Capped ==
  ASSUME NEW n \in Nat, NEW c \in Nat
  PROVE  Least(SpendMask, Least(SpendMask, n) + c) = Least(SpendMask, n + c)
BY VirtualKeyAssumption DEF Least, VirtualKeyAssumption

\* A request comes nearer to its bill, or is refused.
LEMMA KeptAsk ==
  ASSUME KInv, NEW r \in Requests, Arrive(r) \/ Gate(r) \/ Complete(r) \/ AddAgain(r)
  PROVE  KInv'
<1> USE DEF KInv
<1>1. TypeOK' /\ TypeOK
  BY TypeStep DEF Next
<1>2. UNCHANGED <<now, doc, table, up, billedBy, word, pending, disk, lost>>
  BY DEF Arrive, Gate, Complete, AddAgain, control, records
<1>3. up
  BY DEF Arrive, Gate, Complete, AddAgain, DownLost
<1>4. PICK l, c : Goto(r, l, c)
                  /\ (l # "idle" => c.def # NoKey /\ c.def.period \in billedBy)
                  /\ (l = "adding" =>
                        \/ c.ord = Ordinal(c.def.period, now) /\ c.day = now
                        \/ pc[r] = "adding" /\ c.ord = req[r].ord /\ c.day = req[r].day)
  <2>1. req[r] \in Carried /\ Idle \in Carried
    BY VirtualKeyAssumption
       DEF TypeOK, Carried, Idle, Empty, Word, Days, VirtualKeyAssumption
  <2>2. CASE Arrive(r)
    <3> DEFINE c == [Idle EXCEPT !.def = table]
    <3>1. c.def = table
      BY <2>1 DEF Carried
    <3>2. table # NoKey /\ Goto(r, "held", c)
      BY <2>2 DEF Arrive, Verifies
    <3>3. c.def # NoKey /\ c.def.period \in billedBy
      BY <3>1, <3>2 DEF UnderPeriods
    <3> HIDE DEF c
    <3> WITNESS "held", c
    <3>4. QED
      BY <3>2, <3>3
  <2>3. CASE Gate(r)
    BY <2>3 DEF Gate, UnderPeriods
  <2>4. CASE Complete(r)
    <3>1. PICK cost \in Costs :
            Goto(r, IF cost > 0 THEN "adding" ELSE "idle",
                 IF cost > 0
                 THEN [req[r] EXCEPT !.ord = Ordinal(req[r].def.period, now),
                                     !.day = now, !.cost = cost, !.seen = word]
                 ELSE Idle)
      BY <2>4 DEF Complete
    <3>2. CASE cost > 0
      <4> DEFINE c == [req[r] EXCEPT !.ord = Ordinal(req[r].def.period, now),
                                     !.day = now, !.cost = cost, !.seen = word]
      <4>1. c.def = req[r].def /\ c.ord = Ordinal(req[r].def.period, now) /\ c.day = now
        BY <2>1 DEF Carried
      <4>2. req[r].def # NoKey /\ req[r].def.period \in billedBy
        BY <2>4 DEF Complete, UnderPeriods
      <4>3. Goto(r, "adding", c)
        BY <3>1, <3>2
      <4>4. c.def # NoKey /\ c.def.period \in billedBy /\ c.ord = Ordinal(c.def.period, now)
        BY <4>1, <4>2
      <4>5. c.day = now
        BY <4>1
      <4> HIDE DEF c
      <4> WITNESS "adding", c
      <4>6. QED
        BY <4>3, <4>4, <4>5, Zenon
    <3>3. CASE ~(cost > 0)
      BY <3>1, <3>3
    <3>4. QED
      BY <3>2, <3>3
  <2>5. CASE AddAgain(r)
    <3> DEFINE c == [req[r] EXCEPT !.seen = word]
    <3>1. c.def = req[r].def /\ c.ord = req[r].ord /\ c.day = req[r].day
      BY <2>1 DEF Carried
    <3>2. pc[r] = "adding" /\ Goto(r, "adding", c)
      BY <2>5 DEF AddAgain
    <3>3. c.def # NoKey /\ c.def.period \in billedBy
      BY <3>1, <3>2 DEF UnderPeriods
    <3> HIDE DEF c
    <3> WITNESS "adding", c
    <3>4. QED
      BY <3>1, <3>2, <3>3
  <2>6. QED
    BY <2>2, <2>3, <2>4, <2>5
<1>5. \A q \in Requests : pc'[q] = (IF q = r THEN l ELSE pc[q]) /\ req'[q] = (IF q = r THEN c ELSE req[q])
  BY <1>4 DEF Goto, TypeOK
<1>6. UnderPeriods'
  BY <1>2, <1>4, <1>5 DEF UnderPeriods
<1>7. now \in Nat
  BY Totals
<1>8. NoFuture'
  BY <1>2, <1>4, <1>5, <1>7 DEF NoFuture
<1>9. DownLost'
  BY <1>2, <1>3 DEF DownLost
<1>10. ASSUME NEW p \in Periods \ {"none"}, billedBy' = {p}, up', table' # NoKey
       PROVE  Kept(p)'
  <2>1. Kept(p)
    BY <1>2, <1>10
  <2>2. l = "adding" => c.ord = Ordinal(p, now) /\ c.day = now
    BY <1>2, <1>4, <1>10, <2>1 DEF Kept
  <2>3. \A q \in Requests : pc'[q] = "adding" => req'[q].ord = Ordinal(p, now) /\ req'[q].day = now
    BY <1>5, <2>1, <2>2 DEF Kept
  <2>4. Ordinal(p, now)' = Ordinal(p, now) /\ Total(p)' = Total(p)
        /\ Current(word, Ordinal(p, now))' = Current(word, Ordinal(p, now))
    BY <1>2 DEF Ordinal, Total, Units, SamePeriod, Current
  <2>5. QED
    BY <1>2, <2>1, <2>3, <2>4 DEF Kept
<1>11. QED
  BY <1>1, <1>6, <1>8, <1>9, <1>10

\* A debit takes, and its record joins those not flushed or is dropped.
LEMMA KeptAdd ==
  ASSUME KInv, NEW r \in Requests, Add(r)
  PROVE  KInv'
<1> USE DEF KInv
<1>1. TypeOK' /\ TypeOK
  BY TypeStep DEF Next
<1>2. UNCHANGED <<now, doc, table, up, billedBy, disk>> /\ pc[r] = "adding" /\ word = req[r].seen
      /\ word' = AddTo(word, req[r].ord, req[r].cost)
      /\ \/ pending' = [pending EXCEPT ![req[r].day] = @ + req[r].cost] /\ lost' = lost
         \/ lost' = [lost EXCEPT ![req[r].day] = @ + req[r].cost] /\ pending' = pending
  BY DEF Add, Record, control
<1>3. \A q \in Requests : pc'[q] = (IF q = r THEN "idle" ELSE pc[q])
                          /\ req'[q] = (IF q = r THEN Idle ELSE req[q])
  BY DEF Add, Goto, TypeOK
<1>4. up /\ req[r].day \in Days /\ req[r].day <= now /\ req[r].cost \in Nat /\ req[r].ord \in Nat
      /\ now \in Nat
  BY <1>2, Totals DEF DownLost, NoFuture, TypeOK
<1>5. UnderPeriods' /\ DownLost'
  BY <1>2, <1>3, <1>4 DEF UnderPeriods, DownLost
<1>6. NoFuture'
  <2>1. ASSUME NEW d \in Days, d > now
        PROVE  disk'[d] = 0 /\ pending'[d] = 0 /\ lost'[d] = 0
    <3>1. d # req[r].day
      BY <1>4, <2>1 DEF Days
    <3>2. disk[d] = 0 /\ pending[d] = 0 /\ lost[d] = 0
      BY <2>1 DEF NoFuture
    <3>3. QED
      BY <1>2, <3>1, <3>2 DEF TypeOK
  <2>2. QED
    BY <1>2, <1>3, <2>1 DEF NoFuture
<1>7. ASSUME NEW p \in Periods \ {"none"}, billedBy' = {p}, up', table' # NoKey
      PROVE  Kept(p)'
  <2>1. Kept(p)
    BY <1>2, <1>7
  <2> DEFINE days == SamePeriod(p, now)
  <2> DEFINE ord == Ordinal(p, now)
  <2>2. req[r].ord = ord /\ req[r].day = now
    BY <1>2, <2>1 DEF Kept
  <2>3. days \in SUBSET Days /\ now \in days /\ ord \in Nat /\ word \in Word
        /\ Cardinality(Units(disk, days)) \in Nat /\ Cardinality(Units(pending, days)) \in Nat
        /\ Cardinality(Units(lost, days)) \in Nat
        /\ Total(p) = Cardinality(Units(disk, days)) + Cardinality(Units(pending, days))
                        + Cardinality(Units(lost, days))
    BY Totals DEF Total
  <2>4. Ordinal(p, now)' = ord /\ SamePeriod(p, now)' = days
    BY <1>2 DEF Ordinal, SamePeriod
  <2> HIDE DEF days, ord
  <2>5. /\ pending \in [Days -> Nat] /\ lost \in [Days -> Nat]
        /\ \/ pending' = [pending EXCEPT ![now] = @ + req[r].cost] /\ lost' = lost
           \/ lost' = [lost EXCEPT ![now] = @ + req[r].cost] /\ pending' = pending
    BY <1>2, <2>2 DEF TypeOK
  <2>6. \/ /\ Cardinality(Units(pending', days)) = Cardinality(Units(pending, days)) + req[r].cost
           /\ lost' = lost
        \/ /\ Cardinality(Units(lost', days)) = Cardinality(Units(lost, days)) + req[r].cost
           /\ pending' = pending
    BY <1>4, <2>3, <2>5, MoreUnits
  <2>7. Total(p)' = Total(p) + req[r].cost
    <3>1. Total(p)' = Cardinality(Units(disk', days)) + Cardinality(Units(pending', days))
                        + Cardinality(Units(lost', days))
      BY <2>4 DEF Total
    <3>2. QED
      BY <1>2, <1>4, <2>3, <2>6, <3>1
  <2>8. word'.period = ord /\ word'.spent = Least(SpendMask, Current(word, ord) + req[r].cost)
    <3> DEFINE cost == req[r].cost
    <3>1. word' = AddTo(word, ord, cost) /\ cost \in Nat
      BY <1>2, <1>4, <2>2
    <3> HIDE DEF cost
    <3>2. AddTo(word, ord, cost).period = ord
          /\ AddTo(word, ord, cost).spent = Least(SpendMask, Current(word, ord) + cost)
      BY <2>3, <3>1, Added, ZenonT(30)
    <3>3. QED
      BY <3>1, <3>2 DEF cost
  <2>9. Current(word, ord) = Least(SpendMask, Total(p))
    BY <2>1 DEF Kept, ord
  <2>10. word'.spent = Least(SpendMask, Total(p)')
    <3>1. Total(p) \in Nat /\ req[r].cost \in Nat
      BY <1>4, Totals
    <3>2. QED
      BY <2>7, <2>8, <2>9, <3>1, Capped
  <2>11. \A q \in Requests : pc'[q] = "adding" => req'[q].ord = ord /\ req'[q].day = now'
    BY <1>2, <1>3, <2>1 DEF Kept, ord
  <2>12. Current(word, ord)' = word'.spent
    BY <2>4, <2>8 DEF Current, ord
  <2>13. QED
    BY <2>3, <2>4, <2>8, <2>10, <2>11 DEF Kept, Current
<1>8. QED
  BY <1>1, <1>5, <1>6, <1>7

\* Midnight, when no debit is being made.
LEMMA KeptTick ==
  ASSUME KInv, ~Straddle, Tick
  PROVE  KInv'
<1> USE DEF KInv
<1>1. TypeOK' /\ TypeOK
  BY TypeStep DEF Next
<1>2. now' = now + 1 /\ UNCHANGED <<doc, table, up, billedBy, word, pc, req, pending, disk, lost>>
      /\ now \in Nat /\ now + 1 \in Days
      /\ \A r \in Requests : pc[r] # "adding"
  BY <1>1, Totals DEF Tick, control, records, TypeOK
<1>3. UnderPeriods' /\ DownLost'
  BY <1>2 DEF UnderPeriods, DownLost
<1>4. NoFuture'
  <2>1. \A d \in Days : d \in Int
    BY DEF Days
  <2>2. QED
    BY <1>2, <2>1 DEF NoFuture
<1>5. ASSUME NEW p \in Periods \ {"none"}, billedBy' = {p}, up', table' # NoKey
      PROVE  Kept(p)'
  <2>1. Kept(p)
    BY <1>2, <1>5
  <2> DEFINE new == Ordinal(p, now + 1)
  <2> DEFINE days == SamePeriod(p, now + 1)
  <2>2. Ordinal(p, now)' = new /\ SamePeriod(p, now)' = days
    BY <1>2 DEF Ordinal, SamePeriod
  <2>3. Total(p)' = Cardinality(Units(disk, days)) + Cardinality(Units(pending, days))
                      + Cardinality(Units(lost, days))
    BY <1>2, <2>2 DEF Total
  <2>4. word.period <= Ordinal(p, now) /\ Ordinal(p, now) \in Nat /\ word.period \in Nat /\ SpendMask \in Nat
    BY <2>1, Totals DEF Kept
  <2>5. CASE new = Ordinal(p, now) /\ days = SamePeriod(p, now)
    BY <1>2, <2>1, <2>2, <2>3, <2>5 DEF Kept, Total, Current
  <2>6. CASE new > Ordinal(p, now) /\ \A e \in days : e > now
    <3>1. disk \in [Days -> Nat] /\ pending \in [Days -> Nat] /\ lost \in [Days -> Nat]
          /\ days \in SUBSET Days
      BY DEF TypeOK, SamePeriod
    <3>2. \A e \in days : disk[e] = 0 /\ pending[e] = 0 /\ lost[e] = 0
      BY <2>6, <3>1 DEF NoFuture
    <3> HIDE DEF days
    <3>3. Total(p)' = 0
      BY <2>3, <3>1, <3>2, NoUnits
    <3>4. new \in Nat
      BY <1>2, Later
    <3> HIDE DEF new
    <3>5. word.period # new /\ word.period <= new
      BY <2>4, <2>6, <3>4
    <3>6. Current(word', new) = 0 /\ Least(SpendMask, 0) = 0
      BY <1>2, <2>4, <3>5 DEF Current, Least
    <3>7. QED
      BY <1>2, <2>2, <3>3, <3>5, <3>6 DEF Kept
  <2>7. QED
    BY <1>2, <2>5, <2>6, Midnight
<1>6. QED
  BY <1>1, <1>3, <1>4, <1>5

\* What operators commit reaches the table, or waits.
LEMMA KeptEdit ==
  ASSUME KInv, Publish \/ Rotate \/ Enable \/ Expire \/ SetLimit \/ SetPeriod \/ Delete
  PROVE  KInv'
<1> USE DEF KInv
<1>1. TypeOK' /\ TypeOK
  BY TypeStep DEF Next
<1>2. UNCHANGED <<now, up, word, pc, req, pending, disk, lost>>
  BY DEF Publish, Rotate, Enable, Expire, SetLimit, SetPeriod, Delete, Commit, records
<1>3. billedBy \subseteq billedBy' /\ UnderPeriods'
  <2>1. CASE Publish
    BY <1>2, <2>1 DEF Publish, UnderPeriods, PeriodOf
  <2>2. CASE Rotate \/ Enable \/ Expire \/ SetLimit \/ SetPeriod \/ Delete
    BY <1>2, <2>2 DEF Rotate, Enable, Expire, SetLimit, SetPeriod, Delete, Commit, UnderPeriods
  <2>3. QED
    BY <2>1, <2>2
<1>4. NoFuture' /\ DownLost'
  BY <1>2 DEF NoFuture, DownLost
<1>5. table' # NoKey => table # NoKey
  BY DEF Publish, Rotate, Enable, Expire, SetLimit, SetPeriod, Delete, Commit, UnderPeriods
<1>6. ASSUME NEW p \in Periods \ {"none"}, billedBy' = {p}, up', table' # NoKey
      PROVE  Kept(p)'
  <2>1. billedBy = {p}
    BY <1>3, <1>6 DEF UnderPeriods
  <2>2. Kept(p)
    BY <1>2, <1>5, <1>6, <2>1
  <2>3. Ordinal(p, now)' = Ordinal(p, now) /\ Total(p)' = Total(p)
        /\ Current(word, Ordinal(p, now))' = Current(word, Ordinal(p, now))
    BY <1>2 DEF Ordinal, Total, Units, SamePeriod, Current
  <2>4. QED
    BY <1>2, <2>2, <2>3 DEF Kept
<1>7. QED
  BY <1>1, <1>3, <1>4, <1>6

\* A batch is written, or part of it: the records move, and add up to the same.
LEMMA KeptFlush ==
  ASSUME KInv, Flush
  PROVE  KInv'
<1> USE DEF KInv
<1>1. TypeOK' /\ TypeOK
  BY TypeStep DEF Next
<1>2. UNCHANGED <<now, doc, table, up, billedBy, word, pc, req>> /\ up
  BY DEF Flush, control
<1>3. PICK written \in [Days -> Nat], rest \in [Days -> Nat] :
        /\ pending = [d \in Days |-> written[d] + rest[d]]
        /\ pending' = [d \in Days |-> 0]
        /\ disk' = [d \in Days |-> disk[d] + written[d]]
        /\ lost' = [d \in Days |-> lost[d] + rest[d]]
  BY Flushed
<1>4. UnderPeriods' /\ DownLost'
  BY <1>2 DEF UnderPeriods, DownLost
<1>5. NoFuture'
  <2>1. \A d \in Days : pending[d] = written[d] + rest[d] /\ written[d] \in Nat /\ rest[d] \in Nat
    BY <1>3
  <2>2. \A d \in Days : d > now => disk'[d] = 0 /\ pending'[d] = 0 /\ lost'[d] = 0
    BY <1>3, <2>1 DEF NoFuture
  <2>3. QED
    BY <1>2, <2>2 DEF NoFuture
<1>6. ASSUME NEW p \in Periods \ {"none"}, billedBy' = {p}, up', table' # NoKey
      PROVE  Kept(p)'
  <2>1. Kept(p)
    BY <1>2, <1>6
  <2> DEFINE days == SamePeriod(p, now)
  <2>2. Ordinal(p, now)' = Ordinal(p, now) /\ SamePeriod(p, now)' = days
    BY <1>2 DEF Ordinal, SamePeriod
  <2>3. days \in SUBSET Days /\ disk \in [Days -> Nat] /\ lost \in [Days -> Nat]
        /\ pending' \in [Days -> Nat]
    BY <1>1 DEF TypeOK, SamePeriod
  <2> HIDE DEF days
  <2>4. /\ Cardinality(Units(disk', days))
             = Cardinality(Units(disk, days)) + Cardinality(Units(written, days))
        /\ Cardinality(Units(lost', days))
             = Cardinality(Units(lost, days)) + Cardinality(Units(rest, days))
        /\ Cardinality(Units(pending, days))
             = Cardinality(Units(written, days)) + Cardinality(Units(rest, days))
    BY <1>3, <2>3, BothUnits
  <2>5. Cardinality(Units(pending', days)) = 0
    BY <1>3, <2>3, NoUnits
  <2>6. Total(p)' = Total(p)
    <3>1. Total(p)' = Cardinality(Units(disk', days)) + Cardinality(Units(pending', days))
                        + Cardinality(Units(lost', days))
      BY <2>2 DEF Total
    <3>2. Total(p) = Cardinality(Units(disk, days)) + Cardinality(Units(pending, days))
                       + Cardinality(Units(lost, days))
      BY DEF Total, days
    <3>3. \A f \in {disk, lost, written, rest} : Cardinality(Units(f, days)) \in Nat
      BY <2>3, FiniteUnits
    <3>4. QED
      BY <2>4, <2>5, <3>1, <3>2, <3>3
  <2>7. QED
    BY <1>2, <2>1, <2>2, <2>6 DEF Kept, Current
<1>7. QED
  BY <1>1, <1>4, <1>5, <1>6

\* The process dies.
LEMMA KeptCrash ==
  ASSUME KInv, Crash
  PROVE  KInv'
<1>1. TypeOK'
  BY TypeStep DEF KInv, Next
<1>2. UNCHANGED <<now, doc, table, disk, billedBy>> /\ up' = FALSE
      /\ pc' = [r \in Requests |-> "idle"] /\ pending' = [d \in Days |-> 0]
      /\ lost' = [d \in Days |-> 0]
  BY DEF Crash
<1>3. UnderPeriods' /\ NoFuture' /\ DownLost'
  BY <1>2 DEF KInv, UnderPeriods, NoFuture, DownLost
<1>4. QED
  BY <1>1, <1>2, <1>3 DEF KInv

\* A process starts: seed_budgets reads back what is on disk, and that is all
\* there is.
LEMMA KeptBoot ==
  ASSUME KInv, Boot
  PROVE  KInv'
<1> USE DEF KInv
<1>1. TypeOK' /\ TypeOK
  BY TypeStep DEF Next
<1>2. UNCHANGED <<now, doc, pc, req, pending, disk, lost>> /\ ~up /\ up' /\ table' = doc
      /\ billedBy' = billedBy \cup PeriodOf(doc) /\ word' = Seeded(doc)
  BY DEF Boot, records
<1>3. UnderPeriods' /\ NoFuture' /\ DownLost'
  BY <1>2 DEF UnderPeriods, NoFuture, DownLost, PeriodOf
<1>4. ASSUME NEW p \in Periods \ {"none"}, billedBy' = {p}, up', table' # NoKey
      PROVE  Kept(p)'
  <2>1. doc # NoKey /\ doc.period = p
    BY <1>2, <1>4 DEF PeriodOf
  <2> DEFINE days == SamePeriod(p, now)
  <2> DEFINE ord == Ordinal(p, now)
  <2>2. Ordinal(p, now)' = ord /\ SamePeriod(p, now)' = days
    BY <1>2 DEF Ordinal, SamePeriod
  <2>3. \A r \in Requests : pc'[r] # "adding"
    BY <1>2 DEF DownLost
  <2>4. days \in SUBSET Days /\ pending \in [Days -> Nat] /\ lost \in [Days -> Nat]
        /\ \A d \in days : pending[d] = 0 /\ lost[d] = 0
    BY <1>2 DEF TypeOK, SamePeriod, DownLost
  <2>5. ord \in Nat \ {0} /\ SpendMask \in Nat /\ Cardinality(Units(disk, days)) \in Nat
    BY Totals
  <2>6. Spent(disk, doc, now) = Cardinality(Units(disk, days))
    BY <2>1 DEF Spent
  <2> DEFINE held == Cardinality(Units(disk, days))
  <2>7. Total(p)' = held
    <3>1. Total(p)' = held + Cardinality(Units(pending, days)) + Cardinality(Units(lost, days))
      BY <1>2, <2>2 DEF Total
    <3> HIDE DEF days
    <3>2. QED
      BY <2>4, <2>5, <3>1, NoUnits
  <2>8. word' = IF held > 0 THEN AddTo(Empty, ord, held) ELSE Empty
    BY <1>2, <2>1, <2>6 DEF Seeded
  <2> HIDE DEF days, ord, held
  <2>9. Empty \in Word /\ Empty.period = 0 /\ Current(Empty, ord) = 0 /\ held \in Nat
    BY <2>5 DEF Empty, Word, Current, held
  <2>10. AddTo(Empty, ord, held).period = ord
         /\ AddTo(Empty, ord, held).spent = Least(SpendMask, held)
    <3>1. Current(Empty, ord) + held = held
      BY <2>9
    <3>2. AddTo(Empty, ord, held).period = ord
          /\ AddTo(Empty, ord, held).spent = Least(SpendMask, Current(Empty, ord) + held)
      BY <2>5, <2>9, Added, ZenonT(30)
    <3>3. QED
      BY <3>1, <3>2
  <2>11. word'.period <= ord /\ Current(word', ord) = Least(SpendMask, held)
    <3>1. CASE held > 0
      BY <2>5, <2>8, <2>10, <3>1 DEF Current
    <3>2. CASE held = 0
      BY <2>5, <2>8, <2>9, <3>2 DEF Least
    <3>3. QED
      BY <2>9, <3>1, <3>2
  <2>12. QED
    BY <2>2, <2>3, <2>7, <2>11 DEF Kept
<1>5. QED
  BY <1>1, <1>3, <1>4

\* One period that the key was enforced by is the period it is enforced by.
LEMMA KeptSuffices == KInv => SpendKept
<1> SUFFICES ASSUME KInv, Cardinality(billedBy) = 1, up, table # NoKey, table.period # "none"
             PROVE  Current(word, Ordinal(table.period, now)) =
                      Least(SpendMask, Spent(disk, table, now) + Spent(pending, table, now)
                                         + Spent(lost, table, now))
  BY DEF SpendKept, Reads
<1>1. billedBy \subseteq Periods
  BY DEF KInv, TypeOK
<1>2. PICK p : billedBy = {p}
  BY <1>1, FewPeriods, FS_Singleton
<1>3. table.period = p /\ p \in Periods \ {"none"}
  BY <1>1, <1>2 DEF KInv, UnderPeriods
<1>4. Kept(p)
  BY <1>2, <1>3 DEF KInv
<1>5. QED
  BY <1>3, <1>4 DEF Kept, Total, Spent

\* While the key keeps one period and no debit is made across midnight, the
\* gate reads what the records add up to, those this process dropped among them: a
\* rebuild forgets nothing, a restart what is not on disk, and no cost is counted twice.
THEOREM Keeping == ~Straddle => (Spec => []SpendKept)
<1> SUFFICES ASSUME ~Straddle
             PROVE  Spec => []SpendKept
  OBVIOUS
<1>1. Init => KInv
  <2> SUFFICES ASSUME Init
               PROVE  KInv
    OBVIOUS
  <2>1. doc \in Definition /\ doc # NoKey /\ table = doc /\ billedBy = {doc.period}
    BY Opens, Redefined DEF Init
  <2>2. TypeOK
    BY TypeInit
  <2>3. UnderPeriods /\ NoFuture /\ DownLost
    BY <2>1 DEF Init, UnderPeriods, NoFuture, DownLost
  <2>4. ASSUME NEW p
        PROVE  Kept(p)
    <3>1. word = Empty /\ disk \in [Days -> Nat] /\ pending \in [Days -> Nat]
          /\ lost \in [Days -> Nat]
          /\ (\A d \in Days : disk[d] = 0 /\ pending[d] = 0 /\ lost[d] = 0)
          /\ \A r \in Requests : pc[r] # "adding"
      BY DEF Init
    <3>2. SamePeriod(p, now) \in SUBSET Days /\ Ordinal(p, now) \in Nat \ {0} /\ SpendMask \in Nat
      BY <2>2, Totals
    <3>3. Total(p) = 0
      BY <3>1, <3>2, NoUnits DEF Total
    <3>4. QED
      BY <3>1, <3>2, <3>3 DEF Kept, Current, Least, Empty
  <2>5. QED
    BY <2>2, <2>3, <2>4 DEF KInv
<1>2. KInv /\ [Next]_vars => KInv'
  <2> SUFFICES ASSUME KInv, [Next]_vars
               PROVE  KInv'
    OBVIOUS
  <2>1. CASE UNCHANGED vars
    <3>1. TypeOK'
      BY TypeStep DEF KInv
    <3>2. UNCHANGED <<now, doc, table, up, word, pc, req, pending, disk, lost, billedBy>>
      BY <2>1 DEF vars
    <3>3. \A p : Kept(p)' <=> Kept(p)
      BY <3>2 DEF Kept, Total, Units, SamePeriod, Current, Ordinal
    <3>4. QED
      BY <3>1, <3>2, <3>3 DEF KInv, UnderPeriods, NoFuture, DownLost
  <2>2. QED
    BY <2>1, KeptAsk, KeptAdd, KeptTick, KeptEdit, KeptFlush, KeptCrash, KeptBoot DEF Next
<1>3. QED
  BY <1>1, <1>2, KeptSuffices, PTL DEF Spec
=============================================================================
