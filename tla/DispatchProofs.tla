---------------------------- MODULE DispatchProofs ----------------------------
(***************************************************************************)
(* Theorems about the dispatch of requests, for any number of requests,    *)
(* providers, keys, targets, ceilings and rebuilds.                        *)
(***************************************************************************)
EXTENDS Dispatch, FiniteSetTheorems, TLAPS

Labels == {"idle", "target", "keyless", "filter", "pick", "recover", "rate", "permit",
           "sent", "renew", "collect", "relay"}

\* The labels at which a request has nothing, and those at which it has a permit.
Seeking == {"idle", "target", "keyless", "filter", "pick", "recover"}
Serving == {"sent", "renew", "collect", "relay"}

\* What a request may rely on where it stands.
Sound(label, q) ==
  /\ q.table <= table
  /\ q.a <= q.budget
  /\ label \in Seeking => q.key = None
  /\ label \notin Serving => q.permit = FALSE
  /\ label = "filter" => q.todo # {}

\* Every semaphore of slots is with one that made it, and is carried as long as
\* the ceiling stands.
Carried ==
  \A k \in Keys :
    /\ \A v \in 1 .. table : slots[v][k] <= v
    /\ (\A v \in 1 .. table : ceiling[v][k] = ceiling[1][k]) =>
         \A v \in 1 .. table : slots[v][k] = 1

Typed ==
  /\ table \in Tables
  /\ ceiling \in [Tables -> [Keys -> Ceilings]]
  /\ slots \in [Tables -> [Keys -> Tables]]
  /\ free \in [Tables -> [Keys -> Nat]]
  /\ permits \in [Tables -> [Providers -> 0 .. MaxConcurrency]]
  /\ gate \in [Tables -> [Units -> {"up", "out"}]]
  /\ pc \in [Requests -> Labels]
  /\ req \in [Requests -> Request]
  /\ \A r \in Requests : req[r].t <= Len(req[r].plan)

\* All that is claimed of the variables of the code.
Base ==
  /\ Typed
  /\ Carried
  /\ \A r \in Requests : Sound(pc[r], req[r])
  /\ Conserved

IInv == Base /\ spare \in [Requests -> SUBSET Keys]

-----------------------------------------------------------------------------
(* Plans and requests *)

\* The target of a request is a provider of its plan.
LEMMA TargetType ==
  ASSUME NEW q \in Request, q.t <= Len(q.plan)
  PROVE  /\ Target(q) \in Providers
         /\ q.t \in 1 .. Len(q.plan) /\ Len(q.plan) \in Nat
<1>1. q.plan \in Seq(Providers) /\ q.t \in Nat \ {0}
  BY DispatchAssumption DEF DispatchAssumption, Request
<1>2. q.t \in 1 .. Len(q.plan) /\ Len(q.plan) \in Nat
  BY <1>1
<1>3. QED
  BY <1>1, <1>2 DEF Target

\* A request that begins has nothing.
LEMMA Begins ==
  /\ Fresh \in Request /\ Fresh.t <= Len(Fresh.plan) /\ Fresh.table = 1
  /\ Fresh.a = 0 /\ Fresh.budget = 0 /\ Fresh.key = None /\ Fresh.permit = FALSE
<1>1. PICK plan \in Plans : plan = Fresh.plan
  <2>1. (CHOOSE plan \in Plans : TRUE) \in Plans
    BY DispatchAssumption DEF DispatchAssumption
  <2>2. QED
    BY <2>1 DEF Fresh
<1>2. plan \in Seq(Providers) /\ plan # << >>
  BY DispatchAssumption DEF DispatchAssumption
<1>3. 1 <= Len(plan)
  BY <1>2
<1>4. 1 \in Tables /\ 0 \in 0 .. Cap
  BY DispatchAssumption DEF DispatchAssumption, Tables
<1>5. /\ Fresh.table = 1 /\ Fresh.t = 1 /\ Fresh.a = 0 /\ Fresh.budget = 0
      /\ Fresh.key = None /\ Fresh.permit = FALSE
  BY DEF Fresh
<1>6. Fresh \in Request
  BY <1>1, <1>4 DEF Fresh, Request
<1>7. QED
  BY <1>1, <1>3, <1>5, <1>6

\* Goto: the other requests stay where they are.
LEMMA GotoFacts ==
  ASSUME Typed, NEW r \in Requests, NEW label \in Labels, NEW q \in Request,
         q.t <= Len(q.plan), Goto(r, label, q)
  PROVE  /\ pc' \in [Requests -> Labels] /\ req' \in [Requests -> Request]
         /\ pc'[r] = label /\ req'[r] = IF label = "idle" THEN Fresh ELSE q
         /\ req'[r].t <= Len(req'[r].plan)
         /\ \A u \in Requests \ {r} : pc'[u] = pc[u] /\ req'[u] = req[u]
<1>1. PICK n \in Request : n = IF label = "idle" THEN Fresh ELSE q
  BY Begins
<1>2. n.t <= Len(n.plan)
  BY <1>1, Begins
<1>3. req' = [req EXCEPT ![r] = n] /\ pc' = [pc EXCEPT ![r] = label]
  BY <1>1 DEF Goto
<1>4. QED
  BY <1>1, <1>2, <1>3 DEF Typed

-----------------------------------------------------------------------------
(* Slots and permits *)

\* What a request does with slots: nothing, it takes one, or returns its own.
SlotMove(old, new) ==
  \/ /\ free' = free
     /\ (new.key = old.key /\ new.table = old.table) \/ {old.key, new.key} \cap Keys = {}
  \/ /\ old.key \notin Keys /\ new.key \in Keys
     /\ HasSlot(new, new.key) /\ TakeSlot(new, new.key)
  \/ /\ old.key \in Keys /\ new.key \notin Keys
     /\ free' = [free EXCEPT ![Maker(old, old.key)][old.key] = @ + 1]

\* And with the permits of the provider.
PermitMove(old, new) ==
  \/ /\ permits' = permits
     /\ \/ new.permit = old.permit /\ new.table = old.table /\ Target(new) = Target(old)
        \/ new.permit = FALSE /\ old.permit = FALSE
  \/ /\ old.permit = FALSE /\ new.permit = TRUE /\ permits[new.table][Target(new)] > 0
     /\ permits' = [permits EXCEPT ![new.table][Target(new)] = @ - 1]
  \/ /\ old.permit = TRUE /\ new.permit = FALSE
     /\ permits' = [permits EXCEPT ![old.table][Target(old)] = @ + 1]

\* Of two sets of requests that differ in one at most.
LEMMA Recount ==
  ASSUME NEW S \in SUBSET Requests, NEW T \in SUBSET Requests, NEW r \in Requests,
         \A u \in Requests \ {r} : u \in S <=> u \in T
  PROVE  /\ Cardinality(S) \in Nat /\ Cardinality(T) \in Nat
         /\ Cardinality(T) =
              Cardinality(S) + (IF r \in T THEN 1 ELSE 0) - (IF r \in S THEN 1 ELSE 0)
<1>1. IsFiniteSet(S) /\ IsFiniteSet(T)
  BY FS_Subset, DispatchAssumption DEF DispatchAssumption
<1>2. Cardinality(S) \in Nat /\ Cardinality(T) \in Nat
  BY <1>1, FS_CardinalityType
<1>3. CASE r \in S <=> r \in T
  <2>1. S = T
    BY <1>3
  <2>2. QED
    BY <1>2, <2>1
<1>4. CASE r \in S /\ r \notin T
  <2>1. T = S \ {r}
    BY <1>4
  <2>2. QED
    BY <1>1, <1>2, <1>4, <2>1, FS_RemoveElement
<1>5. CASE r \notin S /\ r \in T
  <2>1. T = S \cup {r}
    BY <1>5
  <2>2. QED
    BY <1>1, <1>2, <1>5, <2>1, FS_AddElement
<1>6. QED
  BY <1>3, <1>4, <1>5

\* A table of numbers with one entry changed.
LEMMA Entry ==
  ASSUME NEW A, NEW B, NEW f \in [A -> [B -> Nat]], NEW a \in A, NEW b \in B, NEW x \in Nat
  PROVE  LET g == [f EXCEPT ![a][b] = x] IN
           /\ g \in [A -> [B -> Nat]] /\ g[a][b] = x
           /\ \A c \in A, d \in B : c # a \/ d # b => g[c][d] = f[c][d]
OBVIOUS

\* The tables up to the one in force.
LEMMA InUse ==
  ASSUME Base
  PROVE  /\ table \in Nat \ {0} /\ 1 .. table \subseteq Tables
         /\ \A r \in Requests : req[r].table \in 1 .. table
         /\ \A v \in 1 .. table, k \in Keys : slots[v][k] \in 1 .. table
         /\ \A v \in 1 .. table, k \in Keys : free[v][k] \in Nat
         /\ \A v \in 1 .. table, p \in Providers : permits[v][p] \in Nat
<1>1. MaxRebuilds \in Nat /\ MaxConcurrency \in Nat /\ table \in 1 .. MaxRebuilds + 1
  BY DispatchAssumption DEF DispatchAssumption, Base, Typed, Tables
<1>2. table \in Nat \ {0} /\ \A v \in 1 .. table : v \in Tables
  BY <1>1 DEF Tables
<1>3. ASSUME NEW r \in Requests
      PROVE  req[r].table \in 1 .. table
  <2>1. req[r].table \in Tables /\ req[r].table <= table
    BY DEF Base, Typed, Request, Sound
  <2>2. QED
    BY <1>1, <2>1 DEF Tables
<1>4. ASSUME NEW v \in 1 .. table, NEW k \in Keys
      PROVE  slots[v][k] \in 1 .. table
  <2>1. slots[v][k] \in Tables /\ slots[v][k] <= v
    BY <1>2 DEF Base, Typed, Carried
  <2>2. QED
    BY <1>1, <2>1 DEF Tables
<1>5. \A v \in 1 .. table, k \in Keys : free[v][k] \in Nat
  BY <1>2 DEF Base, Typed
<1>6. \A v \in 1 .. table, p \in Providers : permits[v][p] \in Nat
  BY <1>1, <1>2 DEF Base, Typed
<1>7. QED
  BY <1>2, <1>3, <1>4, <1>5, <1>6

\* The slots of every key stay accounted for.
LEMMA SlotsKept ==
  ASSUME Base, NEW r \in Requests, NEW new \in Request, new.table <= table,
         req'[r] = new, \A u \in Requests \ {r} : req'[u] = req[u],
         UNCHANGED tables, SlotMove(req[r], new)
  PROVE  /\ free' \in [Tables -> [Keys -> Nat]]
         /\ \A v \in 1 .. table, k \in Keys :
              free'[v][k] + Cardinality(Carry(v, k)') = ceiling[v][k]
<1> DEFINE Carries(q, v, k) == q.key = k /\ slots[q.table][k] = v
           Count(q, v, k) == IF Carries(q, v, k) THEN 1 ELSE 0
<1>1. PICK old \in Request : old = req[r]
  BY DEF Base, Typed
<1>2. /\ old.table \in 1 .. table /\ new.table \in 1 .. table /\ table \in Nat
      /\ 1 .. table \subseteq Tables
  BY <1>1, InUse DEF Tables, Request
<1>3. \A v \in 1 .. table, k \in Keys :
        /\ slots[v][k] \in 1 .. table /\ free[v][k] \in Nat
        /\ free[v][k] + Cardinality(Carry(v, k)) = ceiling[v][k]
  BY InUse DEF Base, Conserved
<1>4. ASSUME NEW v \in 1 .. table, NEW k \in Keys
      PROVE  /\ Cardinality(Carry(v, k)) \in Nat /\ Cardinality(Carry(v, k)') \in Nat
             /\ Cardinality(Carry(v, k)') =
                  Cardinality(Carry(v, k)) + Count(new, v, k) - Count(old, v, k)
  <2>1. PICK S \in SUBSET Requests, T \in SUBSET Requests :
          S = Carry(v, k) /\ T = Carry(v, k)'
    BY DEF Carry
  <2>2. /\ \A u \in Requests : u \in S <=> Carries(req[u], v, k)
        /\ \A u \in Requests : u \in T <=> Carries(req'[u], v, k)
    BY <2>1 DEF Carry, tables
  <2>3. \A u \in Requests \ {r} : u \in S <=> u \in T
    BY <2>2
  <2>4. (r \in S <=> Carries(old, v, k)) /\ (r \in T <=> Carries(new, v, k))
    BY <1>1, <2>2
  <2> HIDE DEF Carries
  <2>5. QED
    BY <2>1, <2>3, <2>4, Recount
<1>5. /\ free' \in [Tables -> [Keys -> Nat]]
      /\ \A v \in 1 .. table, k \in Keys :
           free'[v][k] = free[v][k] - Count(new, v, k) + Count(old, v, k)
  <2>1. CASE /\ free' = free
             /\ (new.key = old.key /\ new.table = old.table) \/ {old.key, new.key} \cap Keys = {}
    <3>1. \A v \in 1 .. table, k \in Keys : Carries(new, v, k) <=> Carries(old, v, k)
      BY <2>1
    <3>2. \A v \in 1 .. table, k \in Keys : Count(new, v, k) = Count(old, v, k)
      BY <3>1
    <3>3. free' \in [Tables -> [Keys -> Nat]] /\ \A v \in 1 .. table, k \in Keys :
            free'[v][k] = free[v][k] /\ free[v][k] \in Nat /\ Count(old, v, k) \in Nat
      BY <1>3, <2>1 DEF Base, Typed
    <3> HIDE DEF Count
    <3>4. QED
      BY <3>2, <3>3
  <2>2. CASE /\ old.key \notin Keys /\ new.key \in Keys
             /\ HasSlot(new, new.key) /\ TakeSlot(new, new.key)
    <3>1. PICK k0 \in Keys, v0 \in 1 .. table : k0 = new.key /\ v0 = slots[new.table][k0]
      BY <1>2, <1>3, <2>2
    <3>2. PICK x \in Nat : x = free[v0][k0] - 1
      BY <1>3, <2>2, <3>1 DEF HasSlot, Maker
    <3>3. free' = [free EXCEPT ![v0][k0] = x]
      BY <2>2, <3>1, <3>2 DEF TakeSlot, Maker
    <3>4. /\ free' \in [Tables -> [Keys -> Nat]] /\ free'[v0][k0] = x
          /\ \A v \in 1 .. table, k \in Keys : v # v0 \/ k # k0 => free'[v][k] = free[v][k]
      BY <1>2, <3>3, Entry DEF Base, Typed
    <3>5. \A v \in 1 .. table, k \in Keys :
            ~Carries(old, v, k) /\ (Carries(new, v, k) <=> v = v0 /\ k = k0)
      BY <2>2, <3>1
    <3> HIDE DEF Carries
    <3>6. QED
      BY <1>3, <3>2, <3>4, <3>5
  <2>3. CASE /\ old.key \in Keys /\ new.key \notin Keys
             /\ free' = [free EXCEPT ![Maker(old, old.key)][old.key] = @ + 1]
    <3>1. PICK k0 \in Keys, v0 \in 1 .. table : k0 = old.key /\ v0 = slots[old.table][k0]
      BY <1>2, <1>3, <2>3
    <3>2. PICK x \in Nat : x = free[v0][k0] + 1
      BY <1>3
    <3>3. free' = [free EXCEPT ![v0][k0] = x]
      BY <2>3, <3>1, <3>2 DEF Maker
    <3>4. /\ free' \in [Tables -> [Keys -> Nat]] /\ free'[v0][k0] = x
          /\ \A v \in 1 .. table, k \in Keys : v # v0 \/ k # k0 => free'[v][k] = free[v][k]
      BY <1>2, <3>3, Entry DEF Base, Typed
    <3>5. \A v \in 1 .. table, k \in Keys :
            ~Carries(new, v, k) /\ (Carries(old, v, k) <=> v = v0 /\ k = k0)
      BY <2>3, <3>1
    <3> HIDE DEF Carries
    <3>6. QED
      BY <1>3, <3>2, <3>4, <3>5
  <2>4. QED
    BY <1>1, <2>1, <2>2, <2>3 DEF SlotMove
<1>6. ASSUME NEW v \in 1 .. table, NEW k \in Keys
      PROVE  free'[v][k] + Cardinality(Carry(v, k)') = ceiling[v][k]
  <2>1. PICK m, n : m = Cardinality(Carry(v, k)) /\ n = Cardinality(Carry(v, k)')
    OBVIOUS
  <2>2. Count(new, v, k) \in Nat /\ Count(old, v, k) \in Nat
    OBVIOUS
  <2> HIDE DEF Count
  <2>3. n = m + Count(new, v, k) - Count(old, v, k) /\ m \in Nat /\ n \in Nat
    BY <1>4, <2>1
  <2>4. free'[v][k] = free[v][k] - Count(new, v, k) + Count(old, v, k)
        /\ free[v][k] \in Nat /\ free[v][k] + m = ceiling[v][k]
    BY <1>3, <1>5, <2>1
  <2>5. free'[v][k] + n = ceiling[v][k]
    BY <2>2, <2>3, <2>4
  <2>6. QED
    BY <2>1, <2>5
<1>7. QED
  BY <1>5, <1>6
\* And the permits of every provider.
LEMMA PermitsKept ==
  ASSUME Base, NEW r \in Requests, NEW new \in Request, new.table <= table,
         new.t <= Len(new.plan),
         req'[r] = new, \A u \in Requests \ {r} : req'[u] = req[u],
         UNCHANGED tables, PermitMove(req[r], new)
  PROVE  /\ permits' \in [Tables -> [Providers -> 0 .. MaxConcurrency]]
         /\ \A v \in 1 .. table, p \in Providers :
              permits'[v][p] + Cardinality(Hold(v, p)') = MaxConcurrency
<1> DEFINE Holds(q, v, p) == q.permit = TRUE /\ q.table = v /\ Target(q) = p
           Count(q, v, p) == IF Holds(q, v, p) THEN 1 ELSE 0
<1>1. PICK old \in Request : old = req[r]
  BY DEF Base, Typed
<1>2. /\ old.table \in 1 .. table /\ new.table \in 1 .. table /\ table \in Nat
      /\ 1 .. table \subseteq Tables /\ MaxConcurrency \in Nat
  BY <1>1, InUse, DispatchAssumption DEF Tables, Request, DispatchAssumption
<1>3. \A v \in 1 .. table, p \in Providers :
        permits[v][p] \in Nat /\ permits[v][p] + Cardinality(Hold(v, p)) = MaxConcurrency
  BY InUse DEF Base, Conserved
<1>4. Target(old) \in Providers /\ Target(new) \in Providers
  BY <1>1, TargetType DEF Base, Typed
<1>5. permits \in [Tables -> [Providers -> Nat]]
  BY <1>2 DEF Base, Typed
<1>6. ASSUME NEW v \in 1 .. table, NEW p \in Providers
      PROVE  /\ Cardinality(Hold(v, p)) \in Nat /\ Cardinality(Hold(v, p)') \in Nat
             /\ Cardinality(Hold(v, p)') =
                  Cardinality(Hold(v, p)) + Count(new, v, p) - Count(old, v, p)
  <2>1. PICK S \in SUBSET Requests, T \in SUBSET Requests : S = Hold(v, p) /\ T = Hold(v, p)'
    BY DEF Hold
  <2>2. \A u \in Requests : (u \in S <=> Holds(req[u], v, p)) /\ req[u].permit \in BOOLEAN
    BY <2>1 DEF Hold, Base, Typed, Request
  <2>3. \A u \in Requests : u \in T <=> req'[u].permit /\ req'[u].table = v /\ Target(req'[u]) = p
    BY <2>1 DEF Hold, Target
  <2>4. \A u \in Requests \ {r} : u \in S <=> u \in T
    BY <2>2, <2>3
  <2>5. new.permit \in BOOLEAN
    BY DEF Request
  <2>6. (r \in S <=> Holds(old, v, p)) /\ (r \in T <=> Holds(new, v, p))
    BY <1>1, <2>2, <2>3, <2>5
  <2> HIDE DEF Holds
  <2>7. QED
    BY <2>1, <2>4, <2>6, Recount
<1>7. /\ permits' \in [Tables -> [Providers -> Nat]]
      /\ \A v \in 1 .. table, p \in Providers :
           permits'[v][p] = permits[v][p] - Count(new, v, p) + Count(old, v, p)
      /\ \A v \in Tables \ 1 .. table : permits'[v] = permits[v]
  <2>1. CASE /\ permits' = permits
             /\ \/ new.permit = old.permit /\ new.table = old.table /\ Target(new) = Target(old)
                \/ new.permit = FALSE /\ old.permit = FALSE
    <3>1. \A v \in 1 .. table, p \in Providers : Holds(new, v, p) <=> Holds(old, v, p)
      BY <2>1
    <3>2. \A v \in 1 .. table, p \in Providers : Count(new, v, p) = Count(old, v, p)
      BY <3>1
    <3>3. \A v \in 1 .. table, p \in Providers :
            permits'[v][p] = permits[v][p] /\ permits[v][p] \in Nat /\ Count(old, v, p) \in Nat
      BY <1>3, <2>1
    <3>4. permits' \in [Tables -> [Providers -> Nat]]
      BY <1>5, <2>1
    <3> HIDE DEF Count
    <3>5. QED
      BY <2>1, <3>2, <3>3, <3>4
  <2>2. CASE /\ old.permit = FALSE /\ new.permit = TRUE /\ permits[new.table][Target(new)] > 0
             /\ permits' = [permits EXCEPT ![new.table][Target(new)] = @ - 1]
    <3>1. PICK p0 \in Providers, v0 \in 1 .. table : p0 = Target(new) /\ v0 = new.table
      BY <1>2, <1>4
    <3>2. PICK x \in Nat : x = permits[v0][p0] - 1
      BY <1>3, <2>2, <3>1
    <3>3. permits' = [permits EXCEPT ![v0][p0] = x]
      BY <2>2, <3>1, <3>2
    <3>4. /\ permits' \in [Tables -> [Providers -> Nat]] /\ permits'[v0][p0] = x
          /\ \A v \in Tables, p \in Providers :
               v # v0 \/ p # p0 => permits'[v][p] = permits[v][p]
      BY <1>2, <1>5, <3>3, Entry
    <3>5. \A v \in Tables \ 1 .. table : permits'[v] = permits[v]
      BY <1>5, <3>3
    <3>6. \A v \in 1 .. table, p \in Providers :
            ~Holds(old, v, p) /\ (Holds(new, v, p) <=> v = v0 /\ p = p0)
      BY <2>2, <3>1
    <3> HIDE DEF Holds
    <3>7. ASSUME NEW v \in 1 .. table, NEW p \in Providers
          PROVE  permits'[v][p] = permits[v][p] - Count(new, v, p) + Count(old, v, p)
      <4>1. v \in Tables /\ permits[v][p] \in Nat
        BY <1>2, <1>3
      <4>2. CASE v = v0 /\ p = p0
        BY <3>2, <3>4, <3>6, <4>1, <4>2
      <4>3. CASE v # v0 \/ p # p0
        BY <3>4, <3>6, <4>1, <4>3
      <4>4. QED
        BY <4>2, <4>3
    <3>8. \A v \in Tables \ 1 .. table : permits'[v] = permits[v]
      BY <3>5
    <3> HIDE DEF Count
    <3>9. QED
      BY <3>4, <3>7, <3>8
  <2>3. CASE /\ old.permit = TRUE /\ new.permit = FALSE
             /\ permits' = [permits EXCEPT ![old.table][Target(old)] = @ + 1]
    <3>1. PICK p0 \in Providers, v0 \in 1 .. table : p0 = Target(old) /\ v0 = old.table
      BY <1>2, <1>4
    <3>2. PICK x \in Nat : x = permits[v0][p0] + 1
      BY <1>3
    <3>3. permits' = [permits EXCEPT ![v0][p0] = x]
      BY <2>3, <3>1, <3>2
    <3>4. /\ permits' \in [Tables -> [Providers -> Nat]] /\ permits'[v0][p0] = x
          /\ \A v \in Tables, p \in Providers :
               v # v0 \/ p # p0 => permits'[v][p] = permits[v][p]
      BY <1>2, <1>5, <3>3, Entry
    <3>5. \A v \in Tables \ 1 .. table : permits'[v] = permits[v]
      BY <1>5, <3>3
    <3>6. \A v \in 1 .. table, p \in Providers :
            ~Holds(new, v, p) /\ (Holds(old, v, p) <=> v = v0 /\ p = p0)
      BY <2>3, <3>1
    <3> HIDE DEF Holds
    <3>7. ASSUME NEW v \in 1 .. table, NEW p \in Providers
          PROVE  permits'[v][p] = permits[v][p] - Count(new, v, p) + Count(old, v, p)
      <4>1. v \in Tables /\ permits[v][p] \in Nat
        BY <1>2, <1>3
      <4>2. CASE v = v0 /\ p = p0
        BY <3>2, <3>4, <3>6, <4>1, <4>2
      <4>3. CASE v # v0 \/ p # p0
        BY <3>4, <3>6, <4>1, <4>3
      <4>4. QED
        BY <4>2, <4>3
    <3>8. \A v \in Tables \ 1 .. table : permits'[v] = permits[v]
      BY <3>5
    <3> HIDE DEF Count
    <3>9. QED
      BY <3>4, <3>7, <3>8
  <2>4. QED
    BY <1>1, <2>1, <2>2, <2>3 DEF PermitMove
<1>8. ASSUME NEW v \in 1 .. table, NEW p \in Providers
      PROVE  permits'[v][p] + Cardinality(Hold(v, p)') = MaxConcurrency
             /\ permits'[v][p] \in 0 .. MaxConcurrency
  <2>1. PICK m, n : m = Cardinality(Hold(v, p)) /\ n = Cardinality(Hold(v, p)')
    OBVIOUS
  <2>2. Count(new, v, p) \in Nat /\ Count(old, v, p) \in Nat
    OBVIOUS
  <2> HIDE DEF Count
  <2>3. n = m + Count(new, v, p) - Count(old, v, p) /\ m \in Nat /\ n \in Nat
    BY <1>6, <2>1
  <2>4. permits'[v][p] = permits[v][p] - Count(new, v, p) + Count(old, v, p)
        /\ permits[v][p] \in Nat /\ permits[v][p] + m = MaxConcurrency
    BY <1>3, <1>7, <2>1
  <2>5. permits'[v][p] \in Nat
    BY <1>2, <1>7
  <2>6. permits'[v][p] + n = MaxConcurrency
    BY <2>2, <2>3, <2>4
  <2>7. permits'[v][p] \in 0 .. MaxConcurrency
    BY <1>2, <2>3, <2>5, <2>6
  <2>8. QED
    BY <2>1, <2>6, <2>7
<1>9. permits' \in [Tables -> [Providers -> 0 .. MaxConcurrency]]
  <2>1. ASSUME NEW v \in Tables
        PROVE  permits'[v] \in [Providers -> 0 .. MaxConcurrency]
    <3>1. CASE v \in 1 .. table
      BY <1>7, <1>8, <3>1
    <3>2. CASE v \notin 1 .. table
      BY <1>7, <3>2 DEF Base, Typed
    <3>3. QED
      BY <3>1, <3>2
  <2>2. QED
    BY <1>7, <2>1
<1>10. QED
  BY <1>8, <1>9
-----------------------------------------------------------------------------
(* What the steps of a request have in common *)

Gates == [Tables -> [Units -> {"up", "out"}]]

\* A step of one request, which takes and returns no more than its own.
LEMMA Moved ==
  ASSUME Base, NEW r \in Requests, NEW label \in Labels, NEW q \in Request,
         q.t <= Len(q.plan), Goto(r, label, q), UNCHANGED tables, gate' \in Gates,
         NEW new \in Request, new = IF label = "idle" THEN Fresh ELSE q,
         Sound(label, new), SlotMove(req[r], new), PermitMove(req[r], new)
  PROVE  Base'
<1>1. /\ pc' \in [Requests -> Labels] /\ req' \in [Requests -> Request]
      /\ pc'[r] = label /\ req'[r] = new /\ req'[r].t <= Len(req'[r].plan)
      /\ \A u \in Requests \ {r} : pc'[u] = pc[u] /\ req'[u] = req[u]
  BY GotoFacts DEF Base
<1>2. new.table <= table /\ new.t <= Len(new.plan)
  BY <1>1 DEF Sound
<1>3. /\ free' \in [Tables -> [Keys -> Nat]]
      /\ \A v \in 1 .. table, k \in Keys :
           free'[v][k] + Cardinality(Carry(v, k)') = ceiling[v][k]
  BY <1>1, <1>2, SlotsKept
<1>4. /\ permits' \in [Tables -> [Providers -> 0 .. MaxConcurrency]]
      /\ \A v \in 1 .. table, p \in Providers :
           permits'[v][p] + Cardinality(Hold(v, p)') = MaxConcurrency
  BY <1>1, <1>2, PermitsKept
<1>5. table' = table /\ ceiling' = ceiling /\ slots' = slots
  BY DEF tables
<1>6. Typed'
  BY <1>1, <1>3, <1>4, <1>5 DEF Base, Typed, Gates
<1>7. Carried'
  BY <1>5 DEF Base, Carried
<1>8. ASSUME NEW u \in Requests
      PROVE  Sound(pc[u], req[u])'
  BY <1>1, <1>5 DEF Base, Sound
<1>9. Conserved'
  BY <1>3, <1>4, <1>5 DEF Conserved
<1>10. QED
  BY <1>6, <1>7, <1>8, <1>9 DEF Base

\* A request that has nothing.
Bare(label, n) ==
  /\ n \in Request /\ (label = "filter" => n.todo # {})
  /\ n.t <= Len(n.plan) /\ n.table <= table /\ n.a <= n.budget
  /\ n.key = None /\ n.permit = FALSE

\* A request that has given back what it had, or had nothing, seeks on.
LEMMA Dropped ==
  ASSUME Base, NEW r \in Requests, NEW label \in Seeking, NEW n, Bare(label, n), Goto(r, label, n),
         UNCHANGED tables, gate' \in Gates,
         \/ Release(req[r])
         \/ req[r].key \notin Keys /\ req[r].permit = FALSE /\ UNCHANGED room
  PROVE  Base'
<1>1. table \in Nat \ {0} /\ None \notin Keys
  BY InUse, DispatchAssumption DEF DispatchAssumption, None
<1>2. PICK new \in Request : new = IF label = "idle" THEN Fresh ELSE n
  BY Begins DEF Bare
<1>3. /\ new.table <= table /\ new.a <= new.budget /\ new.key = None /\ new.permit = FALSE
      /\ label \in Labels /\ n \in Request /\ n.t <= Len(n.plan)
      /\ label = "filter" => new.todo # {}
  BY <1>1, <1>2, Begins DEF Bare, Seeking, Labels
<1>4. Sound(label, new)
  BY <1>3 DEF Sound, Seeking, Serving
<1>5. req[r].permit \in BOOLEAN
  BY DEF Base, Typed, Request
<1>6. SlotMove(req[r], new)
  BY <1>1, <1>3 DEF SlotMove, Release, room
<1>7. PermitMove(req[r], new)
  BY <1>3, <1>5 DEF PermitMove, Release, room
<1>8. QED
  BY <1>2, <1>3, <1>4, <1>6, <1>7, Moved

\* A request that goes on with what it has, or goes and keeps its place.
LEMMA Keeps ==
  ASSUME Base, NEW r \in Requests, NEW label \in Labels \ {"idle"}, Goto(r, label, req[r]),
         Sound(label, req[r]), UNCHANGED <<tables, room>>, gate' \in Gates
  PROVE  Base'
<1>1. req[r] \in Request /\ req[r].t <= Len(req[r].plan)
  BY DEF Base, Typed
<1>2. SlotMove(req[r], req[r]) /\ PermitMove(req[r], req[r])
  BY DEF SlotMove, PermitMove, room
<1>3. QED
  BY <1>1, <1>2, Moved

\* Empty: what is left of a request that gives up its key.
LEMMA Emptied ==
  ASSUME NEW q \in Request, q.t <= Len(q.plan), q.table <= table, q.a <= q.budget
  PROVE  Bare("target", Empty(q)) /\ Empty(q).t = q.t /\ Empty(q).plan = q.plan
         /\ Empty(q).a = q.a /\ Empty(q).budget = q.budget /\ Empty(q).table = q.table
BY DEF Empty, Bare, Request

\* Attempt: the next look at the keys of a target.
LEMMA Attempts ==
  ASSUME Typed, NEW r \in Requests, NEW q, Bare("target", q), q.a < q.budget, Attempt(r, q)
  PROVE  \E label \in Seeking, n \in Request : Bare(label, n) /\ Goto(r, label, n)
<1> DEFINE n == [q EXCEPT !.a = @ + 1, !.todo = Pool[Target(q)]]
           label == IF Pool[Target(q)] = {} THEN "keyless" ELSE "filter"
<1>1. q \in Request /\ Target(q) \in Providers
  BY TargetType DEF Bare
<1>2. Pool[Target(q)] \in SUBSET Keys /\ q.a + 1 \in 0 .. Cap /\ q.a + 1 <= q.budget
  BY <1>1, DispatchAssumption DEF DispatchAssumption, Request
<1>3. Bare(label, n)
  BY <1>1, <1>2 DEF Bare, Request
<1>4. Goto(r, label, n) /\ label \in Seeking
  BY DEF Attempt, Seeking
<1> HIDE DEF n, label
<1>5. QED
  BY <1>3, <1>4 DEF Bare

\* NextTarget: the target after it, or the end.
LEMMA NextTargets ==
  ASSUME Base, NEW r \in Requests, NEW q \in Request, q.t <= Len(q.plan), q.table <= table,
         q.a <= q.budget, NextTarget(r, q)
  PROVE  \E label \in Seeking, n \in Request : Bare(label, n) /\ Goto(r, label, n)
<1>1. CASE q.t = Len(q.plan)
  <2>1. Bare("idle", Fresh)
    BY Begins, InUse DEF Bare
  <2>2. Goto(r, "idle", Fresh) /\ "idle" \in Seeking
    BY <1>1 DEF NextTarget, Seeking
  <2>3. QED
    BY <2>1, <2>2 DEF Bare
<1>2. CASE q.t # Len(q.plan)
  <2>1. q.t + 1 \in Nat \ {0} /\ q.t + 1 <= Len(q.plan)
    BY <1>2, TargetType
  <2>2. Bare("target", [Empty(q) EXCEPT !.t = q.t + 1])
    BY <2>1, Emptied DEF Bare, Request
  <2>3. Goto(r, "target", [Empty(q) EXCEPT !.t = q.t + 1]) /\ "target" \in Seeking
    BY <1>2 DEF NextTarget, Seeking
  <2>4. PICK n \in Request : n = [Empty(q) EXCEPT !.t = q.t + 1]
    BY <2>2 DEF Bare
  <2>5. QED
    BY <2>2, <2>3, <2>4
<1>3. QED
  BY <1>1, <1>2

\* NextAttempt: as long as the budget allows.
LEMMA NextAttempts ==
  ASSUME Base, NEW r \in Requests, NextAttempt(r, req[r])
  PROVE  \E label \in Seeking, n \in Request : Bare(label, n) /\ Goto(r, label, n)
<1>1. /\ req[r] \in Request /\ req[r].t <= Len(req[r].plan)
      /\ req[r].table <= table /\ req[r].a <= req[r].budget
  BY DEF Base, Typed, Sound
<1>2. CASE req[r].a = req[r].budget
  BY <1>1, <1>2, NextTargets DEF NextAttempt
<1>3. CASE req[r].a # req[r].budget
  <2>1. req[r].a < req[r].budget
    BY <1>1, <1>3 DEF Request
  <2>2. Bare("target", Empty(req[r])) /\ Empty(req[r]).a < Empty(req[r]).budget
    BY <1>1, <2>1, Emptied
  <2>3. Attempt(r, Empty(req[r]))
    BY <1>3 DEF NextAttempt
  <2>4. QED
    BY <2>2, <2>3, Attempts DEF Base
<1>4. QED
  BY <1>2, <1>3
\* A request as it stands.
LEMMA Stands ==
  ASSUME Base, NEW r \in Requests
  PROVE  /\ req[r] \in Request /\ req[r].t <= Len(req[r].plan)
         /\ Sound(pc[r], req[r]) /\ Target(req[r]) \in Providers
         /\ gate \in Gates /\ None \notin Keys
         /\ pc[r] \in Seeking => req[r].key \notin Keys /\ req[r].permit = FALSE
<1>1. req[r] \in Request /\ req[r].t <= Len(req[r].plan) /\ Sound(pc[r], req[r]) /\ gate \in Gates
  BY DEF Base, Typed, Gates
<1>2. None \notin Keys
  BY DispatchAssumption DEF DispatchAssumption, None
<1>3. QED
  BY <1>1, <1>2, TargetType DEF Sound, Seeking, Serving

\* A request takes a slot, and may have to ask for its rate.
LEMMA Takes ==
  ASSUME Base, NEW r \in Requests, pc[r] \in Seeking, NEW label \in {"rate", "permit"},
         NEW n \in Request, n.t <= Len(n.plan), n.table <= table, n.a <= n.budget,
         n.permit = FALSE, n.key \in Keys, HasSlot(n, n.key), TakeSlot(n, n.key),
         Goto(r, label, n), UNCHANGED <<tables, permits, gate>>
  PROVE  Base'
<1>1. label \in Labels \ {"idle"} /\ label \notin Seeking \cup Serving /\ gate' \in Gates
  BY Stands DEF Labels, Seeking, Serving
<1>2. Sound(label, n)
  BY <1>1 DEF Sound, Seeking
<1>3. SlotMove(req[r], n) /\ PermitMove(req[r], n)
  BY Stands DEF SlotMove, PermitMove
<1>4. QED
  BY <1>1, <1>2, <1>3, Moved

-----------------------------------------------------------------------------
(* run_chat *)

\* Plan: a request begins by the table in force.
LEMMA PlanStep == ASSUME Base, NEW r \in Requests, Plan(r) PROVE Base'
<1>1. PICK plan \in Plans :
        /\ pc[r] = "idle"
        /\ Goto(r, "target", [Fresh EXCEPT !.table = table, !.plan = plan])
        /\ UNCHANGED <<tables, room, gate>>
  BY DEF Plan
<1>2. plan \in Seq(Providers) /\ plan # << >>
  BY DispatchAssumption DEF DispatchAssumption
<1>3. Len(plan) \in Nat /\ 1 <= Len(plan)
  BY <1>2
<1>4. table \in Tables /\ table \in Nat /\ Fresh \in Request /\ Fresh.t = 1
  BY InUse, Begins DEF Base, Typed, Fresh
<1>5. Bare("target", [Fresh EXCEPT !.table = table, !.plan = plan])
  <2> DEFINE n == [Fresh EXCEPT !.table = table, !.plan = plan]
  <2>1. n \in Request
    BY <1>4 DEF Request
  <2>2. /\ n.t = 1 /\ n.plan = plan /\ n.table = table /\ n.key = Fresh.key
        /\ n.permit = Fresh.permit /\ n.a = Fresh.a /\ n.budget = Fresh.budget
    BY <1>4 DEF Request
  <2> HIDE DEF n
  <2>3. Bare("target", n)
    BY <1>3, <1>4, <2>1, <2>2, Begins DEF Bare
  <2>4. QED
    BY <2>3 DEF n
<1>6. "target" \in Seeking /\ pc[r] \in Seeking
  BY <1>1 DEF Seeking
<1>7. QED
  BY <1>1, <1>5, <1>6, Dropped, Stands

\* attempt_budget: once at least, and no more than the cap.
LEMMA BudgetBounds ==
  ASSUME NEW q \in Request, q.t <= Len(q.plan)
  PROVE  AttemptBudget(q) \in 1 .. Cap
<1> DEFINE usable == Cardinality(Pool[Target(q)] \cap Up(q.table))
<1>1. usable \in Nat
  <2>1. Pool[Target(q)] \cap Up(q.table) \subseteq Keys /\ IsFiniteSet(Keys)
    BY TargetType, DispatchAssumption DEF DispatchAssumption
  <2>2. QED
    BY <2>1, FS_Subset, FS_CardinalityType
<1>2. AttemptBudget(q) = Smaller(Cap, Larger(MaxAttempts, Larger(1, usable)))
  BY DEF AttemptBudget
<1>3. Cap \in Nat \ {0} /\ MaxAttempts \in Nat
  BY DispatchAssumption DEF DispatchAssumption
<1> HIDE DEF usable
<1>4. QED
  BY <1>1, <1>2, <1>3 DEF Smaller, Larger

\* Begin: the first attempt on a target.
LEMMA BeginStep == ASSUME Base, NEW r \in Requests, Begin(r) PROVE Base'
<1> DEFINE q == [req[r] EXCEPT !.a = 0, !.budget = AttemptBudget(req[r])]
<1>1. pc[r] = "target" /\ Attempt(r, q) /\ UNCHANGED <<tables, room, gate>>
  BY DEF Begin
<1>2. /\ req[r] \in Request /\ req[r].t <= Len(req[r].plan) /\ req[r].table <= table
      /\ req[r].key = None /\ req[r].permit = FALSE /\ pc[r] \in Seeking
  BY <1>1, Stands DEF Sound, Seeking, Serving
<1>3. AttemptBudget(req[r]) \in 1 .. Cap /\ Cap \in Nat
  BY <1>2, BudgetBounds, DispatchAssumption DEF DispatchAssumption
<1>4. Bare("target", q) /\ q.a < q.budget
  <2>1. q \in Request
    <3>1. PICK b \in 0 .. Cap : b = AttemptBudget(req[r])
      BY <1>3
    <3>2. 0 \in 0 .. Cap
      BY <1>3
    <3>3. [req[r] EXCEPT !.a = 0, !.budget = b] \in Request
      BY <1>2, <3>2 DEF Request
    <3>4. QED
      BY <3>1, <3>3
  <2>2. /\ q.t = req[r].t /\ q.plan = req[r].plan /\ q.table = req[r].table
        /\ q.key = req[r].key /\ q.permit = req[r].permit
        /\ q.a = 0 /\ q.budget = AttemptBudget(req[r])
    BY <1>2 DEF Request
  <2> HIDE DEF q
  <2>3. QED
    BY <1>2, <1>3, <2>1, <2>2 DEF Bare
<1> HIDE DEF q
<1>5. PICK label \in Seeking, n \in Request : Bare(label, n) /\ Goto(r, label, n)
  BY <1>1, <1>4, Attempts DEF Base
<1>6. QED
  BY <1>1, <1>2, <1>5, Dropped, Stands

-----------------------------------------------------------------------------
(* admit_for *)

\* A request that has nothing changes only what it remembers of the keys.
LEMMA Looks ==
  ASSUME Base, NEW r \in Requests, pc[r] \in Seeking, NEW label \in Seeking, NEW n \in Request,
         label = "filter" => n.todo # {}, n.t = req[r].t, n.plan = req[r].plan,
         n.table = req[r].table, n.a = req[r].a, n.budget = req[r].budget, n.key = req[r].key,
         n.permit = req[r].permit, Goto(r, label, n), UNCHANGED <<tables, room, gate>>
  PROVE  Base'
<1>1. Bare(label, n)
  BY Stands DEF Bare, Sound, Seeking, Serving
<1>2. QED
  BY <1>1, Dropped, Stands

\* A target is left with nothing.
LEMMA Leaves ==
  ASSUME Base, NEW r \in Requests, NextTarget(r, req[r]), UNCHANGED tables, gate' \in Gates,
         \/ Release(req[r])
         \/ pc[r] \in Seeking /\ UNCHANGED room
  PROVE  Base'
<1>1. /\ req[r] \in Request /\ req[r].t <= Len(req[r].plan)
      /\ req[r].table <= table /\ req[r].a <= req[r].budget
  BY Stands DEF Sound
<1>2. PICK label \in Seeking, n \in Request : Bare(label, n) /\ Goto(r, label, n)
  BY <1>1, NextTargets
<1>3. QED
  BY <1>2, Dropped, Stands

\* AdmitKeyless: there are no slots to take.
LEMMA KeylessStep == ASSUME Base, NEW r \in Requests, AdmitKeyless(r) PROVE Base'
<1> DEFINE p == Target(req[r])
           n == [[req[r] EXCEPT !.key = p] EXCEPT !.todo = {}, !.healthy = {}, !.back = "pick"]
<1>1. /\ pc[r] = "keyless" /\ UNCHANGED <<tables, room, gate>>
      /\ Goto(r, "permit", n) \/ NextTarget(r, req[r])
  BY DEF AdmitKeyless, Admit
<1>2. pc[r] \in Seeking /\ gate' \in Gates
  BY <1>1, Stands DEF Seeking
<1>3. CASE NextTarget(r, req[r])
  BY <1>1, <1>2, <1>3, Leaves
<1>4. CASE Goto(r, "permit", n)
  <2>1. req[r] \in Request /\ p \in Providers /\ Sound(pc[r], req[r]) /\ req[r].permit = FALSE
        /\ req[r].key \notin Keys
    BY <1>2, Stands
  <2>2. /\ n \in Request /\ n.key = p /\ n.permit = FALSE /\ n.table = req[r].table
        /\ n.a = req[r].a /\ n.budget = req[r].budget /\ n.t = req[r].t /\ n.plan = req[r].plan
    BY <2>1 DEF Request, Units
  <2>3. p \notin Keys
    BY <2>1, DispatchAssumption DEF DispatchAssumption
  <2> HIDE DEF n, p
  <2>4. "permit" \in Labels \ {"idle"} /\ "permit" \notin Seeking
    BY DEF Labels, Seeking
  <2>5. Sound("permit", n)
    BY <2>1, <2>2, <2>4 DEF Sound
  <2>6. SlotMove(req[r], n) /\ PermitMove(req[r], n)
    BY <1>1, <2>1, <2>2, <2>3 DEF SlotMove, PermitMove, room
  <2>7. n.t <= Len(n.plan)
    BY <2>2, Stands
  <2>8. QED
    BY <1>1, <1>2, <1>4, <2>2, <2>4, <2>5, <2>6, <2>7, Moved
<1>5. QED
  BY <1>1, <1>3, <1>4

\* Filter: the keys of the pool, one after the other.
LEMMA FilterStep == ASSUME Base, NEW r \in Requests, Filter(r) PROVE Base'
<1>1. pc[r] = "filter" /\ pc[r] \in Seeking /\ UNCHANGED <<tables, room, gate>>
  BY DEF Filter, Seeking
<1>2. req[r] \in Request /\ req[r].todo # {}
  BY <1>1, Stands DEF Sound
<1>3. PICK k \in req[r].todo : k = CHOOSE key \in req[r].todo : TRUE
  BY <1>2
<1> DEFINE rest == req[r].todo \ {k}
           n == [req[r] EXCEPT !.todo = rest,
                               !.healthy = @ \cup ({k} \cap Up(req[r].table))]
           label == IF rest = {} THEN "pick" ELSE "filter"
<1>4. Goto(r, label, n)
  BY <1>3 DEF Filter
<1>5. n \in Request
  BY <1>2 DEF Request
<1>6. label \in Seeking /\ (label = "filter" => n.todo # {})
  BY <1>2 DEF Seeking, Request
<1>7. QED
  BY <1>1, <1>2, <1>4, <1>5, <1>6, Looks DEF Request

\* Reserve: a slot is taken if there is one.
LEMMA Reserves ==
  ASSUME Base, NEW r \in Requests, pc[r] \in Seeking, NEW k \in Keys, NEW q \in Request,
         q.t = req[r].t, q.plan = req[r].plan, q.table = req[r].table, q.a = req[r].a,
         q.budget = req[r].budget, q.key = req[r].key, q.permit = req[r].permit,
         Reserve(r, k, q), UNCHANGED <<tables, permits, gate>>
  PROVE  Base'
<1>1. /\ q.t <= Len(q.plan) /\ q.table <= table /\ q.a <= q.budget
      /\ q.permit = FALSE /\ q.back \in {"pick", "recover"}
  BY Stands DEF Sound, Request
<1>2. CASE HasSlot(q, k)
  <2>1. TakeSlot(q, k)
    BY <1>2 DEF Reserve
  <2>2. PICK label \in {"rate", "permit"}, n \in Request :
          /\ Goto(r, label, n) /\ n.key = k /\ n.table = q.table /\ n.permit = q.permit
          /\ n.t = q.t /\ n.plan = q.plan /\ n.a = q.a /\ n.budget = q.budget
    <3>1. CASE k \in Rated
      <4> DEFINE n == [q EXCEPT !.key = k]
      <4>1. Goto(r, "rate", n)
        BY <1>2, <3>1 DEF Reserve
      <4>2. /\ n \in Request /\ n.key = k /\ n.table = q.table /\ n.permit = q.permit
            /\ n.t = q.t /\ n.plan = q.plan /\ n.a = q.a /\ n.budget = q.budget
        BY DEF Request, Units
      <4> HIDE DEF n
      <4>3. QED
        BY <4>1, <4>2
    <3>2. CASE k \notin Rated
      <4> DEFINE n == [[q EXCEPT !.key = k] EXCEPT !.todo = {}, !.healthy = {}, !.back = "pick"]
      <4>1. Goto(r, "permit", n)
        BY <1>2, <3>2 DEF Reserve, Admit
      <4>2. /\ n \in Request /\ n.key = k /\ n.table = q.table /\ n.permit = q.permit
            /\ n.t = q.t /\ n.plan = q.plan /\ n.a = q.a /\ n.budget = q.budget
        BY DEF Request, Units
      <4> HIDE DEF n
      <4>3. QED
        BY <4>1, <4>2
    <3>3. QED
      BY <3>1, <3>2
  <2>3. HasSlot(n, k) /\ TakeSlot(n, k)
    BY <1>2, <2>1, <2>2 DEF HasSlot, TakeSlot, Maker
  <2>4. QED
    BY <1>1, <2>2, <2>3, Takes
<1>3. CASE ~HasSlot(q, k)
  <2>1. free' = free /\ Goto(r, q.back, q) /\ q.back \in Seeking /\ q.back # "filter"
    BY <1>1, <1>3 DEF Reserve, Seeking
  <2>2. QED
    BY <2>1, Looks DEF room
<1>4. QED
  BY <1>2, <1>3

\* Pick: a healthy key, or all of them again.
LEMMA PickStep == ASSUME Base, NEW r \in Requests, Pick(r) PROVE Base'
<1>1. pc[r] \in Seeking /\ UNCHANGED <<tables, permits, gate>> /\ req[r] \in Request
  BY Stands DEF Pick, Seeking
<1>2. CASE req[r].healthy = {}
  <2>1. free' = free /\ Goto(r, "recover", [req[r] EXCEPT !.todo = Pool[Target(req[r])]])
    BY <1>2 DEF Pick
  <2>2. Pool[Target(req[r])] \in SUBSET Keys
    BY Stands, DispatchAssumption DEF DispatchAssumption
  <2>3. [req[r] EXCEPT !.todo = Pool[Target(req[r])]] \in Request /\ "recover" \in Seeking
    BY <1>1, <2>2 DEF Request, Seeking
  <2>4. QED
    BY <1>1, <2>1, <2>3, Looks DEF room, Request
<1>3. CASE req[r].healthy # {}
  <2>1. PICK k \in req[r].healthy :
          Reserve(r, k, [req[r] EXCEPT !.healthy = @ \ {k}, !.back = "pick"])
    BY <1>3 DEF Pick
  <2>2. k \in Keys /\ [req[r] EXCEPT !.healthy = @ \ {k}, !.back = "pick"] \in Request
    BY <1>1 DEF Request
  <2>3. QED
    BY <1>1, <2>1, <2>2, Reserves DEF Request
<1>4. QED
  BY <1>2, <1>3

\* Recover: a key that came up since, or a probe.
LEMMA RecoverStep == ASSUME Base, NEW r \in Requests, Recover(r) PROVE Base'
<1>1. pc[r] \in Seeking /\ UNCHANGED <<tables, permits, gate>> /\ req[r] \in Request
  BY Stands DEF Recover, Seeking
<1>2. PICK k \in req[r].todo :
        \/ Reserve(r, k, Without(req[r], k))
        \/ UNCHANGED free /\ Goto(r, "recover", Without(req[r], k))
        \/ HasSlot(req[r], k) /\ TakeSlot(req[r], k) /\ Admit(r, [req[r] EXCEPT !.key = k])
  BY DEF Recover, Probe
<1>3. k \in Keys /\ Without(req[r], k) \in Request /\ "recover" \in Seeking
  BY <1>1 DEF Without, Request, Seeking
<1>4. CASE Reserve(r, k, Without(req[r], k))
  BY <1>1, <1>3, <1>4, Reserves DEF Without, Request
<1>5. CASE UNCHANGED free /\ Goto(r, "recover", Without(req[r], k))
  BY <1>1, <1>3, <1>5, Looks DEF Without, Request, room
<1>6. CASE HasSlot(req[r], k) /\ TakeSlot(req[r], k) /\ Admit(r, [req[r] EXCEPT !.key = k])
  <2> DEFINE n == [[req[r] EXCEPT !.key = k] EXCEPT !.todo = {}, !.healthy = {}, !.back = "pick"]
  <2>1. Goto(r, "permit", n)
    BY <1>6 DEF Admit
  <2>2. /\ n \in Request /\ n.key = k /\ n.permit = req[r].permit /\ n.table = req[r].table
        /\ n.a = req[r].a /\ n.budget = req[r].budget /\ n.t = req[r].t /\ n.plan = req[r].plan
    BY <1>1, <1>3 DEF Request, Units
  <2> HIDE DEF n
  <2>3. HasSlot(n, k) /\ TakeSlot(n, k)
    BY <1>6, <2>2 DEF HasSlot, TakeSlot, Maker
  <2>4. n.t <= Len(n.plan) /\ n.table <= table /\ n.a <= n.budget /\ n.permit = FALSE
    BY <1>1, <2>2, Stands DEF Sound
  <2>5. QED
    BY <1>1, <1>3, <2>1, <2>2, <2>3, <2>4, Takes
<1>7. QED
  BY <1>2, <1>4, <1>5, <1>6
\* PoolEmpty: no key was admitted.
LEMMA PoolEmptyStep == ASSUME Base, NEW r \in Requests, PoolEmpty(r) PROVE Base'
<1>1. /\ pc[r] \in Seeking /\ NextTarget(r, req[r]) /\ gate' = gate
      /\ UNCHANGED <<tables, room>>
  BY DEF PoolEmpty, Seeking
<1>2. QED
  BY <1>1, Leaves, Stands

\* Rate: the slot is kept, or given back.
LEMMA RateStep == ASSUME Base, NEW r \in Requests, Rate(r) PROVE Base'
<1>1. /\ pc[r] = "rate" /\ UNCHANGED <<tables, gate>>
      /\ req[r] \in Request /\ req[r].t <= Len(req[r].plan) /\ Sound("rate", req[r])
      /\ gate' \in Gates
  BY Stands DEF Rate
<1>2. req[r].permit = FALSE /\ req[r].table <= table /\ req[r].a <= req[r].budget
  BY <1>1 DEF Sound, Serving
<1>3. CASE Admit(r, req[r]) /\ UNCHANGED room
  <2> DEFINE n == [req[r] EXCEPT !.todo = {}, !.healthy = {}, !.back = "pick"]
  <2>1. Goto(r, "permit", n)
    BY <1>3 DEF Admit
  <2>2. /\ n \in Request /\ n.key = req[r].key /\ n.permit = req[r].permit
        /\ n.table = req[r].table /\ n.a = req[r].a /\ n.budget = req[r].budget
        /\ n.t = req[r].t /\ n.plan = req[r].plan
    BY <1>1 DEF Request
  <2> HIDE DEF n
  <2>3. "permit" \in Labels \ {"idle"} /\ Sound("permit", n)
    BY <1>2, <2>2 DEF Labels, Sound, Seeking
  <2>4. SlotMove(req[r], n) /\ PermitMove(req[r], n)
    BY <1>2, <1>3, <2>2 DEF SlotMove, PermitMove, room
  <2>5. n.t <= Len(n.plan)
    BY <1>1, <2>2
  <2>6. QED
    BY <1>1, <2>1, <2>2, <2>3, <2>4, <2>5, Moved
<1>4. CASE Goto(r, req[r].back, [req[r] EXCEPT !.key = None]) /\ Release(req[r])
  <2> DEFINE n == [req[r] EXCEPT !.key = None]
  <2>1. /\ n \in Request /\ n.key = None /\ n.permit = req[r].permit
        /\ n.table = req[r].table /\ n.a = req[r].a /\ n.budget = req[r].budget
        /\ n.t = req[r].t /\ n.plan = req[r].plan
    BY <1>1 DEF Request
  <2>2. Goto(r, req[r].back, n)
    BY <1>4
  <2> HIDE DEF n
  <2>3. req[r].back \in Seeking /\ req[r].back # "filter"
    BY <1>1 DEF Request, Seeking
  <2>4. Bare(req[r].back, n)
    BY <1>1, <1>2, <2>1, <2>3 DEF Bare
  <2>5. QED
    BY <1>1, <1>4, <2>2, <2>3, <2>4, Dropped
<1>5. QED
  BY <1>3, <1>4 DEF Rate

\* Permit: the permit of the provider comes last.
LEMMA PermitStep == ASSUME Base, NEW r \in Requests, Permit(r) PROVE Base'
<1> DEFINE q == req[r]
           n == [q EXCEPT !.permit = TRUE]
<1>1. /\ pc[r] = "permit" /\ UNCHANGED <<tables, gate>> /\ gate' \in Gates
      /\ q \in Request /\ q.t <= Len(q.plan) /\ Sound("permit", q)
  BY Stands DEF Permit
<1>2. q.permit = FALSE /\ q.table <= table /\ q.a <= q.budget
  BY <1>1 DEF Sound, Serving
<1>3. CASE permits[q.table][Target(q)] > 0
  <2>1. /\ permits' = [permits EXCEPT ![q.table][Target(q)] = @ - 1]
        /\ Goto(r, "sent", n) /\ free' = free
    BY <1>3 DEF Permit
  <2>2. /\ n \in Request /\ n.key = q.key /\ n.table = q.table /\ n.a = q.a
        /\ n.budget = q.budget /\ n.t = q.t /\ n.plan = q.plan
    BY <1>1 DEF Request
  <2>3. n.permit = TRUE
    BY <1>1 DEF Request
  <2>4. Target(n) = Target(q)
    BY <2>2 DEF Target
  <2> HIDE DEF n
  <2>5. "sent" \in Labels \ {"idle"} /\ Sound("sent", n)
    BY <1>2, <2>2 DEF Labels, Sound, Seeking, Serving
  <2>6. SlotMove(q, n)
    BY <2>1, <2>2 DEF SlotMove
  <2>7. PermitMove(q, n)
    BY <1>2, <1>3, <2>1, <2>2, <2>3, <2>4 DEF PermitMove
  <2>8. n.t <= Len(n.plan)
    BY <1>1, <2>2
  <2>9. QED
    BY <1>1, <2>1, <2>2, <2>5, <2>6, <2>7, <2>8, Moved
<1>4. CASE ~(permits[q.table][Target(q)] > 0)
  <2>1. Release(q) /\ NextTarget(r, q)
    BY <1>4 DEF Permit
  <2>2. QED
    BY <1>1, <2>1, Leaves
<1>5. QED
  BY <1>3, <1>4

-----------------------------------------------------------------------------
(* attempt *)

\* What an answer does to a breaker.
LEMMA Reported ==
  ASSUME Base, NEW q, Succeed(q) \/ Fault(q) \/ UNCHANGED gate
  PROVE  gate' \in Gates
<1>1. gate \in Gates
  BY DEF Base, Typed, Gates
<1>2. ASSUME NEW x \in {"up", "out"}
      PROVE  [gate EXCEPT ![q.table][q.key] = x] \in Gates
  <2>1. CASE q.table \in Tables
    <3>1. [gate[q.table] EXCEPT ![q.key] = x] \in [Units -> {"up", "out"}]
      BY <1>1, <2>1 DEF Gates
    <3>2. QED
      BY <1>1, <2>1, <3>1 DEF Gates
  <2>2. CASE q.table \notin Tables
    BY <1>1, <2>2 DEF Gates
  <2>3. QED
    BY <2>1, <2>2
<1>3. QED
  BY <1>1, <1>2 DEF Succeed, Fault

\* Retry: the permits were the attempt's.
LEMMA Retries ==
  ASSUME Base, NEW r \in Requests, Release(req[r]), NextAttempt(r, req[r]),
         UNCHANGED tables, gate' \in Gates
  PROVE  Base'
<1>1. PICK label \in Seeking, n \in Request : Bare(label, n) /\ Goto(r, label, n)
  BY NextAttempts
<1>2. QED
  BY <1>1, Dropped

\* A request ends.
LEMMA Ends ==
  ASSUME Base, NEW r \in Requests, Release(req[r]), Goto(r, "idle", Fresh),
         UNCHANGED tables, gate' \in Gates
  PROVE  Base'
<1>1. "idle" \in Seeking /\ Bare("idle", Fresh)
  BY Begins, InUse DEF Seeking, Bare
<1>2. QED
  BY <1>1, Dropped

\* A request in service goes on with its slot and its permit.
LEMMA Serves ==
  ASSUME Base, NEW r \in Requests, pc[r] \in Serving, NEW label \in Serving,
         Goto(r, label, req[r]), UNCHANGED <<tables, room>>, gate' \in Gates
  PROVE  Base'
<1>1. label \in Labels \ {"idle"} /\ label # "filter" /\ label \notin Seeking
  BY DEF Labels, Serving, Seeking
<1>2. Sound(label, req[r])
  BY <1>1, Stands DEF Sound
<1>3. QED
  BY <1>1, <1>2, Keeps

\* attempt: an answer, whatever it is.
LEMMA AttemptStep == ASSUME Base, NEW r \in Requests, attempt(r) PROVE Base'
<1>1. "relay" \in Serving /\ "collect" \in Serving /\ "renew" \in Serving /\ "sent" \in Serving
  BY DEF Serving
<1>2. CASE Unreachable(r)
  BY <1>2, Reported, Retries DEF Unreachable, Retry
<1>3. CASE Served(r)
  BY <1>1, <1>3, Reported, Serves DEF Served, Relay
<1>4. CASE Throttled(r)
  BY <1>1, <1>4, Reported, Serves, Retries DEF Throttled, Relay, Retry
<1>5. CASE Denied(r)
  BY <1>1, <1>5, Reported, Serves DEF Denied
<1>6. CASE Renew(r)
  BY <1>1, <1>6, Reported, Serves, Retries DEF Renew, Relay, Retry
<1>7. CASE Collect(r)
  BY <1>7, Reported, Ends, Retries DEF Collect
<1>8. CASE EndOfBody(r)
  BY <1>8, Reported, Ends DEF EndOfBody
<1>9. QED
  BY <1>2, <1>3, <1>4, <1>5, <1>6, <1>7, <1>8 DEF attempt

\* Disconnect: what the request held is dropped with it.
LEMMA DisconnectStep == ASSUME Base, NEW r \in Requests, Disconnect(r) PROVE Base'
BY Reported, Ends DEF Disconnect
-----------------------------------------------------------------------------
(* What happens besides *)

\* ComeUp: a gate opens.
LEMMA ComeUpStep == ASSUME Base, ComeUp PROVE Base'
<1>1. gate' \in Gates
  <2>1. PICK v \in 1 .. table, u \in Units : gate' = [gate EXCEPT ![v][u] = "up"]
    BY DEF ComeUp
  <2>2. gate \in Gates /\ v \in Tables
    BY <2>1, InUse DEF Base, Typed, Gates
  <2>3. [gate[v] EXCEPT ![u] = "up"] \in [Units -> {"up", "out"}]
    BY <2>1, <2>2 DEF Gates
  <2>4. QED
    BY <2>1, <2>2, <2>3 DEF Gates
<1>2. UNCHANGED <<table, ceiling, slots, free, permits, pc, req>>
  BY DEF ComeUp, tables, room
<1>3. Typed'
  BY <1>1, <1>2 DEF Base, Typed, Gates
<1>4. Carried'
  BY <1>2 DEF Base, Carried
<1>5. \A r \in Requests : Sound(pc[r], req[r])'
  BY <1>2 DEF Base, Sound
<1>6. Conserved'
  BY <1>2 DEF Base, Conserved, Carry, Hold, Target
<1>7. QED
  BY <1>3, <1>4, <1>5, <1>6 DEF Base

\* Rebuild: no request is routed by the new table yet, and the semaphores it
\* makes are whole.
LEMMA RebuildStep == ASSUME Base, Rebuild PROVE Base'
<1>1. PICK c \in [Keys -> Ceilings] :
        /\ table <= MaxRebuilds
        /\ table' = table + 1
        /\ ceiling' = [ceiling EXCEPT ![table + 1] = c]
        /\ slots' = [slots EXCEPT ![table + 1] = [k \in Keys |-> carry_slots(c, k)]]
        /\ free' = [free EXCEPT ![table + 1] = c]
        /\ permits' = [permits EXCEPT ![table + 1] = [p \in Providers |-> MaxConcurrency]]
        /\ gate' = [gate EXCEPT ![table + 1] = [u \in Units |-> "up"]]
        /\ UNCHANGED <<pc, req>>
  BY DEF Rebuild
<1>2. /\ table \in Nat \ {0} /\ MaxRebuilds \in Nat /\ MaxConcurrency \in Nat
      /\ Ceilings \subseteq Nat \ {0}
  BY InUse, DispatchAssumption DEF DispatchAssumption
<1>3. /\ table + 1 \in Tables /\ table \in Tables
      /\ \A v \in 1 .. table : v \in Tables /\ v # table + 1
      /\ \A v \in 1 .. table + 1 : v \in 1 .. table \/ v = table + 1
  BY <1>1, <1>2 DEF Tables
<1>4. \A k \in Keys : /\ carry_slots(c, k) \in Tables /\ carry_slots(c, k) <= table + 1
                      /\ c[k] = ceiling[table][k] => carry_slots(c, k) = slots[table][k]
  <2>1. ASSUME NEW k \in Keys
        PROVE  slots[table][k] \in 1 .. table
    BY <1>2, InUse
  <2>2. QED
    BY <1>2, <1>3, <2>1 DEF carry_slots
<1>5. /\ \A v \in 1 .. table : /\ ceiling'[v] = ceiling[v] /\ slots'[v] = slots[v]
                               /\ free'[v] = free[v] /\ permits'[v] = permits[v]
      /\ ceiling'[table + 1] = c /\ free'[table + 1] = c
      /\ slots'[table + 1] = [k \in Keys |-> carry_slots(c, k)]
      /\ permits'[table + 1] = [p \in Providers |-> MaxConcurrency]
  BY <1>1, <1>3 DEF Base, Typed
<1>6. Typed'
  <2>1. table' \in Tables /\ pc' \in [Requests -> Labels] /\ req' \in [Requests -> Request]
        /\ \A r \in Requests : req'[r].t <= Len(req'[r].plan)
    BY <1>1, <1>3 DEF Base, Typed
  <2>2. ceiling' \in [Tables -> [Keys -> Ceilings]]
    BY <1>1 DEF Base, Typed
  <2>3. slots' \in [Tables -> [Keys -> Tables]]
    BY <1>1, <1>4 DEF Base, Typed
  <2>4. c \in [Keys -> Nat]
    BY <1>2
  <2>5. free' \in [Tables -> [Keys -> Nat]]
    BY <1>1, <2>4 DEF Base, Typed
  <2>6. permits' \in [Tables -> [Providers -> 0 .. MaxConcurrency]]
    <3>1. [p \in Providers |-> MaxConcurrency] \in [Providers -> 0 .. MaxConcurrency]
      BY <1>2
    <3>2. QED
      BY <1>1, <3>1 DEF Base, Typed
  <2>7. gate' \in [Tables -> [Units -> {"up", "out"}]]
    BY <1>1 DEF Base, Typed
  <2>8. QED
    BY <2>1, <2>2, <2>3, <2>5, <2>6, <2>7 DEF Typed
<1>7. Carried'
  <2>1. ASSUME NEW k \in Keys, NEW v \in 1 .. table'
        PROVE  slots'[v][k] <= v
    BY <1>1, <1>3, <1>4, <1>5 DEF Base, Carried
  <2>2. ASSUME NEW k \in Keys, \A v \in 1 .. table' : ceiling'[v][k] = ceiling'[1][k],
               NEW v \in 1 .. table'
        PROVE  slots'[v][k] = 1
    <3>1. 1 \in 1 .. table /\ table \in 1 .. table
          /\ 1 .. table \subseteq 1 .. table' /\ table + 1 \in 1 .. table'
      BY <1>1, <1>2
    <3>2. \A w \in 1 .. table : ceiling[w][k] = ceiling[1][k]
      BY <1>5, <2>2, <3>1
    <3>3. \A w \in 1 .. table : slots[w][k] = 1
      BY <3>2 DEF Base, Carried
    <3>4. c[k] = ceiling[table][k]
      BY <1>5, <2>2, <3>1, <3>2
    <3>5. slots'[table + 1][k] = 1
      BY <1>4, <1>5, <3>1, <3>3, <3>4
    <3>6. QED
      BY <1>1, <1>3, <1>5, <3>3, <3>5
  <2>3. QED
    BY <2>1, <2>2 DEF Carried
<1>8. ASSUME NEW r \in Requests
      PROVE  Sound(pc[r], req[r])'
  <2>1. Sound(pc[r], req[r]) /\ req[r].table \in 1 .. table
    BY InUse DEF Base
  <2>2. req[r].table <= table + 1
    BY <1>2, <2>1
  <2>3. QED
    BY <1>1, <2>1, <2>2 DEF Sound
<1>9. ASSUME NEW v \in 1 .. table'
      PROVE  /\ \A p \in Providers : permits'[v][p] + Cardinality(Hold(v, p)') = MaxConcurrency
             /\ \A k \in Keys : free'[v][k] + Cardinality(Carry(v, k)') = ceiling'[v][k]
  <2>1. \A r \in Requests : req'[r] = req[r] /\ req[r].table \in 1 .. table
    BY <1>1, InUse
  <2>2. \A r \in Requests, k \in Keys :
          /\ slots'[req'[r].table][k] = slots[req[r].table][k]
          /\ slots[req[r].table][k] \in 1 .. table
    BY <1>5, <2>1, InUse
  <2>3. CASE v \in 1 .. table
    <3>1. \A p \in Providers : Hold(v, p)' = Hold(v, p)
      BY <1>1 DEF Hold, Target
    <3>2. ASSUME NEW k \in Keys
          PROVE  Carry(v, k)' = Carry(v, k)
      <4>1. \A r \in Requests : r \in Carry(v, k)' <=> r \in Carry(v, k)
        BY <2>1, <2>2 DEF Carry
      <4>2. Carry(v, k) \subseteq Requests /\ Carry(v, k)' \subseteq Requests
        BY DEF Carry
      <4>3. QED
        BY <4>1, <4>2
    <3>3. QED
      BY <1>5, <2>3, <3>1, <3>2 DEF Base, Conserved
  <2>4. CASE v = table + 1
    <3>1. \A p \in Providers : Hold(v, p)' = {}
      BY <1>2, <2>1, <2>4 DEF Hold
    <3>2. ASSUME NEW k \in Keys
          PROVE  Carry(v, k)' = {}
      BY <1>2, <2>2, <2>4 DEF Carry
    <3>3. \A k \in Keys : c[k] \in Nat
      BY <1>2
    <3>4. Cardinality({}) = 0
      BY FS_EmptySet
    <3>5. /\ \A p \in Providers : permits'[v][p] = MaxConcurrency
          /\ \A k \in Keys : free'[v][k] = c[k] /\ ceiling'[v][k] = c[k]
      BY <1>5, <2>4
    <3>6. /\ \A p \in Providers : Cardinality(Hold(v, p)') = 0
          /\ \A k \in Keys : Cardinality(Carry(v, k)') = 0
      BY <3>1, <3>2, <3>4
    <3>7. QED
      BY <1>2, <3>3, <3>5, <3>6
  <2>5. QED
    BY <1>1, <1>3, <2>3, <2>4
<1>10. Conserved'
  BY <1>9 DEF Conserved
<1>11. QED
  BY <1>6, <1>7, <1>8, <1>10 DEF Base

-----------------------------------------------------------------------------
(* Keys with room *)

\* A key that had room all along has not been looked at.
Unseen(r) ==
  IF Recovering(r) THEN spare[r] \subseteq req[r].todo /\ spare[r] \subseteq Roomy(req[r])
  ELSE spare[r] = {}

\* A request goes where nothing is looked for to recover.
Elsewhere(r) == \E label \in Labels \ {"recover", "rate"} : \E n : Goto(r, label, n)

\* NextTarget, Attempt, NextAttempt, Admit: they lead elsewhere.
LEMMA LeadElsewhere ==
  ASSUME NEW r, NEW q, NextTarget(r, q) \/ Attempt(r, q) \/ NextAttempt(r, q) \/ Admit(r, q)
  PROVE  Elsewhere(r)
<1>1. ASSUME NEW label \in {"idle", "target", "keyless", "filter", "permit"}, NEW n,
             Goto(r, label, n)
      PROVE  Elsewhere(r)
  BY <1>1 DEF Elsewhere, Labels
<1>2. ASSUME NEW p, Attempt(r, p)
      PROVE  Elsewhere(r)
  BY <1>1, <1>2 DEF Attempt
<1>3. ASSUME NEW p, NextTarget(r, p)
      PROVE  Elsewhere(r)
  BY <1>1, <1>3 DEF NextTarget
<1>4. CASE NextAttempt(r, q)
  BY <1>2, <1>3, <1>4 DEF NextAttempt
<1>5. CASE Admit(r, q)
  BY <1>1, <1>5 DEF Admit
<1>6. QED
  BY <1>2, <1>3, <1>4, <1>5

\* What a step of a request does to its search for a key to recover: nothing, it
\* begins one, looks at a key that has no room, or leaves it.
Searches(r) ==
  \/ Elsewhere(r)
  \/ \E label \in {"pick", "recover", "rate"}, n \in Request :
       /\ Goto(r, label, n)
       /\ \/ label = "recover" /\ n.todo = Pool[Target(n)]
          \/ label # "recover" /\ n.back = "pick"
          \/ /\ Recovering(r)
             /\ req[r].todo \cap Roomy(req[r]) \subseteq n.todo
\* Pick: the search begins with all keys of the pool.
LEMMA PickSearches == ASSUME Base, NEW r \in Requests, Pick(r) PROVE Searches(r)
<1>1. req[r] \in Request /\ Target(req[r]) \in Providers
  BY Stands
<1>2. CASE req[r].healthy = {}
  <2> DEFINE n == [req[r] EXCEPT !.todo = Pool[Target(req[r])]]
  <2>1. Pool[Target(req[r])] \in SUBSET Keys
    BY <1>1, DispatchAssumption DEF DispatchAssumption
  <2>2. n \in Request /\ n.todo = Pool[Target(n)]
    BY <1>1, <2>1 DEF Request, Target
  <2>3. Goto(r, "recover", n)
    BY <1>2 DEF Pick
  <2> HIDE DEF n
  <2>4. QED
    BY <2>2, <2>3 DEF Searches
<1>3. CASE req[r].healthy # {}
  <2>1. PICK k \in req[r].healthy :
          Reserve(r, k, [req[r] EXCEPT !.healthy = @ \ {k}, !.back = "pick"])
    BY <1>3 DEF Pick
  <2> DEFINE q == [req[r] EXCEPT !.healthy = @ \ {k}, !.back = "pick"]
             n == [q EXCEPT !.key = k]
  <2>2. q \in Request /\ q.back = "pick" /\ k \in Keys
    BY <1>1 DEF Request
  <2>3. n \in Request /\ n.back = "pick"
    BY <2>2 DEF Request, Units
  <2>4. Goto(r, "rate", n) \/ Admit(r, n) \/ Goto(r, "pick", q)
    BY <2>1, <2>2 DEF Reserve
  <2> HIDE DEF q, n
  <2>5. QED
    BY <2>2, <2>3, <2>4, LeadElsewhere DEF Searches
<1>4. QED
  BY <1>2, <1>3

\* Recover: the key that is dropped had no room, or the search is over.
LEMMA RecoverSearches == ASSUME Base, NEW r \in Requests, Recover(r) PROVE Searches(r)
<1>1. req[r] \in Request /\ pc[r] = "recover" /\ Recovering(r)
  BY Stands DEF Recover, Recovering
<1>2. PICK k \in req[r].todo :
        \/ k \in Up(req[r].table) /\ Reserve(r, k, Without(req[r], k))
        \/ Probe(r, k)
  BY <1>1 DEF Recover
<1> DEFINE q == Without(req[r], k)
           n == [q EXCEPT !.key = k]
<1>3. /\ q \in Request /\ q.back = "recover" /\ q.todo = req[r].todo \ {k}
      /\ q.table = req[r].table /\ k \in Keys
  BY <1>1 DEF Without, Request
<1>4. n \in Request /\ n.todo = q.todo
  BY <1>3 DEF Request, Units
<1>5. k \in Rated \/ k \notin Up(req[r].table) \/ ~HasSlot(q, k) => k \notin Roomy(req[r])
  BY <1>3 DEF Roomy, Up, Units, HasSlot, Maker
<1>6. CASE Reserve(r, k, q)
  <2>1. \/ Admit(r, n)
        \/ Goto(r, "rate", n) /\ k \in Rated
        \/ Goto(r, "recover", q) /\ ~HasSlot(q, k)
    BY <1>3, <1>6 DEF Reserve
  <2> HIDE DEF q, n
  <2>2. QED
    BY <1>1, <1>3, <1>4, <1>5, <2>1, LeadElsewhere DEF Searches
<1>7. CASE Probe(r, k)
  <2>1. (Goto(r, "recover", q) /\ k \notin Up(req[r].table)) \/ \E p : Admit(r, p)
    BY <1>7 DEF Probe
  <2> HIDE DEF q, n
  <2>2. QED
    BY <1>1, <1>3, <1>5, <2>1, LeadElsewhere DEF Searches
<1>8. QED
  BY <1>2, <1>6, <1>7

\* Rate: the key that is given back is one its rate may refuse.
LEMMA RateSearches == ASSUME Base, NEW r \in Requests, Rate(r) PROVE Searches(r)
<1> DEFINE n == [req[r] EXCEPT !.key = None]
<1>1. req[r] \in Request /\ pc[r] = "rate"
  BY Stands DEF Rate
<1>2. /\ n \in Request /\ n.todo = req[r].todo /\ n.back = req[r].back
      /\ req[r].back \in {"pick", "recover"}
  BY <1>1 DEF Request
<1>3. Admit(r, req[r]) \/ Goto(r, req[r].back, n)
  BY DEF Rate
<1> HIDE DEF n
<1>4. CASE Goto(r, req[r].back, n) /\ req[r].back = "pick"
  BY <1>2, <1>4 DEF Searches
<1>5. CASE Goto(r, req[r].back, n) /\ req[r].back = "recover"
  <2>1. Recovering(r) /\ req[r].todo \cap Roomy(req[r]) \subseteq n.todo
    BY <1>1, <1>2, <1>5 DEF Recovering
  <2>2. QED
    BY <1>2, <1>5, <2>1 DEF Searches
<1>6. QED
  BY <1>2, <1>3, <1>4, <1>5, LeadElsewhere DEF Searches

\* The rest of a request's way leads elsewhere.
LEMMA RestSearches ==
  ASSUME Base, NEW r \in Requests,
         \/ Plan(r) \/ Begin(r) \/ AdmitKeyless(r) \/ Filter(r) \/ PoolEmpty(r)
         \/ Permit(r) \/ attempt(r) \/ Disconnect(r)
  PROVE  Elsewhere(r)
<1>1. ASSUME NEW label \in {"idle", "target", "filter", "sent", "renew", "collect", "relay"},
             NEW n, Goto(r, label, n)
      PROVE  Elsewhere(r)
  BY <1>1 DEF Elsewhere, Labels
<1>2. CASE Plan(r) \/ Disconnect(r)
  BY <1>1, <1>2 DEF Plan, Disconnect
<1>3. CASE Begin(r) \/ PoolEmpty(r) \/ AdmitKeyless(r)
  BY <1>3, LeadElsewhere DEF Begin, PoolEmpty, AdmitKeyless
<1>4. CASE Permit(r)
  BY <1>1, <1>4, LeadElsewhere DEF Permit
<1>5. CASE Filter(r)
  <2>1. \E label \in {"pick", "filter"} : \E n : Goto(r, label, n)
    BY <1>5 DEF Filter
  <2>2. QED
    BY <2>1 DEF Elsewhere, Labels
<1>6. CASE attempt(r)
  <2>1. ASSUME Retry(r) \/ Relay(r)
        PROVE  Elsewhere(r)
    BY <1>1, <2>1, LeadElsewhere DEF Retry, Relay
  <2>2. CASE Unreachable(r) \/ Served(r) \/ Throttled(r) \/ Denied(r) \/ Renew(r)
    BY <1>1, <2>1, <2>2 DEF Unreachable, Served, Throttled, Denied, Renew
  <2>3. CASE Collect(r) \/ EndOfBody(r)
    BY <1>1, <2>3, LeadElsewhere DEF Collect, EndOfBody
  <2>4. QED
    BY <1>6, <2>2, <2>3 DEF attempt
<1>7. QED
  BY <1>2, <1>3, <1>4, <1>5, <1>6

\* Every step keeps the keys with room unseen.
LEMMA UnseenStep ==
  ASSUME IInv, Next, \A r \in Requests : Unseen(r), NEW u \in Requests
  PROVE  Unseen(u)'
<1>1. Base /\ spare \in [Requests -> SUBSET Keys]
  BY DEF IInv
<1>2. spare'[u] = IF ~Recovering(u)' THEN {}
                  ELSE Roomy(req[u])' \cap (IF Recovering(u) THEN spare[u] ELSE Keys)
  BY DEF Next
<1>3. CASE pc'[u] = pc[u] /\ req'[u] = req[u]
  <2>1. Recovering(u)' <=> Recovering(u)
    BY <1>3 DEF Recovering
  <2>2. QED
    BY <1>2, <1>3, <2>1 DEF Unseen
<1>4. ASSUME NEW r \in Requests, Searches(r)
      PROVE  Unseen(u)'
  <2>1. PICK label, n : /\ Goto(r, label, n)
                        /\ \/ label \in Labels \ {"recover", "rate"}
                           \/ /\ label # "idle"
                              /\ \/ label = "recover" /\ n.todo = Pool[Target(n)]
                                 \/ label # "recover" /\ n.back = "pick"
                                 \/ /\ Recovering(r)
                                    /\ req[r].todo \cap Roomy(req[r]) \subseteq n.todo
    BY <1>4 DEF Searches, Elsewhere
  <2>2. CASE u # r
    BY <1>1, <1>3, <2>1, <2>2 DEF Goto, Base, Typed
  <2>3. CASE u = r
    <3>1. pc'[u] = label /\ (label # "idle" => req'[u] = n)
      BY <1>1, <2>1, <2>3 DEF Goto, Base, Typed
    <3>2. CASE ~Recovering(u)'
      BY <1>2, <3>2 DEF Unseen
    <3>3. CASE Recovering(u)'
      <4>1. req'[u] = n /\ label \in {"recover", "rate"} /\ (label = "rate" => n.back = "recover")
        BY <3>1, <3>3 DEF Recovering
      <4>2. spare'[u] \subseteq req'[u].todo
        <5>1. CASE n.todo = Pool[Target(n)]
          <6>1. Roomy(req[u])' \subseteq Pool[Target(n)]
            BY <4>1 DEF Roomy, Target
          <6>2. QED
            BY <1>2, <3>3, <4>1, <5>1, <6>1
        <5>2. CASE Recovering(u) /\ req[u].todo \cap Roomy(req[u]) \subseteq n.todo
          BY <1>2, <3>3, <4>1, <5>2 DEF Unseen
        <5>3. QED
          BY <2>1, <2>3, <4>1, <5>1, <5>2
      <4>3. QED
        BY <1>2, <3>3, <4>2 DEF Unseen
    <3>4. QED
      BY <3>2, <3>3
  <2>4. QED
    BY <2>2, <2>3
<1>5. CASE ComeUp \/ Rebuild
  BY <1>3, <1>5 DEF ComeUp, Rebuild
<1>6. ASSUME NEW r \in Requests,
             \/ Plan(r) \/ Begin(r) \/ admit_for(r) \/ Permit(r) \/ attempt(r) \/ Disconnect(r)
      PROVE  Searches(r)
  <2>1. CASE Pick(r) \/ Recover(r) \/ Rate(r)
    BY <1>1, <2>1, PickSearches, RecoverSearches, RateSearches
  <2>2. CASE ~(Pick(r) \/ Recover(r) \/ Rate(r))
    <3>1. Elsewhere(r)
      BY <1>1, <1>6, <2>2, RestSearches DEF admit_for
    <3>2. QED
      BY <3>1 DEF Searches
  <2>3. QED
    BY <2>1, <2>2
<1>7. QED
  BY <1>4, <1>5, <1>6 DEF Next, Step
-----------------------------------------------------------------------------
(* The theorems *)

\* A gateway that has been started, before its first request.
LEMMA Started == Init => IInv
<1> SUFFICES ASSUME Init
             PROVE  IInv
  OBVIOUS
<1>1. /\ MaxRebuilds \in Nat /\ MaxConcurrency \in Nat \ {0} /\ Ceiling \in Ceilings
      /\ Ceiling \in Nat /\ Ceilings \subseteq Nat
  BY DispatchAssumption DEF DispatchAssumption
<1>2. 1 \in Tables /\ table = 1
  BY <1>1 DEF Init, Tables
<1>3. Typed
  <2>1. pc \in [Requests -> Labels] /\ req \in [Requests -> Request]
        /\ \A r \in Requests : req[r].t <= Len(req[r].plan)
    BY Begins DEF Init, Labels
  <2>2. free \in [Tables -> [Keys -> Nat]] /\ ceiling \in [Tables -> [Keys -> Ceilings]]
        /\ slots \in [Tables -> [Keys -> Tables]]
    BY <1>1, <1>2 DEF Init
  <2>3. permits \in [Tables -> [Providers -> 0 .. MaxConcurrency]]
        /\ gate \in [Tables -> [Units -> {"up", "out"}]]
    BY <1>1 DEF Init
  <2>4. QED
    BY <1>2, <2>1, <2>2, <2>3 DEF Typed
<1>4. Carried
  BY <1>2 DEF Init, Carried
<1>5. \A r \in Requests : Sound(pc[r], req[r])
  BY <1>2, Begins DEF Init, Sound
<1>6. Conserved
  <2>1. None \notin Keys
    BY DispatchAssumption DEF DispatchAssumption, None
  <2>2. \A v \in Tables : /\ \A p \in Providers : Hold(v, p) = {}
                          /\ \A k \in Keys : Carry(v, k) = {}
    BY <2>1, Begins DEF Init, Hold, Carry
  <2>3. Cardinality({}) = 0
    BY FS_EmptySet
  <2>4. \A v \in 1 .. table : v \in Tables
    BY <1>2
  <2>5. ASSUME NEW v \in 1 .. table
        PROVE  /\ \A p \in Providers : permits[v][p] + Cardinality(Hold(v, p)) = MaxConcurrency
               /\ \A k \in Keys : free[v][k] + Cardinality(Carry(v, k)) = ceiling[v][k]
    <3>1. /\ \A p \in Providers : permits[v][p] = MaxConcurrency
          /\ \A k \in Keys : free[v][k] = Ceiling /\ ceiling[v][k] = Ceiling
      BY <2>4 DEF Init
    <3>2. /\ \A p \in Providers : Cardinality(Hold(v, p)) = 0
          /\ \A k \in Keys : Cardinality(Carry(v, k)) = 0
      BY <2>2, <2>3, <2>4
    <3>3. QED
      BY <1>1, <3>1, <3>2
  <2>6. QED
    BY <2>5 DEF Conserved
<1>7. spare \in [Requests -> SUBSET Keys]
  BY DEF Init
<1>8. QED
  BY <1>3, <1>4, <1>5, <1>6, <1>7 DEF IInv, Base

\* Every step keeps the invariant.
LEMMA Stepped == IInv /\ [Next]_vars => IInv'
<1> SUFFICES ASSUME IInv, [Next]_vars
             PROVE  IInv'
  OBVIOUS
<1>1. Base /\ spare \in [Requests -> SUBSET Keys]
  BY DEF IInv
<1>2. CASE Next
  <2>1. Base'
    <3>1. ASSUME NEW r \in Requests, admit_for(r)
          PROVE  Base'
      BY <1>1, <3>1, KeylessStep, FilterStep, PickStep, RecoverStep, PoolEmptyStep, RateStep
         DEF admit_for
    <3>2. QED
      BY <1>1, <1>2, <3>1, PlanStep, BeginStep, PermitStep, AttemptStep, DisconnectStep,
         ComeUpStep, RebuildStep DEF Next, Step
  <2>2. ASSUME NEW r \in Requests
        PROVE  Roomy(req[r])' \subseteq Keys
    <3>1. req'[r] \in Request /\ req'[r].t <= Len(req'[r].plan)
      BY <2>1 DEF Base, Typed
    <3>2. Pool[Target(req'[r])] \subseteq Keys
      BY <3>1, TargetType, DispatchAssumption DEF DispatchAssumption
    <3>3. QED
      BY <3>2 DEF Roomy, Target
  <2>3. spare' \in [Requests -> SUBSET Keys]
    BY <1>2, <2>2 DEF Next
  <2>4. QED
    BY <2>1, <2>3 DEF IInv
<1>3. CASE UNCHANGED vars
  <2>1. UNCHANGED <<table, ceiling, slots, free, permits, gate, pc, req, spare>>
    BY <1>3 DEF vars
  <2>2. Typed' /\ Carried'
    BY <1>1, <2>1 DEF Base, Typed, Carried
  <2>3. \A r \in Requests : Sound(pc[r], req[r])'
    BY <1>1, <2>1 DEF Base, Sound
  <2>4. Conserved'
    BY <1>1, <2>1 DEF Base, Conserved, Carry, Hold, Target
  <2>5. QED
    BY <1>1, <2>1, <2>2, <2>3, <2>4 DEF IInv, Base
<1>4. QED
  BY <1>2, <1>3

\* The invariant of the dispatch (run_chat, admit_for, attempt, the rebuild of the
\* routing table).
THEOREM Invariance == Spec => []IInv
<1>1. QED
  BY Started, Stepped, PTL DEF Spec

\* The state stays in its types: no plan is read past its end, no target is tried
\* more often than the cap of attempt_budget allows.
THEOREM Typing == Spec => []TypeOK
<1>1. IInv => TypeOK
  BY DEF IInv, Base, Typed, TypeOK, Labels
<1>2. QED
  BY <1>1, Invariance, PTL

\* No slot of a key and no permit of a provider leaks or is returned twice, on any
\* way an attempt can end, across any number of reloads.
THEOREM Conservation == Spec => []Conserved
<1>1. IInv => Conserved
  BY DEF IInv, Base
<1>2. QED
  BY <1>1, Invariance, PTL

\* carry_slots: a key whose ceiling stands never carries more requests than that,
\* whatever tables they were routed by.
THEOREM Ceilinged == Spec => []CeilingStands
<1>1. ASSUME IInv, NEW k \in Keys, \A v \in 1 .. table : ceiling[v][k] = ceiling[1][k]
      PROVE  Cardinality({r \in Requests : req[r].key = k}) <= ceiling[1][k]
  <2>1. Base /\ 1 \in 1 .. table
    BY <1>1, InUse DEF IInv
  <2>2. \A v \in 1 .. table : slots[v][k] = 1
    BY <1>1, <2>1 DEF Base, Carried
  <2>3. {r \in Requests : req[r].key = k} = Carry(1, k)
    BY <2>1, <2>2, InUse DEF Carry
  <2>4. IsFiniteSet(Carry(1, k))
    BY FS_Subset, DispatchAssumption DEF DispatchAssumption, Carry
  <2>5. Cardinality(Carry(1, k)) \in Nat /\ free[1][k] \in Nat
        /\ free[1][k] + Cardinality(Carry(1, k)) = ceiling[1][k]
    BY <2>1, <2>4, InUse, FS_CardinalityType DEF Base, Conserved
  <2>6. ceiling[1][k] \in Nat
    BY <2>5
  <2>7. Cardinality(Carry(1, k)) <= ceiling[1][k]
    BY <2>5, <2>6
  <2>8. QED
    BY <2>3, <2>7
<1>2. IInv => CeilingStands
  BY <1>1 DEF CeilingStands
<1>3. QED
  BY <1>2, Invariance, PTL

\* No pool is reported empty while one of its keys has been up and had room ever
\* since the healthy keys were exhausted (admit_for looks at all keys again).
THEOREM NobodyTurnedAway == Spec => []NotTurnedAway
<1> DEFINE Inv == IInv /\ \A r \in Requests : Unseen(r)
<1>1. Init => Inv
  <2>1. ASSUME Init, NEW r \in Requests
        PROVE  Unseen(r)
    BY <2>1 DEF Init, Unseen, Recovering
  <2>2. QED
    BY <2>1, Started
<1>2. Inv /\ [Next]_vars => Inv'
  <2> SUFFICES ASSUME Inv, [Next]_vars
               PROVE  Inv'
    OBVIOUS
  <2>1. CASE Next
    BY <2>1, Stepped, UnseenStep
  <2>2. CASE UNCHANGED vars
    <3>1. ASSUME NEW r \in Requests
          PROVE  Unseen(r)'
      BY <2>2 DEF Unseen, Recovering, Roomy, Target, vars
    <3>2. QED
      BY <2>2, <3>1, Stepped
  <2>3. QED
    BY <2>1, <2>2
<1>3. Inv => NotTurnedAway
  BY DEF NotTurnedAway, Unseen, Recovering
<1> HIDE DEF Inv
<1>4. QED
  BY <1>1, <1>2, <1>3, PTL DEF Spec
=============================================================================
