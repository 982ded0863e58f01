----------------------------- MODULE SeatRefresh -----------------------------
(***************************************************************************)
(* Renewing the credential of a subscription seat (refresh.rs and          *)
(* credential.rs): an OAuth round trip that rotates the refresh token,     *)
(* started by a request, by its 401, or by the maintenance of seats.       *)
(*                                                                         *)
(* A credential is the number of the rotation that issued it; the endpoint *)
(* accepts the refresh token of the latest one only.  All the seats here   *)
(* are configured against one auth.json.  Every build of the routing table *)
(* makes a Seat of its own for each of them, and requests in flight keep   *)
(* the Seat of the table they were routed by.                              *)
(*                                                                         *)
(* The clock of a call is taken to be current: read again under the gate   *)
(* it can only find a credential younger than it is, and the next tick of  *)
(* the maintenance finds it again.                                         *)
(*                                                                         *)
(* A definition named <name>_<fault> is <name> with a fault, kept to show  *)
(* that the properties detect it; no specification uses it.                *)
(***************************************************************************)
EXTENDS Integers

CONSTANTS
  Slots,      \* provider keys configured against the file
  Requests,   \* tasks that carry requests
  MaxCred,    \* bound on the rotations
  MaxReloads, \* bound on the reloads of the config in the life of a process
  MaxCrashes, \* bound on the crashes of the process
  MaxRevokes  \* bound on the access tokens revoked out of band

ASSUME SeatAssumption ==
  /\ Slots # {}
  /\ "nobody" \notin Requests
  /\ MaxCred \in Nat \ {0}
  /\ MaxReloads \in Nat
  /\ MaxCrashes \in Nat
  /\ MaxRevokes \in Nat

VARIABLES
  endpoint, \* the credential issued last: its refresh token is the live one
  age,      \* of the access token of each credential
  revoked,  \* credentials whose access token the provider refuses
  file,     \* the credential in auth.json
  seat,     \* the credential each Seat holds in memory
  table,    \* the routing table in force
  loaded,   \* what a reload under way has read from the file, or Unread
  gate,     \* who holds the gate of the file
  phase,
  local,    \* what each task knows: its Seat, a credential, why it renews
  crashes,
  \* history
  lost,     \* a rotation was answered and not recorded
  rotated   \* the Seats and the credentials they have been renewed from

seatVars == <<endpoint, age, revoked, file, seat, table, loaded, gate, phase, local,
              crashes, lost, rotated>>

Unread == 0
Nobody == "nobody"
Maintenance == "maintenance"
Renewers == Requests \cup {Maintenance}

Credential == 1 .. MaxCred
Seats == Slots \X (1 .. MaxReloads + 1)
Why == {"lease", "refused", "tick"}

\* Every Seat holds a credential that was issued; a task knows of one.
SeatTypeOK ==
  /\ endpoint \in Credential
  /\ age \in [Credential -> {"fresh", "near", "expired"}]
  /\ revoked \subseteq Credential
  /\ file \in Credential
  /\ seat \in [Seats -> Credential]
  /\ table \in 1 .. MaxReloads + 1
  /\ loaded \in Credential \cup {Unread}
  /\ gate \in Renewers \cup {Nobody}
  /\ phase \in [Renewers -> {"idle", "sent", "gate", "post", "answered", "persisted"}]
  /\ local \in [Renewers -> [seat : Seats, cred : Credential, why : Why]]
  /\ crashes \in 0 .. MaxCrashes
  /\ lost \in BOOLEAN
  /\ rotated \subseteq Seats \X Credential

Fresh == [seat |-> CHOOSE s \in Seats : TRUE, cred |-> 1, why |-> "tick"]

SeatInit ==
  /\ endpoint = 1
  /\ age = [c \in Credential |-> "fresh"]
  /\ revoked = {}
  /\ file = 1
  /\ seat = [s \in Seats |-> 1]
  /\ table = 1
  /\ loaded = Unread
  /\ gate = Nobody
  /\ phase = [t \in Renewers |-> "idle"]
  /\ local = [t \in Renewers |-> Fresh]
  /\ crashes = 0
  /\ lost = FALSE
  /\ rotated = {}

-----------------------------------------------------------------------------
Move(t, label, l) ==
  /\ phase' = [phase EXCEPT ![t] = label]
  /\ local' = [local EXCEPT ![t] = IF label = "idle" THEN Fresh ELSE l]

world == <<endpoint, age, revoked>>
memory == <<seat, table, loaded>>
history == <<lost, rotated>>

\* wants_refresh or is_expired: the access token is near its expiry or past it.
Stale(c) == age[c] # "fresh"

\* refresh_now returns: a request that renewed before it was sent is sent now,
\* with whatever the Seat holds.
Return(t, held) ==
  IF local[t].why = "lease"
  THEN Move(t, "sent", [local[t] EXCEPT !.cred = held])
  ELSE Move(t, "idle", Fresh)

-----------------------------------------------------------------------------
(* The outside *)

\* An access token ages; none does that could not be replaced within bounds.
Age(c) ==
  /\ c < MaxCred /\ c <= endpoint /\ age[c] # "expired"
  /\ age' = [age EXCEPT ![c] = IF @ = "fresh" THEN "near" ELSE "expired"]
  /\ UNCHANGED <<endpoint, revoked, file, memory, gate, phase, local, crashes, history>>

Revoke ==
  /\ endpoint \notin revoked /\ endpoint <= MaxRevokes /\ endpoint < MaxCred
  /\ revoked' = revoked \cup {endpoint}
  /\ UNCHANGED <<endpoint, age, file, memory, gate, phase, local, crashes, history>>

-----------------------------------------------------------------------------
(* Requests and the maintenance of seats *)

\* A request is routed to a seat; refresh_if_stale renews it first.
Lease(t) ==
  \E slot \in Slots :
    LET s == <<slot, table>> IN
      /\ phase[t] = "idle"
      /\ Move(t, IF Stale(seat[s]) THEN "gate" ELSE "sent",
              [seat |-> s, cred |-> seat[s], why |-> "lease"])
      /\ UNCHANGED <<world, file, memory, gate, crashes, history>>

\* The provider answers: 401 to an access token that has expired or been
\* revoked, and the seat is renewed.
Answer(t) ==
  /\ phase[t] = "sent"
  /\ IF age[local[t].cred] = "expired" \/ local[t].cred \in revoked
     THEN Move(t, "gate", [local[t] EXCEPT !.why = "refused"])
     ELSE Move(t, "idle", Fresh)
  /\ UNCHANGED <<world, file, memory, gate, crashes, history>>

\* The client of a request hangs up: its task is dropped where it waits, which
\* frees the gate, and the answer to a rotation that it was waiting for is lost.
\* (Between the write of the file and the publication it does not wait.)
Disconnect(t) ==
  /\ phase[t] \in {"sent", "gate", "post", "answered"}
  /\ Move(t, "idle", Fresh)
  /\ gate' = IF gate = t THEN Nobody ELSE gate
  /\ lost' = (lost \/ phase[t] = "answered")
  /\ UNCHANGED <<world, file, memory, crashes, rotated>>

\* The maintenance comes to a seat.  It goes through the seats of the table it
\* found when it woke, which a reload may have replaced since.
Tick(s) ==
  /\ s[2] <= table
  /\ phase[Maintenance] = "idle" /\ Stale(seat[s])
  /\ Move(Maintenance, "gate", [seat |-> s, cred |-> seat[s], why |-> "tick"])
  /\ UNCHANGED <<world, file, memory, gate, crashes, history>>

-----------------------------------------------------------------------------
(* refresh_now *)

Enter_NoGate(t) ==
  /\ phase[t] = "gate"
  /\ IF Stale(seat[local[t].seat])
     THEN /\ gate' = t
          /\ Move(t, "post", [local[t] EXCEPT !.cred = seat[local[t].seat]])
     ELSE /\ UNCHANGED gate
          /\ Return(t, seat[local[t].seat])
  /\ UNCHANGED <<world, file, memory, crashes, history>>

\* One task at a time renews the credential of a file, and only if the Seat
\* is still stale once it has the gate.
Enter(t) ==
  /\ phase[t] = "gate" /\ gate = Nobody
  /\ IF Stale(seat[local[t].seat])
     THEN /\ gate' = t
          /\ Move(t, "post", [local[t] EXCEPT !.cred = seat[local[t].seat]])
     ELSE /\ UNCHANGED gate
          /\ Return(t, seat[local[t].seat])
  /\ UNCHANGED <<world, file, memory, crashes, history>>

\* The gate is released and what the Seat holds stays.
GiveUp(t) == gate' = Nobody /\ Return(t, seat[local[t].seat])

\* The endpoint rotates the live refresh token.
Rotate(t) ==
  /\ phase[t] = "post"
  /\ local[t].cred = endpoint
  /\ endpoint' = endpoint + 1
  /\ Move(t, "answered", [local[t] EXCEPT !.cred = endpoint'])
  /\ rotated' = rotated \cup {<<local[t].seat, endpoint>>}
  /\ UNCHANGED <<age, revoked, file, memory, gate, crashes, lost>>

\* The request does not arrive, or its token is dead and it is rejected.
PostFails(t) ==
  /\ phase[t] = "post"
  /\ GiveUp(t)
  /\ UNCHANGED <<world, file, memory, crashes, history>>

Lose_Unnoticed(t) ==
  /\ phase[t] = "answered"
  /\ seat' = [seat EXCEPT ![local[t].seat] = local[t].cred]
  /\ GiveUp(t)
  /\ UNCHANGED <<world, file, table, loaded, crashes, history>>

\* The answer does not arrive, cannot be merged or parsed, or cannot be
\* written: the credential stays as it was, its refresh token dead.
Lose(t) ==
  /\ phase[t] = "answered"
  /\ GiveUp(t)
  /\ lost' = TRUE
  /\ UNCHANGED <<world, file, memory, crashes, rotated>>

Persist_Later(t) ==
  /\ phase[t] = "answered"
  /\ seat' = [seat EXCEPT ![local[t].seat] = local[t].cred]
  /\ Move(t, "persisted", local[t])
  /\ UNCHANGED <<world, file, table, loaded, gate, crashes, history>>

Persist(t) ==
  /\ phase[t] = "answered"
  /\ file' = local[t].cred
  /\ Move(t, "persisted", local[t])
  /\ UNCHANGED <<world, memory, gate, crashes, history>>

PublishSeat_Skipped(t) ==
  /\ phase[t] = "persisted"
  /\ gate' = Nobody
  /\ Return(t, local[t].cred)
  /\ UNCHANGED <<world, file, memory, crashes, history>>

PublishSeat(t) ==
  /\ phase[t] = "persisted"
  /\ seat' = [seat EXCEPT ![local[t].seat] = local[t].cred]
  /\ gate' = Nobody
  /\ Return(t, local[t].cred)
  /\ UNCHANGED <<world, file, table, loaded, crashes, history>>

-----------------------------------------------------------------------------
(* Reloads and crashes *)

\* The config is read, and with it the credential ...
Load ==
  /\ loaded = Unread /\ table <= MaxReloads
  /\ loaded' = file
  /\ UNCHANGED <<world, file, seat, table, gate, phase, local, crashes, history>>

\* ... and the table built from it replaces the one in force.
Swap ==
  /\ loaded # Unread
  /\ table' = table + 1
  /\ seat' = [s \in Seats |-> IF s[2] = table' THEN loaded ELSE seat[s]]
  /\ loaded' = Unread
  /\ UNCHANGED <<world, file, gate, phase, local, crashes, history>>

\* The process is gone, whatever it was doing; another starts from the file.
Crash ==
  /\ crashes < MaxCrashes
  /\ crashes' = crashes + 1
  /\ table' = 1
  /\ seat' = [s \in Seats |-> file]
  /\ loaded' = Unread
  /\ gate' = Nobody
  /\ phase' = [t \in Renewers |-> "idle"]
  /\ local' = [t \in Renewers |-> Fresh]
  /\ lost' = (lost \/ \E t \in Renewers : phase[t] = "answered")
  /\ rotated' = {}
  /\ UNCHANGED <<world, file>>

Renew(t) == Enter(t) \/ Rotate(t) \/ PostFails(t) \/ Lose(t) \/ Persist(t) \/ PublishSeat(t)

SeatNext ==
  \/ (\E c \in Credential : Age(c)) \/ Revoke
  \/ \E t \in Requests : Lease(t) \/ Answer(t)
  \/ \E s \in Seats : Tick(s)
  \/ \E t \in Renewers : Renew(t)
  \/ Load \/ Swap \/ Crash
  \/ \E t \in Requests : Disconnect(t)

SeatSpec == SeatInit /\ [][SeatNext]_seatVars

\* Whoever is at the gate gets on: a timeout bounds the wait for the head of an
\* answer, and that its body then ends is assumed of the provider.  The
\* maintenance ticks for ever, its turn at the gate comes (the gate is a fair
\* mutex), and neither the endpoint nor the disk fails it every time.
SeatFairness ==
  /\ \A t \in Renewers : WF_seatVars(Renew(t))
  /\ SF_seatVars(Enter(Maintenance))
  /\ SF_seatVars(Rotate(Maintenance))
  /\ SF_seatVars(Persist(Maintenance))
  /\ \A slot \in Slots : SF_seatVars(Tick(<<slot, table>>))

FairSeatSpec == SeatSpec /\ SeatFairness

-----------------------------------------------------------------------------
(* Properties *)

\* No Seat holds a credential the file does not: a crash at any point loses
\* none that was in use ("persist before publish").
PersistedFirst == \A s \in Seats : seat[s] <= file

\* A Seat posts the same refresh token twice only if the answer to the first
\* was lost ("single-flight per seat"): whoever waited at the gate finds the
\* renewed credential.
RotatedOnce ==
  \A t \in Renewers :
    phase[t] = "post" /\ <<local[t].seat, local[t].cred>> \in rotated => lost

\* A rotation is either on disk, or in the hands of the one task at the gate,
\* or known to be lost.
RotationHeld ==
  endpoint # file =>
    lost \/ \E t \in Renewers : gate = t /\ phase[t] = "answered" /\ local[t].cred = endpoint

InForce(s) == s[2] = table

\* A stale seat with the live refresh token is renewed, however often a renewal
\* fails short of losing the rotation, unless another Seat takes the token.
Renews ==
  \A s \in Seats : \A c \in Credential :
    Stale(c) /\ seat[s] = c /\ endpoint = c /\ InForce(s) ~>
      \/ ~Stale(seat[s])
      \/ lost
      \/ ~InForce(s)
      \/ \E other \in Seats \ {s} : <<other, c>> \in rotated
=============================================================================
