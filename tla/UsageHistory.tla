---------------------------- MODULE UsageHistory -----------------------------
(***************************************************************************)
(* How a gateway remembers what it served (usage.rs, rollup_cache.rs).     *)
(*                                                                         *)
(* A completed request is a record.  The flusher, a thread of its own,     *)
(* takes batches of records from a bounded channel, writes them to a file  *)
(* per day, folds them into hourly rollups and writes those beside them.   *)
(* Five places come to hold the same traffic: the tail in memory, the      *)
(* rollup files, the caches of closed days and of closed months, and the   *)
(* objects of the whole fleet in the store.  A report sums over them, and  *)
(* is right when each record is in exactly one of the parts it sums.       *)
(*                                                                         *)
(* A rollup row is the set of the records folded into it, so that a record *)
(* which is counted twice shows.  Time passes in hours, and an instant is  *)
(* the start of one.                                                       *)
(*                                                                         *)
(* Taken in one step: a batch with its records' files and the tail; a pass *)
(* of the maintenance over the caches; a report; a look into the store.    *)
(* A directory is taken to exist when it holds a file.                     *)
(***************************************************************************)
EXTENDS Integers, Sequences, FiniteSets, FiniteSetsExt

CONSTANTS
  Records,        \* the requests that this gateway and its peers complete
  HoursPerDay,    \* 24
  DaysPerMonth,   \* the months of the model are equally long
  TailDays,       \* RECENT_ROLLUP_SPAN_MS: the days that the tail reaches back
  Retention,      \* usage.retention_days
  RollupDays,     \* the same times ROLLUP_RETENTION_FACTOR
  ChannelCap,     \* records that the channel to the flusher holds
  FirstHour,      \* the clock starts here, past the reach of the tail
  LastRecord,     \* bound: the last hour in which a request completes
  LastHour,       \* bound: the clock stops here
  MaxBoots,       \* bound: processes, one after the other
  MaxLosses       \* bound: restarts that come up on an empty disk

ASSUME HistoryAssumption ==
  /\ HoursPerDay \in Nat \ {0} /\ DaysPerMonth \in Nat \ {0}
  /\ TailDays \in Nat \ {0} /\ Retention \in Nat \ {0} /\ RollupDays \in Nat
  /\ RollupDays >= TailDays /\ RollupDays >= Retention
  /\ ChannelCap \in Nat \ {0} /\ MaxBoots \in Nat \ {0} /\ MaxLosses \in Nat
  /\ FirstHour \in Nat /\ LastRecord \in Nat /\ LastHour \in Nat
  /\ TailDays * HoursPerDay <= FirstHour /\ FirstHour <= LastHour

VARIABLES
  clock,       \* the hour
  at,          \* the hour that each record is stamped with, Never before
  channel,     \* records on their way to the flusher
  flusher,     \* where the flusher is, with the batch in its hands
  tail,        \* RecentRollups: what is counted in memory
  raw,         \* the files of records
  deltas,      \* the files of rollups
  dayCache,    \* rollup-cache/dt=...
  monthCache,  \* rollup-cache/ym=...
  marks,       \* the rollup files with a `.shipped` beside them
  blobs,       \* the rollup objects in the store
  fleet,       \* the rows of others, as of the last look into the store
  boot,        \* the process: its number is its node id
  losses       \* disks lost so far

disk == <<raw, deltas, dayCache, monthCache, marks>>
vars == <<clock, at, channel, flusher, tail, raw, deltas, dayCache, monthCache,
          marks, blobs, fleet, boot, losses>>

Never == -1
Day(hour) == hour \div HoursPerDay
Month(day) == day \div DaysPerMonth
Days == 0 .. Day(LastHour)
Months == 0 .. Month(Day(LastHour))
Today == Day(clock)
DaysOf(batch) == {Day(at[r]) : r \in batch}

-----------------------------------------------------------------------------
(* Rows, files and their fingerprints *)

\* How often each record is counted.
Rows == [Records -> Nat]
Nothing == [r \in Records |-> 0]
Fold(rows) == [r \in Records |-> IF r \in rows THEN 1 ELSE 0]
Add(a, b) == [r \in Records |-> a[r] + b[r]]
\* How often the parts of a family count each record between them.
SumOver(parts) ==
  [r \in Records |-> Cardinality(UNION {{x} \X (1 .. parts[x][r]) : x \in DOMAIN parts})]

\* A file is named for the node that wrote it and the number of its batch; a
\* file that is being written, or was torn by a crash, yields no rows.
File(day, name, rows) == [day |-> day, name |-> name, rows |-> rows]
Of(files, day) == {f \in files : f.day = day}
Counts(holders) == [r \in Records |-> Cardinality({h \in holders : r \in h.rows})]
Held(files, day) == Counts(Of(files, day))
DaysHeld(files) == {f.day : f \in files}
\* Creating a file of a name that is there truncates it.
Write(files, file) ==
  {f \in files : ~(f.day = file.day /\ f.name = file.name)} \cup {file}

\* A fingerprint is of the names in a directory, and of one that exists only.
Names(files, day) == {f.name : f \in Of(files, day)}
NoStamp == [kind |-> "none", names |-> {}]
DayStamp(day) ==
  CASE Of(deltas, day) # {} -> [kind |-> "rollups", names |-> Names(deltas, day)]
    [] Of(deltas, day) = {} /\ Of(raw, day) # {}
                            -> [kind |-> "records", names |-> Names(raw, day)]
    [] OTHER                -> NoStamp
MonthDays(files, month) == {d \in DaysHeld(files) : Month(d) = month}
\* The fingerprints of the days in their order, without their dates.
MonthStamp(files, month) ==
  LET held == MonthDays(files, month)
      nth(i) == CHOOSE d \in held : Cardinality({e \in held : e <= d}) = i
  IN [i \in 1 .. Cardinality(held) |-> Names(files, nth(i))]

DayCurrent_Exists(day) == dayCache[day].stamp # NoStamp
\* A cache is read while its fingerprint is that of what it was built from.
DayCurrent(day) == DayStamp(day) # NoStamp /\ dayCache[day].stamp = DayStamp(day)
MonthCurrent(month) ==
  MonthStamp(deltas, month) # <<>> /\ monthCache[month].stamp = MonthStamp(deltas, month)

\* What the files of a day say, and the same through its cache.
read_files(day) == IF Of(deltas, day) # {} THEN Held(deltas, day) ELSE Held(raw, day)
hourly_rows(day) == IF DayCurrent(day) THEN dayCache[day].rows ELSE read_files(day)

-----------------------------------------------------------------------------
(* Requests *)

Idle == [step |-> "wait", batch |-> {}, days |-> {}, seq |-> 0]

Init ==
  /\ clock = FirstHour
  /\ at = [r \in Records |-> Never]
  /\ channel = {} /\ flusher = [Idle EXCEPT !.step = "seed"]
  /\ tail = [rows |-> Nothing, seeded |-> FALSE]
  /\ raw = {} /\ deltas = {} /\ marks = {}
  /\ dayCache = [d \in Days |-> [stamp |-> NoStamp, rows |-> Nothing]]
  /\ monthCache = [m \in Months |-> [stamp |-> <<>>, rows |-> Nothing]]
  /\ blobs = {} /\ fleet = Nothing
  /\ boot = 1 /\ losses = 0

\* A batch is taken well within the hour (flush_interval is at most 300 s), and
\* what the flusher then does to the disk takes no hour to speak of.
Tick ==
  /\ clock < LastHour
  /\ flusher.step = "wait" /\ \A r \in channel : at[r] = clock
  /\ clock' = clock + 1
  /\ UNCHANGED <<at, channel, flusher, tail, disk, blobs, fleet, boot, losses>>

\* A request completes; a channel that is full drops its record.
record(r) ==
  /\ at[r] = Never /\ clock <= LastRecord
  /\ at' = [at EXCEPT ![r] = clock]
  /\ channel' = IF Cardinality(channel) < ChannelCap THEN channel \cup {r} ELSE channel
  /\ UNCHANGED <<clock, flusher, tail, disk, blobs, fleet, boot, losses>>

\* A request completes on a peer, which ships it.  Peers have the number 0.
PeerShips(r) ==
  /\ at[r] = Never /\ clock <= LastRecord
  /\ \A b \in blobs : b.node # 0  \* bound: one peer, one object
  /\ at' = [at EXCEPT ![r] = clock]
  /\ blobs' = blobs \cup {[node |-> 0, day |-> Today, name |-> <<0, 0>>,
                           rows |-> {r}]}
  /\ UNCHANGED <<clock, channel, flusher, tail, disk, fleet, boot, losses>>

-----------------------------------------------------------------------------
(* The flusher *)

seed_recent_rollups_Today ==
  /\ flusher.step = "seed"
  /\ tail' = [rows |-> Add(tail.rows, hourly_rows(Today)), seeded |-> TRUE]
  /\ flusher' = [flusher EXCEPT !.step = "wait"]
  /\ UNCHANGED <<clock, at, channel, disk, blobs, fleet, boot, losses>>

\* Only yesterday's rows and today's are read back into the tail.
seed_recent_rollups ==
  /\ flusher.step = "seed"
  /\ tail' = [rows |-> Add(tail.rows, Add(hourly_rows(Today), hourly_rows(Today - 1))),
              seeded |-> TRUE]
  /\ flusher' = [flusher EXCEPT !.step = "wait"]
  /\ UNCHANGED <<clock, at, channel, disk, blobs, fleet, boot, losses>>

In(batch, day) == {r \in batch : Day(at[r]) = day}
Name_FixedNode == <<1, flusher.seq>>
Name == <<boot, flusher.seq>>

\* One file for each day of a batch, in their order; an error ends the loop.
write_batch(batch) ==
  \E written \in SUBSET DaysOf(batch) :
    /\ \A d \in written, e \in DaysOf(batch) : e < d => e \in written
    /\ raw' = raw \cup {File(d, Name, In(batch, d)) : d \in written}

\* Everything in the channel is taken, written as records, folded into the tail
\* (before it is written, not after) and then written as rollups.
Take ==
  /\ flusher.step = "wait" /\ channel # {}
  /\ write_batch(channel)
  /\ tail' = [tail EXCEPT !.rows = Add(@, Fold(channel))]
  /\ flusher' = [flusher EXCEPT !.step = "create", !.batch = channel,
                                !.days = DaysOf(channel)]
  /\ channel' = {}
  /\ UNCHANGED <<clock, at, deltas, dayCache, monthCache, marks, blobs,
                 fleet, boot, losses>>

\* The batch is done with, whether or not all of it was written.
Done == flusher' = [Idle EXCEPT !.seq = flusher.seq + 1]

CreateDelta ==
  /\ flusher.step = "create"
  /\ deltas' = Write(deltas, File(Min(flusher.days), Name, {}))
  /\ flusher' = [flusher EXCEPT !.step = "close"]
  /\ UNCHANGED <<clock, at, channel, tail, raw, dayCache, monthCache, marks,
                 blobs, fleet, boot, losses>>

\* The rows of a day reach the disk, and the next day's file is begun.
CloseDelta ==
  LET day == Min(flusher.days)
  IN /\ flusher.step = "close"
     /\ deltas' = Write(deltas, File(day, Name, In(flusher.batch, day)))
     /\ IF flusher.days = {day} THEN Done
        ELSE flusher' = [flusher EXCEPT !.step = "create", !.days = @ \ {day}]
     /\ UNCHANGED <<clock, at, channel, tail, raw, dayCache, monthCache, marks,
                    blobs, fleet, boot, losses>>

\* The disk refuses; what was created stays, torn.
DeltaFails ==
  /\ flusher.step \in {"create", "close"}
  /\ Done
  /\ UNCHANGED <<clock, at, channel, tail, disk, blobs, fleet, boot, losses>>

-----------------------------------------------------------------------------
(* Its maintenance *)

\* Partitions past their retention go, and the caches built from them.
prune ==
  /\ flusher.step = "wait"
  /\ raw' = {f \in raw : f.day >= Today - Retention}
  /\ deltas' = {f \in deltas : f.day >= Today - RollupDays}
  /\ marks' = {k \in marks : k[1] >= Today - RollupDays}
  /\ dayCache' = [d \in Days |-> IF d >= Today - RollupDays THEN dayCache[d]
                                 ELSE [stamp |-> NoStamp, rows |-> Nothing]]
  /\ monthCache' = [m \in Months |-> IF m >= Month(Today - RollupDays) THEN monthCache[m]
                                     ELSE [stamp |-> <<>>, rows |-> Nothing]]
  /\ flusher' = [flusher EXCEPT !.step = "refresh"]
  /\ UNCHANGED <<clock, at, channel, tail, blobs, fleet, boot, losses>>

\* A closed day and a closed month whose cache is missing or stale get a new one
\* (a month from its days), and the tail drops what it need not hold.
refresh ==
  /\ flusher.step = "refresh"
  /\ dayCache' = [d \in Days |->
       IF d < Today /\ DayStamp(d) # NoStamp /\ ~DayCurrent(d)
       THEN [stamp |-> DayStamp(d), rows |-> read_files(d)] ELSE dayCache[d]]
  /\ monthCache' = [m \in Months |->
       IF m < Month(Today) /\ MonthStamp(deltas, m) # <<>> /\ ~MonthCurrent(m)
       THEN [stamp |-> MonthStamp(deltas, m),
             rows  |-> SumOver([d \in MonthDays(deltas, m) |-> hourly_rows(d)])]
       ELSE monthCache[m]]
  /\ tail' = [tail EXCEPT !.rows = [r \in Records |->
       IF at[r] >= clock - TailDays * HoursPerDay THEN tail.rows[r] ELSE 0]]
  /\ flusher' = [flusher EXCEPT !.step = "wait"]
  /\ UNCHANGED <<clock, at, channel, raw, deltas, marks, blobs, fleet,
                 boot, losses>>

-----------------------------------------------------------------------------
(* The shipper *)

Marked(f) == <<f.day, f.name>> \in marks

\* A file is put as it reads, under a key with the node that ships it, and marked
\* when the store has answered.  An answer may be lost, or the process end before
\* the marker is there: the file is then put again, a minute or a restart later.
Put(f) ==
  /\ ~Marked(f)
  /\ blobs' = {b \in blobs : ~(b.node = boot /\ b.day = f.day /\ b.name = f.name)}
              \cup {[node |-> boot, day |-> f.day, name |-> f.name, rows |-> f.rows]}
  /\ marks' \in {marks, marks \cup {<<f.day, f.name>>}}
  /\ UNCHANGED <<clock, at, channel, flusher, tail, raw, deltas, dayCache, monthCache,
                 fleet, boot, losses>>

Foreign_ByNode(b) == b.node # boot
\* Objects of files that are on the local disk have been read there.
Foreign(b) == b.name \notin Names(deltas, b.day)

\* After the files, the objects; without a listing there are none, and an
\* object that cannot be fetched is passed over.
fleet_rollups ==
  /\ \E got \in SUBSET {b \in blobs : Foreign(b)} :
       fleet' = Counts(got)
  /\ UNCHANGED <<clock, at, channel, flusher, tail, disk, blobs, boot, losses>>

-----------------------------------------------------------------------------
(* Restarts *)

\* The process ends anywhere and another starts, with a node id of its own.
Start ==
  /\ boot < MaxBoots
  /\ boot' = boot + 1
  /\ channel' = {} /\ flusher' = [Idle EXCEPT !.step = "seed"]
  /\ tail' = [rows |-> Nothing, seeded |-> FALSE]
  /\ fleet' = Nothing
  /\ UNCHANGED <<clock, at, blobs>>

Restart == Start /\ UNCHANGED <<disk, losses>>

\* It starts in another place, where nothing is on disk.
Replace ==
  /\ losses < MaxLosses /\ losses' = losses + 1
  /\ Start
  /\ raw' = {} /\ deltas' = {} /\ marks' = {}
  /\ dayCache' = [d \in Days |-> [stamp |-> NoStamp, rows |-> Nothing]]
  /\ monthCache' = [m \in Months |-> [stamp |-> <<>>, rows |-> Nothing]]

flush == Take \/ CreateDelta \/ CloseDelta \/ DeltaFails
ship_partitions == \E f \in deltas : Put(f)

Next ==
  \/ Tick
  \/ \E r \in Records : record(r) \/ PeerShips(r)
  \/ seed_recent_rollups \/ flush \/ prune \/ refresh
  \/ ship_partitions \/ fleet_rollups
  \/ Restart \/ Replace

Spec == Init /\ [][Next]_vars

-----------------------------------------------------------------------------
(* What a report says *)

TailFloor == clock - TailDays * HoursPerDay
\* The midnight at which the tail takes over from the disk; the walk over the
\* disk stops there.
Ceiling == IF tail.seeded THEN Day(TailFloor) ELSE Day(LastHour) + 1
\* The midnight of the oldest partition on the local disk.
Earliest ==
  IF deltas \cup raw = {} THEN clock
  ELSE HoursPerDay * Min(DaysHeld(deltas) \cup DaysHeld(raw))

FirstDay(month) == month * DaysPerMonth
\* The days of the window that are read from disk, and the months among them
\* that are read from their caches.
Walked(since, until) == {d \in Day(since) .. Day(until) : d < Ceiling}
ByMonth(since, until) ==
  {m \in Months : /\ FirstDay(m) \in Walked(since, until)
                  /\ FirstDay(m + 1) * HoursPerDay <= until
                  /\ FirstDay(m + 1) <= Ceiling
                  /\ MonthCurrent(m)}

FromTail(since) ==
  [r \in Records |-> IF tail.seeded /\ at[r] >= Max({TailFloor, since - 1})
                     THEN tail.rows[r] ELSE 0]
FromDisk(since, until, hourly) ==
  LET months == IF hourly THEN {} ELSE ByMonth(since, until)
      days   == {d \in Walked(since, until) : Month(d) \notin months}
  IN Add(SumOver([m \in months |-> monthCache[m].rows]),
         SumOver([d \in days |-> hourly_rows(d)]))

\* How often each record is counted in a report on a window, by hours or days.
rollups_for_window(from, to, hourly) ==
  LET until == Min({to, clock})
      since == Max({from, Earliest})
      rows  == Add(FromTail(since), Add(FromDisk(since, until, hourly), fleet))
      start(r) == IF hourly THEN at[r] ELSE Day(at[r]) * HoursPerDay
      width == IF hourly THEN 1 ELSE HoursPerDay
  IN [r \in Records |-> IF since <= until /\ start(r) <= until /\ start(r) + width > since
                        THEN rows[r] ELSE 0]

-----------------------------------------------------------------------------
(* Properties *)

Hours == FirstHour .. LastHour
FileType == [day : Days, name : (0 .. MaxBoots) \X Nat, rows : SUBSET Records]

\* Every variable has its type, and the tail does not run ahead of the clock.
TypeOK ==
  /\ clock \in Hours /\ at \in [Records -> Hours \cup {Never}]
  /\ \A r \in Records : at[r] <= clock
  /\ channel \subseteq Records /\ Cardinality(channel) <= ChannelCap
  /\ flusher.step \in {"seed", "wait", "create", "close", "refresh"}
  /\ flusher.batch \subseteq Records /\ flusher.days \subseteq Days /\ flusher.seq \in Nat
  /\ flusher.step \in {"create", "close"} => flusher.days # {}
  /\ tail \in [rows : Rows, seeded : BOOLEAN]
  /\ raw \subseteq FileType /\ deltas \subseteq FileType
  /\ \A d \in Days : dayCache[d].rows \in Rows
  /\ \A m \in Months : monthCache[m].rows \in Rows
  /\ \A k \in marks : k[1] \in DaysHeld(deltas)
  /\ \A b \in blobs : b.node \in 0 .. boot /\ b.rows \subseteq Records
  /\ fleet \in Rows /\ boot \in 1 .. MaxBoots /\ losses \in 0 .. MaxLosses

\* Records whose rollup file is whole and on the local disk.
Kept == UNION {f.rows : f \in deltas}
Objects(r) == {b \in blobs : r \in b.rows}

\* No report on a window of any length that ends now counts a record twice,
\* whichever of the tail, the deltas, the caches and the objects of the fleet
\* hold it, unless the store itself holds it in two objects.
CountedOnce ==
  \A from \in FirstHour .. clock, hourly \in BOOLEAN :
    LET counted == rollups_for_window(from, clock, hourly)
    IN \A r \in Records : Cardinality(Objects(r)) <= 1 => counted[r] <= 1

\* A report on everything counts each record that is on the local disk, except
\* for the day in which the tail begins: hand-over from the files to the
\* caches, from the days to the months and to the tail, and a restart, drop
\* no other.
KeptCounted ==
  \A hourly \in BOOLEAN :
    LET counted == rollups_for_window(FirstHour, clock, hourly)
    IN \A r \in Kept : Day(at[r]) # Day(TailFloor) => counted[r] >= 1

\* "A stale or missing cache costs a fallback to the slow path, never a wrong
\* number": a cache that would be read says what the files say that it stands
\* for, although fingerprints are of names only and batches of a closed day
\* still arrive.
CachesHonest ==
  /\ \A d \in Days : DayCurrent(d) => dayCache[d].rows = read_files(d)
  /\ \A m \in Months : MonthCurrent(m) =>
       monthCache[m].rows = SumOver([d \in MonthDays(deltas, m) |-> read_files(d)])

\* History on disk is never overwritten, also by a process that numbers its
\* batches from nought again: it goes with its day or with its disk.
HistoryStands ==
  [][\A f \in deltas : f.rows # {} =>
       f \in deltas' \/ f.day < Today - RollupDays \/ losses' # losses]_vars
=============================================================================
