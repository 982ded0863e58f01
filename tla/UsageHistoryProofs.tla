-------------------------- MODULE UsageHistoryProofs --------------------------
(***************************************************************************)
(* Theorems about the usage history, for any records, days and months of   *)
(* any length, any reach of the tail and any retention.                    *)
(***************************************************************************)
EXTENDS UsageHistory, FiniteSetTheorems, WellFoundedInduction, TLAPS

-----------------------------------------------------------------------------
(* Days *)

\* A set of days has a first.
LEMMA FirstOf ==
  ASSUME NEW S \in SUBSET Nat, S # {}
  PROVE  Min(S) \in S /\ \A d \in S : Min(S) <= d
<1> DEFINE below == {ss \in Nat \X Nat : ss[1] < ss[2]}
<1>1. IsWellFoundedOn(below, Nat)
  BY NatLessThanWellFounded DEF OpToRel
<1> HIDE DEF below
<1>2. PICK x \in S : \A y \in S : ~(<<y, x>> \in below)
  BY <1>1, WFMin
<1>3. ASSUME NEW y \in S
      PROVE  x <= y
  <2>1. y \in Nat /\ x \in Nat
    OBVIOUS
  <2>2. y < x => <<y, x>> \in below
    BY <2>1 DEF below
  <2>3. QED
    BY <1>2, <2>1, <2>2
<1>4. QED
  BY <1>3 DEF Min

\* What is assumed of the constants, a fact at a time.
LEMMA Constants ==
  /\ HoursPerDay \in Nat \ {0} /\ DaysPerMonth \in Nat \ {0}
  /\ TailDays \in Nat \ {0} /\ Retention \in Nat /\ RollupDays \in Nat
  /\ TailDays <= RollupDays /\ Retention <= RollupDays
  /\ ChannelCap \in Nat \ {0} /\ MaxBoots \in Nat \ {0} /\ MaxLosses \in Nat
  /\ FirstHour \in Nat /\ LastHour \in Nat /\ FirstHour <= LastHour
  /\ TailDays * HoursPerDay \in Nat /\ TailDays * HoursPerDay <= FirstHour
<1>1. \A a, b \in Nat : a * b \in Nat
  OBVIOUS
<1>2. QED
  BY <1>1, HistoryAssumption DEF HistoryAssumption

\* An hour is of one day, and a later hour not of an earlier day.
LEMMA DayOf ==
  ASSUME NEW x \in Nat
  PROVE  /\ Day(x) \in Nat
         /\ Day(x) * HoursPerDay <= x /\ x < (Day(x) + 1) * HoursPerDay
         /\ \A y \in Nat : x <= y => Day(x) <= Day(y)
         /\ \A q \in Nat : q * HoursPerDay <= x => q <= Day(x)
         /\ \A q \in Nat : x < (q + 1) * HoursPerDay => Day(x) <= q
<1>1. \A n \in Nat \ {0}, y \in Nat :
        (y \div n) \in Nat /\ (y \div n) * n <= y /\ y < ((y \div n) + 1) * n
  OBVIOUS
<1>2. \A n \in Nat \ {0}, y, q \in Nat : q * n <= y => q <= (y \div n)
  <2> SUFFICES ASSUME NEW n \in Nat \ {0}, NEW y \in Nat, NEW q \in Nat, q * n <= y, q > (y \div n)
               PROVE  FALSE
    OBVIOUS
  <2> DEFINE k == y \div n
  <2>1. k \in Nat /\ y < (k + 1) * n /\ q >= k + 1
    BY <1>1
  <2> HIDE DEF k
  <2>2. (k + 1) * n <= q * n
    BY <2>1
  <2>3. (k + 1) * n \in Nat /\ q * n \in Nat
    BY <2>1
  <2>4. QED
    BY <2>1, <2>2, <2>3
<1>3. \A n \in Nat \ {0}, y, q \in Nat : y < (q + 1) * n => (y \div n) <= q
  <2> SUFFICES ASSUME NEW n \in Nat \ {0}, NEW y \in Nat, NEW q \in Nat, y < (q + 1) * n, (y \div n) > q
               PROVE  FALSE
    BY <1>1
  <2> DEFINE k == y \div n
  <2>1. k \in Nat /\ k * n <= y /\ k >= q + 1
    BY <1>1
  <2> HIDE DEF k
  <2>2. (q + 1) * n <= k * n
    BY <2>1
  <2>3. (q + 1) * n \in Nat /\ k * n \in Nat
    BY <2>1
  <2>4. QED
    BY <2>1, <2>2, <2>3
<1>4. HoursPerDay \in Nat \ {0}
  BY Constants
<1>5. Day(x) \in Nat /\ Day(x) * HoursPerDay <= x /\ x < (Day(x) + 1) * HoursPerDay
  BY <1>1, <1>4 DEF Day
<1>6. (\A q \in Nat : q * HoursPerDay <= x => q <= Day(x))
      /\ \A q \in Nat : x < (q + 1) * HoursPerDay => Day(x) <= q
  BY <1>2, <1>3, <1>4 DEF Day
<1>7. ASSUME NEW y \in Nat, x <= y
      PROVE  Day(x) <= Day(y)
  <2>1. Day(x) * HoursPerDay <= y
    BY <1>4, <1>5, <1>7
  <2>2. QED
    BY <1>2, <1>4, <1>5, <2>1 DEF Day
<1>8. QED
  BY <1>5, <1>6, <1>7

\* The tail begins a whole number of days ago.
LEMMA TailDay ==
  ASSUME NEW x \in Nat, NEW k \in Nat, k * HoursPerDay <= x
  PROVE  x - k * HoursPerDay \in Nat /\ Day(x - k * HoursPerDay) = Day(x) - k /\ k <= Day(x)
<1>1. HoursPerDay \in Nat \ {0}
  BY Constants
<1> DEFINE y == x - k * HoursPerDay
<1> DEFINE q == Day(x)
<1>2. k * HoursPerDay \in Nat /\ y \in Nat /\ x = y + k * HoursPerDay
  BY <1>1
<1>3. q \in Nat /\ q * HoursPerDay <= x /\ x < (q + 1) * HoursPerDay /\ k <= q
  BY DayOf
<1> HIDE DEF y, q
<1>4. \A a, b, n \in Nat : b <= a => (a - b) * n = a * n - b * n /\ (a - b + 1) * n = (a + 1) * n - b * n
                                     /\ a * n \in Nat /\ (a + 1) * n \in Nat
  OBVIOUS
<1>5. (q - k) * HoursPerDay = q * HoursPerDay - k * HoursPerDay
      /\ (q - k + 1) * HoursPerDay = (q + 1) * HoursPerDay - k * HoursPerDay
      /\ q * HoursPerDay \in Nat /\ (q + 1) * HoursPerDay \in Nat
  BY <1>1, <1>3, <1>4
<1>6. q - k \in Nat /\ (q - k) * HoursPerDay <= y /\ y < (q - k + 1) * HoursPerDay
  BY <1>2, <1>3, <1>5
<1>7. Day(y) \in Nat /\ q - k <= Day(y) /\ Day(y) <= q - k
  BY <1>2, <1>6, DayOf
<1>8. Day(y) = q - k
  BY <1>3, <1>7
<1>9. QED
  BY <1>2, <1>3, <1>8 DEF y, q

\* There are so many days, and an hour is of one of them.
LEMMA FiniteDays ==
  /\ IsFiniteSet(Days) /\ Days \in SUBSET Nat
  /\ \A h \in Hours : h \in Nat /\ Day(h) \in Days
<1>1. FirstHour \in Nat /\ LastHour \in Nat /\ Day(LastHour) \in Nat
  BY Constants, DayOf
<1>2. ASSUME NEW h \in Hours
      PROVE  h \in Nat /\ Day(h) \in Days
  <2>1. h \in Nat /\ h <= LastHour
    BY <1>1 DEF Hours
  <2>2. Day(h) \in Nat /\ Day(h) <= Day(LastHour)
    BY <1>1, <2>1, DayOf
  <2>3. QED
    BY <2>1, <2>2 DEF Days
<1>3. IsFiniteSet(Days)
  BY <1>1, FS_Interval DEF Days
<1>4. QED
  BY <1>2, <1>3 DEF Days

-----------------------------------------------------------------------------
(* Rows *)

\* The units that a family of rows has of a record.
Pile(parts, r) == UNION {{x} \X (1 .. parts[x][r]) : x \in DOMAIN parts}

LEMMA SumIsPile ==
  ASSUME NEW parts, NEW r \in Records
  PROVE  SumOver(parts)[r] = Cardinality(Pile(parts, r))
BY DEF SumOver, Pile

\* One part's units.
LEMMA OnePile ==
  ASSUME NEW x, NEW n \in Nat
  PROVE  IsFiniteSet({x} \X (1 .. n)) /\ Cardinality({x} \X (1 .. n)) = n
<1>1. IsFiniteSet({x}) /\ Cardinality({x}) = 1
  BY FS_Singleton
<1>2. IsFiniteSet(1 .. n) /\ Cardinality(1 .. n) = n
  BY FS_Interval
<1>3. /\ IsFiniteSet({x} \X (1 .. n))
      /\ Cardinality({x} \X (1 .. n)) = Cardinality({x}) * Cardinality(1 .. n)
  BY <1>1, <1>2, FS_Product
<1>4. QED
  BY <1>1, <1>2, <1>3

\* Finitely many parts have finitely many units.
LEMMA FinitePile ==
  ASSUME NEW D, IsFiniteSet(D), NEW parts \in [D -> Rows], NEW r \in Records
  PROVE  IsFiniteSet(Pile(parts, r)) /\ Cardinality(Pile(parts, r)) \in Nat
<1> DEFINE piles == {{x} \X (1 .. parts[x][r]) : x \in D}
<1> DEFINE under == [x \in D |-> {x} \X (1 .. parts[x][r])]
<1>1. under \in Surjection(D, piles)
  BY DEF Surjection
<1>2. IsFiniteSet(piles)
  BY <1>1, FS_Surjection
<1>3. ASSUME NEW T \in piles
      PROVE  IsFiniteSet(T)
  <2>1. PICK x \in D : T = {x} \X (1 .. parts[x][r])
    OBVIOUS
  <2>2. parts[x][r] \in Nat
    BY DEF Rows
  <2>3. QED
    BY <2>1, <2>2, OnePile
<1>4. Pile(parts, r) = UNION piles
  BY DEF Pile
<1> HIDE DEF piles, under
<1>5. QED
  BY <1>2, <1>3, <1>4, FS_UNION, FS_CardinalityType

\* Each part is in the sum.
LEMMA SumAtLeast ==
  ASSUME NEW D, IsFiniteSet(D), NEW parts \in [D -> Rows], NEW r \in Records, NEW x \in D
  PROVE  parts[x][r] <= SumOver(parts)[r]
<1> DEFINE own == {x} \X (1 .. parts[x][r])
<1>1. own \in SUBSET Pile(parts, r)
  BY DEF Pile
<1>2. parts[x][r] \in Nat
  BY DEF Rows
<1>3. Cardinality(own) = parts[x][r]
  BY <1>2, OnePile
<1> HIDE DEF own
<1>4. QED
  BY <1>1, <1>3, FinitePile, SumIsPile, FS_Subset

\* When no other part has a record, the sum has it as often as that part.
LEMMA SumOfOne ==
  ASSUME NEW D, IsFiniteSet(D), NEW parts \in [D -> Rows], NEW r \in Records, NEW x,
         \A y \in D : y # x => parts[y][r] = 0
  PROVE  SumOver(parts)[r] = IF x \in D THEN parts[x][r] ELSE 0
<1>1. \A y \in D : y # x => {y} \X (1 .. parts[y][r]) = {}
  OBVIOUS
<1>2. CASE x \in D
  <2> DEFINE n == parts[x][r]
  <2>1. Pile(parts, r) = {x} \X (1 .. n)
    BY <1>1, <1>2 DEF Pile
  <2>2. n \in Nat
    BY <1>2 DEF Rows
  <2> HIDE DEF n
  <2>3. SumOver(parts)[r] = n
    <3>1. SumOver(parts)[r] = Cardinality(Pile(parts, r))
      BY SumIsPile
    <3>2. Cardinality({x} \X (1 .. n)) = n
      BY <2>2, OnePile
    <3>3. QED
      BY <2>1, <3>1, <3>2
  <2>4. QED
    BY <1>2, <2>3 DEF n
<1>3. CASE x \notin D
  <2>1. Pile(parts, r) = {}
    BY <1>1, <1>3 DEF Pile
  <2>2. QED
    BY <1>3, <2>1, SumIsPile, FS_EmptySet
<1>4. QED
  BY <1>2, <1>3

\* Sums of rows are rows.
LEMMA SumTyped ==
  ASSUME NEW D, IsFiniteSet(D), NEW parts \in [D -> Rows]
  PROVE  SumOver(parts) \in Rows
<1>1. \A r \in Records : SumOver(parts)[r] \in Nat
  BY FinitePile, SumIsPile
<1>2. QED
  BY <1>1 DEF SumOver, Rows

LEMMA RowsTyped ==
  /\ Nothing \in Rows
  /\ \A a, b \in Rows : Add(a, b) \in Rows
  /\ \A batch : Fold(batch) \in Rows
BY DEF Rows, Nothing, Add, Fold

\* What finitely many files or objects count.
LEMMA CountsTyped ==
  ASSUME NEW holders, IsFiniteSet(holders)
  PROVE  Counts(holders) \in Rows
<1>1. ASSUME NEW r \in Records
      PROVE  Cardinality({h \in holders : r \in h.rows}) \in Nat
  <2>1. {h \in holders : r \in h.rows} \in SUBSET holders
    OBVIOUS
  <2>2. QED
    BY <2>1, FS_Subset, FS_CardinalityType
<1>2. QED
  BY <1>1 DEF Counts, Rows

LEMMA HeldTyped ==
  ASSUME NEW files, IsFiniteSet(files), NEW d
  PROVE  Held(files, d) \in Rows
<1>1. Of(files, d) \in SUBSET files
  BY DEF Of
<1>2. QED
  BY <1>1, FS_Subset, CountsTyped DEF Held

-----------------------------------------------------------------------------
(* Types *)

AtWork == flusher.step \in {"create", "close"}

Steps == {"seed", "wait", "create", "close", "refresh"}
NameType == (0 .. MaxBoots) \X Nat
FlusherType == [step : Steps, batch : SUBSET Records, days : SUBSET Days, seq : Nat]
StampType == [kind : {"none", "rollups", "records"}, names : SUBSET NameType]
DayCaches == [Days -> [stamp : StampType, rows : Rows]]
MonthCaches == [Months -> [stamp : Seq(SUBSET NameType), rows : Rows]]
BlobType == [node : 0 .. MaxBoots, day : Days, name : NameType, rows : SUBSET Records]

Shape ==
  /\ clock \in Hours
  /\ at \in [Records -> Hours \cup {Never}] /\ \A r \in Records : at[r] <= clock
  /\ channel \in SUBSET Records /\ IsFiniteSet(channel) /\ Cardinality(channel) <= ChannelCap
  /\ \A r \in channel \cup flusher.batch : at[r] # Never
  /\ flusher \in FlusherType
  /\ AtWork => flusher.days # {}
  /\ ~AtWork => flusher.batch = {} /\ flusher.days = {}
  /\ tail \in [rows : Rows, seeded : BOOLEAN]
  /\ raw \in SUBSET FileType /\ IsFiniteSet(raw)
  /\ deltas \in SUBSET FileType /\ IsFiniteSet(deltas)
  /\ \A k \in marks : k[1] \in DaysHeld(deltas)
  /\ dayCache \in DayCaches /\ monthCache \in MonthCaches
  /\ blobs \in SUBSET BlobType /\ IsFiniteSet(blobs) /\ \A b \in blobs : b.node <= boot
  /\ fleet \in Rows
  /\ boot \in 1 .. MaxBoots /\ losses \in 0 .. MaxLosses

\* Reading the disk, through its caches or not, yields rows.
LEMMA Reads ==
  ASSUME Shape
  PROVE  /\ \A d : read_files(d) \in Rows
         /\ \A d \in Days : hourly_rows(d) \in Rows /\ dayCache[d] \in [stamp : StampType, rows : Rows]
         /\ Today \in Days /\ Today \in Nat /\ Today - 1 \in Days /\ clock \in Nat
<1>1. \A d : read_files(d) \in Rows
  BY HeldTyped DEF Shape, read_files
<1>2. \A d \in Days : dayCache[d] \in [stamp : StampType, rows : Rows]
  BY DEF Shape, DayCaches
<1>3. clock \in Hours /\ clock \in Nat /\ FirstHour <= clock /\ Today \in Days /\ Today \in Nat
  <2>1. clock \in Hours
    BY DEF Shape
  <2>2. clock \in Nat /\ Day(clock) \in Days /\ Day(clock) \in Nat
    BY <2>1, FiniteDays
  <2>3. FirstHour <= clock
    BY <2>1, Constants DEF Hours
  <2>4. QED
    BY <2>1, <2>2, <2>3 DEF Today
<1>4. TailDays <= Today
  BY <1>3, Constants, TailDay DEF Today
<1>5. Today - 1 \in Days
  <2>1. Day(LastHour) \in Nat /\ TailDays \in Nat \ {0}
    BY Constants, DayOf
  <2>2. QED
    BY <1>3, <1>4, <2>1 DEF Days
<1>6. QED
  BY <1>1, <1>2, <1>3, <1>5 DEF hourly_rows

\* A record that has come is of a day.
LEMMA Stamped ==
  ASSUME Shape, NEW r \in Records, at[r] # Never
  PROVE  at[r] \in Hours /\ at[r] \in Nat /\ Day(at[r]) \in Days
BY FiniteDays DEF Shape

\* The flusher's name is one.
LEMMA NameTyped ==
  ASSUME Shape
  PROVE  Name \in NameType /\ flusher.seq \in Nat /\ boot \in Nat \ {0} /\ boot \in 0 .. MaxBoots
         /\ \A day \in Days, rows \in SUBSET Records : File(day, Name, rows) \in FileType
<1>1. flusher.seq \in Nat /\ boot \in 1 .. MaxBoots
  BY DEF Shape, FlusherType
<1>2. Name \in NameType
  BY <1>1, Constants DEF Name, NameType
<1>3. QED
  BY <1>1, <1>2, Constants DEF File, FileType, NameType

\* A batch that is done with leaves the flusher idle.
LEMMA DoneTyped ==
  ASSUME Shape, Done
  PROVE  flusher' \in FlusherType /\ flusher'.step = "wait" /\ flusher'.batch = {}
         /\ flusher'.days = {} /\ flusher'.seq = flusher.seq + 1
BY DEF Shape, Done, Idle, FlusherType, Steps

\* What is begun at the start of a process.
LEMMA StartTyped ==
  /\ [Idle EXCEPT !.step = "seed"] \in FlusherType
  /\ [Idle EXCEPT !.step = "seed"].step = "seed"
  /\ [Idle EXCEPT !.step = "seed"].batch = {} /\ [Idle EXCEPT !.step = "seed"].days = {}
  /\ [d \in Days |-> [stamp |-> NoStamp, rows |-> Nothing]] \in DayCaches
  /\ [m \in Months |-> [stamp |-> <<>>, rows |-> Nothing]] \in MonthCaches
  /\ [rows |-> Nothing, seeded |-> FALSE] \in [rows : Rows, seeded : BOOLEAN]
<1>1. Nothing \in Rows /\ NoStamp \in StampType /\ <<>> \in Seq(SUBSET NameType)
  BY RowsTyped DEF NoStamp, StampType
<1>2. [d \in Days |-> [stamp |-> NoStamp, rows |-> Nothing]] \in DayCaches
  BY <1>1 DEF DayCaches
<1>3. [m \in Months |-> [stamp |-> <<>>, rows |-> Nothing]] \in MonthCaches
  BY <1>1 DEF MonthCaches
<1>4. QED
  BY <1>1, <1>2, <1>3 DEF Idle, FlusherType, Steps

\* Files of a batch, one for each of some days.
LEMMA BatchFiles ==
  ASSUME Shape, NEW batch \in SUBSET Records, NEW written \in SUBSET Days
  PROVE  LET new == {File(d, Name, In(batch, d)) : d \in written}
         IN  new \in SUBSET FileType /\ IsFiniteSet(new)
<1> DEFINE new == {File(d, Name, In(batch, d)) : d \in written}
<1> DEFINE by == [d \in written |-> File(d, Name, In(batch, d))]
<1>1. by \in Surjection(written, new)
  BY DEF Surjection
<1>2. IsFiniteSet(written)
  BY FiniteDays, FS_Subset
<1>3. IsFiniteSet(new)
  BY <1>1, <1>2, FS_Surjection
<1>4. \A d \in written : In(batch, d) \in SUBSET Records
  BY DEF In
<1>5. new \in SUBSET FileType
  BY <1>4, NameTyped
<1>6. QED
  BY <1>3, <1>5

\* Writing a file of its day and its name.
LEMMA WriteTyped ==
  ASSUME NEW files \in SUBSET FileType, IsFiniteSet(files), NEW file \in FileType
  PROVE  /\ Write(files, file) \in SUBSET FileType /\ IsFiniteSet(Write(files, file))
         /\ DaysHeld(Write(files, file)) = DaysHeld(files) \cup {file.day}
         /\ file \in Write(files, file)
         /\ \A f \in Write(files, file) : f = file \/ (f \in files /\ ~(f.day = file.day /\ f.name = file.name))
         /\ \A f \in files : f \in Write(files, file) \/ (f.day = file.day /\ f.name = file.name)
<1> DEFINE kept == {f \in files : ~(f.day = file.day /\ f.name = file.name)}
<1>1. Write(files, file) = kept \cup {file}
  BY DEF Write
<1>2. IsFiniteSet(kept)
  BY FS_Subset
<1>3. IsFiniteSet(kept \cup {file})
  BY <1>2, FS_AddElement
<1>4. QED
  BY <1>1, <1>3 DEF DaysHeld

\* The days of records that have come are days.
LEMMA DaysOfTyped ==
  ASSUME Shape, NEW batch \in SUBSET Records, \A r \in batch : at[r] # Never
  PROVE  DaysOf(batch) \in SUBSET Days /\ (batch # {} => DaysOf(batch) # {})
BY Stamped DEF DaysOf

\* The days of a month that are held are days.
LEMMA MonthDaysTyped ==
  ASSUME Shape, NEW m
  PROVE  MonthDays(deltas, m) \in SUBSET Days /\ IsFiniteSet(MonthDays(deltas, m))
<1>1. MonthDays(deltas, m) \in SUBSET Days
  BY DEF Shape, MonthDays, DaysHeld, FileType
<1>2. QED
  BY <1>1, FiniteDays, FS_Subset

\* A month's rows are rows.
LEMMA MonthTyped ==
  ASSUME Shape, NEW m
  PROVE  SumOver([d \in MonthDays(deltas, m) |-> hourly_rows(d)]) \in Rows
<1> DEFINE days == MonthDays(deltas, m)
<1> DEFINE parts == [d \in days |-> hourly_rows(d)]
<1>1. IsFiniteSet(days) /\ \A d \in days : hourly_rows(d) \in Rows
  BY MonthDaysTyped, Reads
<1>2. parts \in [days -> Rows]
  BY <1>1
<1> HIDE DEF days, parts
<1>3. SumOver(parts) \in Rows
  BY <1>1, <1>2, SumTyped
<1>4. QED
  BY <1>3 DEF parts, days

\* Fingerprints are of names.
LEMMA StampsTyped ==
  ASSUME Shape
  PROVE  /\ \A d : DayStamp(d) \in StampType
         /\ \A m : MonthStamp(deltas, m) \in Seq(SUBSET NameType)
<1>1. \A d : Names(deltas, d) \in SUBSET NameType /\ Names(raw, d) \in SUBSET NameType
  BY DEF Shape, Names, Of, FileType, NameType
<1>2. \A d : DayStamp(d) \in StampType
  BY <1>1 DEF DayStamp, NoStamp, StampType
<1>3. \A m : MonthStamp(deltas, m) \in Seq(SUBSET NameType)
  <2> TAKE m
  <2> DEFINE n == Cardinality(MonthDays(deltas, m))
  <2> DEFINE nth(i) == CHOOSE d \in MonthDays(deltas, m) :
                         Cardinality({e \in MonthDays(deltas, m) : e <= d}) = i
  <2>1. n \in Nat
    BY MonthDaysTyped, FS_CardinalityType
  <2>2. MonthStamp(deltas, m) = [i \in 1 .. n |-> Names(deltas, nth(i))]
    BY DEF MonthStamp
  <2> HIDE DEF n, nth
  <2>3. QED
    BY <1>1, <2>1, <2>2
<1>4. QED
  BY <1>2, <1>3

\* Requests, and time.
LEMMA ShapeRequests ==
  ASSUME Shape, Tick \/ \E r \in Records : record(r) \/ PeerShips(r)
  PROVE  Shape'
<1>1. CASE Tick
  <2>1. clock' = clock + 1 /\ clock' \in Hours /\ clock \in Int
    BY <1>1, Constants DEF Tick, Shape, Hours
  <2>2. UNCHANGED <<at, channel, flusher, tail, disk, blobs, fleet, boot, losses>>
    BY <1>1 DEF Tick
  <2>3. \A r \in Records : at[r] \in Int
    BY Constants DEF Shape, Hours, Never
  <2>4. QED
    BY <2>1, <2>2, <2>3 DEF Shape, disk, AtWork
<1>2. ASSUME NEW r \in Records, record(r)
      PROVE  Shape'
  <2>1. UNCHANGED <<clock, flusher, tail, disk, blobs, fleet, boot, losses>>
        /\ at' = [at EXCEPT ![r] = clock]
        /\ channel' = IF Cardinality(channel) < ChannelCap THEN channel \cup {r} ELSE channel
    BY <1>2 DEF record
  <2>2. channel' \in SUBSET Records /\ IsFiniteSet(channel') /\ Cardinality(channel') <= ChannelCap
        /\ channel' \subseteq channel \cup {r}
    <3> DEFINE more == channel \cup {r}
    <3>1. IsFiniteSet(more) /\ Cardinality(channel) \in Nat
          /\ more \in SUBSET Records
          /\ (r \in channel => more = channel)
          /\ (r \notin channel => Cardinality(more) = Cardinality(channel) + 1)
      BY FS_AddElement, FS_CardinalityType DEF Shape
    <3> HIDE DEF more
    <3>2. channel \in SUBSET Records /\ IsFiniteSet(channel) /\ Cardinality(channel) <= ChannelCap
          /\ ChannelCap \in Nat
      BY Constants DEF Shape
    <3>3. CASE Cardinality(channel) < ChannelCap
      <4>1. channel' = more /\ more \subseteq channel \cup {r}
        BY <2>1, <3>3 DEF more
      <4>2. Cardinality(more) <= ChannelCap
        BY <3>1, <3>2, <3>3
      <4>3. QED
        BY <3>1, <4>1, <4>2
    <3>4. CASE ~(Cardinality(channel) < ChannelCap)
      BY <2>1, <3>2, <3>4
    <3>5. QED
      BY <3>3, <3>4
  <2>3. clock \in Nat /\ clock \in Hours
    BY Reads DEF Shape
  <2>4. at' \in [Records -> Hours \cup {Never}] /\ (\A q \in Records : at'[q] <= clock)
        /\ \A q \in channel' \cup flusher.batch : at'[q] # Never
    BY <2>1, <2>2, <2>3 DEF Shape, Never, FlusherType
  <2>5. QED
    BY <2>1, <2>2, <2>4 DEF Shape, disk, AtWork
<1>3. ASSUME NEW r \in Records, PeerShips(r)
      PROVE  Shape'
  <2> DEFINE new == [node |-> 0, day |-> Today, name |-> <<0, 0>>, rows |-> {r}]
  <2>1. UNCHANGED <<clock, channel, flusher, tail, disk, fleet, boot, losses>>
        /\ at' = [at EXCEPT ![r] = clock] /\ blobs' = blobs \cup {new}
    BY <1>3 DEF PeerShips
  <2>2. new \in BlobType /\ new.node = 0
    BY Reads, Constants DEF BlobType, NameType
  <2>3. clock \in Nat /\ clock \in Hours /\ boot \in Nat
    BY Reads, NameTyped DEF Shape
  <2>4. at' \in [Records -> Hours \cup {Never}] /\ (\A q \in Records : at'[q] <= clock)
        /\ \A q \in channel \cup flusher.batch : at'[q] # Never
    BY <2>1, <2>3 DEF Shape, Never, FlusherType
  <2> HIDE DEF new
  <2>5. blobs' \in SUBSET BlobType /\ IsFiniteSet(blobs') /\ \A b \in blobs' : b.node <= boot
    BY <2>1, <2>2, <2>3, FS_AddElement DEF Shape
  <2>6. QED
    BY <2>1, <2>3, <2>4, <2>5 DEF Shape, disk, AtWork
<1>4. QED
  BY <1>1, <1>2, <1>3

\* The flusher's work on a batch.
LEMMA ShapeFlush ==
  ASSUME Shape, flush
  PROVE  Shape'
<1>1. CASE Take
  <2>1. PICK written \in SUBSET DaysOf(channel) :
          raw' = raw \cup {File(d, Name, In(channel, d)) : d \in written}
    BY <1>1 DEF Take, write_batch
  <2>2. channel \in SUBSET Records /\ DaysOf(channel) \in SUBSET Days /\ DaysOf(channel) # {}
    BY <1>1, DaysOfTyped DEF Shape, Take
  <2>3. raw' \in SUBSET FileType /\ IsFiniteSet(raw')
    <3> DEFINE new == {File(d, Name, In(channel, d)) : d \in written}
    <3>1. new \in SUBSET FileType /\ IsFiniteSet(new)
      BY <2>2, BatchFiles
    <3> HIDE DEF new
    <3>2. raw' = raw \cup new
      BY <2>1 DEF new
    <3>3. QED
      BY <3>1, <3>2, FS_Union DEF Shape
  <2>4. tail' \in [rows : Rows, seeded : BOOLEAN]
    <3>1. Add(tail.rows, Fold(channel)) \in Rows
      BY RowsTyped DEF Shape
    <3>2. tail' = [tail EXCEPT !.rows = Add(tail.rows, Fold(channel))]
      BY <1>1 DEF Take
    <3>3. QED
      BY <3>1, <3>2 DEF Shape
  <2>5. flusher' \in FlusherType /\ flusher'.step = "create" /\ flusher'.batch = channel
        /\ flusher'.days = DaysOf(channel)
    BY <1>1, <2>2 DEF Take, Shape, FlusherType, Steps
  <2>6. channel' = {} /\ UNCHANGED <<clock, at, deltas, dayCache, monthCache, marks, blobs,
                                     fleet, boot, losses>>
    BY <1>1 DEF Take
  <2>7. IsFiniteSet(channel') /\ Cardinality(channel') = 0
    BY <2>6, FS_EmptySet
  <2>8. QED
    BY <2>2, <2>3, <2>4, <2>5, <2>6, <2>7, Constants DEF Shape, AtWork
<1>2. ASSUME NEW file \in FileType, deltas' = Write(deltas, file),
             flusher' \in FlusherType, flusher'.batch \subseteq flusher.batch,
             AtWork' => flusher'.days # {},
             ~AtWork' => flusher'.batch = {} /\ flusher'.days = {},
             UNCHANGED <<clock, at, channel, tail, raw, dayCache, monthCache,
                         marks, blobs, fleet, boot, losses>>
      PROVE  Shape'
  <2>1. deltas' \in SUBSET FileType /\ IsFiniteSet(deltas') /\ DaysHeld(deltas) \subseteq DaysHeld(deltas')
    BY <1>2, WriteTyped DEF Shape
  <2>2. QED
    BY <1>2, <2>1 DEF Shape
<1>3. ASSUME AtWork
      PROVE  Min(flusher.days) \in flusher.days /\ Min(flusher.days) \in Days
             /\ In(flusher.batch, Min(flusher.days)) \in SUBSET Records /\ {} \in SUBSET Records
             /\ flusher.days \in SUBSET Days
  <2>1. flusher.days \in SUBSET Days /\ flusher.days # {} /\ flusher.batch \in SUBSET Records
    BY <1>3 DEF Shape, FlusherType
  <2>2. Min(flusher.days) \in flusher.days
    BY <2>1, FiniteDays, FirstOf
  <2>3. QED
    BY <2>1, <2>2 DEF In
<1>4. CASE CreateDelta
  <2>1. AtWork
    BY <1>4 DEF CreateDelta, AtWork
  <2>2. File(Min(flusher.days), Name, {}) \in FileType
    BY <1>3, <2>1, NameTyped
  <2>3. flusher' \in FlusherType /\ flusher'.batch = flusher.batch /\ flusher'.days = flusher.days
    BY <1>4 DEF CreateDelta, Shape, FlusherType, Steps
  <2>4. flusher'.step = "close"
    BY <1>4 DEF CreateDelta, Shape, FlusherType
  <2>5. QED
    BY <1>2, <1>4, <2>1, <2>2, <2>3, <2>4 DEF CreateDelta, AtWork, Shape
<1>5. CASE CloseDelta
  <2> DEFINE day == Min(flusher.days)
  <2>1. AtWork
    BY <1>5 DEF CloseDelta, AtWork
  <2>2. File(day, Name, In(flusher.batch, day)) \in FileType
    BY <1>3, <2>1, NameTyped
  <2>3. flusher' \in FlusherType /\ flusher'.batch \subseteq flusher.batch
        /\ (AtWork' => flusher'.days # {})
        /\ (~AtWork' => flusher'.batch = {} /\ flusher'.days = {})
    <3>1. CASE flusher.days = {day}
      BY <1>5, <3>1, DoneTyped DEF CloseDelta, AtWork
    <3>2. CASE flusher.days # {day}
      <4>1. flusher' = [flusher EXCEPT !.step = "create", !.days = @ \ {day}]
        BY <1>5, <3>2 DEF CloseDelta
      <4>2. flusher.days \ {day} # {}
        BY <1>3, <2>1, <3>2
      <4> HIDE DEF day
      <4>3. QED
        BY <4>1, <4>2 DEF Shape, FlusherType, Steps, AtWork
    <3>3. QED
      BY <3>1, <3>2
  <2>4. deltas' = Write(deltas, File(day, Name, In(flusher.batch, day)))
        /\ UNCHANGED <<clock, at, channel, tail, raw, dayCache, monthCache, marks,
                       blobs, fleet, boot, losses>>
    BY <1>5 DEF CloseDelta
  <2> HIDE DEF day
  <2>5. QED
    BY <1>2, <2>2, <2>3, <2>4
<1>6. CASE DeltaFails
  BY <1>6, DoneTyped DEF DeltaFails, Shape, disk, AtWork
<1>7. QED
  BY <1>1, <1>4, <1>5, <1>6 DEF flush

\* Its maintenance, the shipper and restarts.
LEMMA ShapeRest ==
  ASSUME Shape, seed_recent_rollups \/ prune \/ refresh \/ ship_partitions \/ fleet_rollups
                \/ Restart \/ Replace
  PROVE  Shape'
<1>1. CASE seed_recent_rollups
  <2>1. Add(tail.rows, Add(hourly_rows(Today), hourly_rows(Today - 1))) \in Rows
    BY Reads, RowsTyped DEF Shape
  <2>2. tail' \in [rows : Rows, seeded : BOOLEAN]
    BY <1>1, <2>1 DEF seed_recent_rollups
  <2>3. flusher' \in FlusherType /\ flusher'.step = "wait"
        /\ flusher'.batch = flusher.batch /\ flusher'.days = flusher.days
    BY <1>1 DEF seed_recent_rollups, Shape, FlusherType, Steps
  <2>4. UNCHANGED <<clock, at, channel, disk, blobs, fleet, boot, losses>> /\ ~AtWork
    BY <1>1 DEF seed_recent_rollups, AtWork
  <2>5. QED
    BY <2>2, <2>3, <2>4 DEF Shape, disk, AtWork
<1>2. CASE prune
  <2>1. raw' \in SUBSET raw /\ deltas' \in SUBSET deltas
        /\ (\A f \in deltas : f.day >= Today - RollupDays => f \in deltas')
        /\ (\A k \in marks' : k \in marks /\ k[1] >= Today - RollupDays)
    BY <1>2 DEF prune
  <2>2. raw' \in SUBSET FileType /\ IsFiniteSet(raw') /\ deltas' \in SUBSET FileType /\ IsFiniteSet(deltas')
    BY <2>1, FS_Subset DEF Shape
  <2>3. \A k \in marks' : k[1] \in DaysHeld(deltas')
    BY <2>1 DEF Shape, DaysHeld
  <2>4. dayCache' \in DayCaches
    <3>1. [stamp |-> NoStamp, rows |-> Nothing] \in [stamp : StampType, rows : Rows]
      BY RowsTyped DEF NoStamp, StampType
    <3>2. QED
      BY <1>2, <3>1 DEF prune, Shape, DayCaches
  <2>5. monthCache' \in MonthCaches
    <3>1. [stamp |-> <<>>, rows |-> Nothing] \in [stamp : Seq(SUBSET NameType), rows : Rows]
      BY RowsTyped
    <3>2. QED
      BY <1>2, <3>1 DEF prune, Shape, MonthCaches
  <2>6. flusher' \in FlusherType /\ flusher'.step = "refresh"
        /\ flusher'.batch = flusher.batch /\ flusher'.days = flusher.days /\ ~AtWork
    BY <1>2 DEF prune, Shape, FlusherType, Steps, AtWork
  <2>7. UNCHANGED <<clock, at, channel, tail, blobs, fleet, boot, losses>>
    BY <1>2 DEF prune
  <2>8. QED
    BY <2>2, <2>3, <2>4, <2>5, <2>6, <2>7 DEF Shape, AtWork
<1>3. CASE refresh
  <2>1. dayCache' \in DayCaches
    <3>1. \A d \in Days : [stamp |-> DayStamp(d), rows |-> read_files(d)] \in [stamp : StampType, rows : Rows]
      BY StampsTyped, Reads
    <3>2. QED
      BY <1>3, <3>1 DEF refresh, Shape, DayCaches
  <2>2. monthCache' \in MonthCaches
    <3>1. \A m \in Months :
            [stamp |-> MonthStamp(deltas, m),
             rows  |-> SumOver([d \in MonthDays(deltas, m) |-> hourly_rows(d)])]
              \in [stamp : Seq(SUBSET NameType), rows : Rows]
      BY StampsTyped, MonthTyped
    <3>2. QED
      BY <1>3, <3>1 DEF refresh, Shape, MonthCaches
  <2>3. tail' \in [rows : Rows, seeded : BOOLEAN]
    <3> DEFINE kept == [r \in Records |-> IF at[r] >= clock - TailDays * HoursPerDay
                                          THEN tail.rows[r] ELSE 0]
    <3>1. kept \in Rows
      BY DEF Shape, Rows
    <3>2. tail' = [tail EXCEPT !.rows = kept]
      BY <1>3 DEF refresh
    <3> HIDE DEF kept
    <3>3. QED
      BY <3>1, <3>2 DEF Shape
  <2>4. flusher' \in FlusherType /\ flusher'.step = "wait"
        /\ flusher'.batch = flusher.batch /\ flusher'.days = flusher.days /\ ~AtWork
    BY <1>3 DEF refresh, Shape, FlusherType, Steps, AtWork
  <2>5. UNCHANGED <<clock, at, channel, raw, deltas, marks, blobs, fleet, boot, losses>>
    BY <1>3 DEF refresh
  <2>6. QED
    BY <2>1, <2>2, <2>3, <2>4, <2>5 DEF Shape, AtWork
<1>4. CASE ship_partitions
  <2>1. PICK f \in deltas : Put(f)
    BY <1>4 DEF ship_partitions
  <2> DEFINE new == [node |-> boot, day |-> f.day, name |-> f.name, rows |-> f.rows]
  <2> DEFINE others == {b \in blobs : ~(b.node = boot /\ b.day = f.day /\ b.name = f.name)}
  <2>2. new \in BlobType /\ new.node = boot
    BY NameTyped DEF Shape, FileType, BlobType, NameType
  <2>3. others \in SUBSET blobs /\ IsFiniteSet(others)
    BY FS_Subset DEF Shape
  <2>4. blobs' = others \cup {new} /\ marks' \subseteq marks \cup {<<f.day, f.name>>}
    BY <2>1 DEF Put
  <2> HIDE DEF new, others
  <2>5. blobs' \in SUBSET BlobType /\ IsFiniteSet(blobs') /\ \A b \in blobs' : b.node <= boot
    BY <2>2, <2>3, <2>4, FS_AddElement, NameTyped DEF Shape
  <2>6. \A k \in marks' : k[1] \in DaysHeld(deltas)
    BY <2>4 DEF Shape, DaysHeld
  <2>7. UNCHANGED <<clock, at, channel, flusher, tail, raw, deltas, dayCache, monthCache,
                    fleet, boot, losses>>
    BY <2>1 DEF Put
  <2>8. QED
    BY <2>5, <2>6, <2>7 DEF Shape, AtWork
<1>5. CASE fleet_rollups
  <2>1. PICK got \in SUBSET {b \in blobs : Foreign(b)} : fleet' = Counts(got)
    BY <1>5 DEF fleet_rollups
  <2>2. IsFiniteSet(got)
    BY FS_Subset DEF Shape
  <2>3. fleet' \in Rows
    BY <2>1, <2>2, CountsTyped
  <2>4. UNCHANGED <<clock, at, channel, flusher, tail, disk, blobs, boot, losses>>
    BY <1>5 DEF fleet_rollups
  <2>5. QED
    BY <2>3, <2>4 DEF Shape, disk, AtWork
<1>6. CASE Restart \/ Replace
  <2>1. /\ boot' = boot + 1 /\ boot < MaxBoots
        /\ channel' = {} /\ flusher' = [Idle EXCEPT !.step = "seed"]
        /\ tail' = [rows |-> Nothing, seeded |-> FALSE] /\ fleet' = Nothing
        /\ UNCHANGED <<clock, at, blobs>>
    BY <1>6 DEF Restart, Replace, Start
  <2>2. boot \in Nat /\ boot' \in 1 .. MaxBoots /\ IsFiniteSet(channel') /\ Cardinality(channel') = 0
    BY <2>1, NameTyped, Constants, FS_EmptySet
  <2>3. \A b \in blobs' : b.node <= boot'
    <3>1. \A b \in blobs : b.node \in Int /\ b.node <= boot
      BY DEF Shape, BlobType
    <3>2. QED
      BY <2>1, <2>2, <3>1
  <2>4. fleet' \in Rows /\ tail' \in [rows : Rows, seeded : BOOLEAN] /\ flusher' \in FlusherType
        /\ ~AtWork' /\ flusher'.batch = {} /\ flusher'.days = {}
    BY <2>1, StartTyped, RowsTyped DEF AtWork
  <2>5. CASE UNCHANGED <<disk, losses>>
    BY <2>1, <2>2, <2>3, <2>4, <2>5, Constants DEF Shape, disk
  <2>6. CASE Replace
    <3>1. raw' = {} /\ deltas' = {} /\ marks' = {} /\ losses' \in 0 .. MaxLosses
      BY <2>6, Constants DEF Replace, Shape
    <3>2. dayCache' \in DayCaches /\ monthCache' \in MonthCaches
      BY <2>6, StartTyped DEF Replace
    <3>3. IsFiniteSet(raw') /\ IsFiniteSet(deltas')
      BY <3>1, FS_EmptySet
    <3>4. QED
      BY <2>1, <2>2, <2>3, <2>4, <3>1, <3>2, <3>3, Constants DEF Shape
  <2>7. QED
    BY <1>6, <2>5, <2>6 DEF Restart
<1>7. QED
  BY <1>1, <1>2, <1>3, <1>4, <1>5, <1>6

LEMMA ShapeInit == Init => Shape
<1> SUFFICES ASSUME Init
             PROVE  Shape
  OBVIOUS
<1>1. clock \in Hours /\ FirstHour \in Nat
  BY Constants DEF Init, Hours
<1>2. \A r \in Records : at[r] <= clock
  BY <1>1 DEF Init, Never
<1>3. flusher \in FlusherType /\ flusher.step = "seed" /\ flusher.batch = {} /\ flusher.days = {}
  BY StartTyped DEF Init
<1>4. IsFiniteSet({}) /\ Cardinality({}) = 0
  BY FS_EmptySet
<1>5. tail \in [rows : Rows, seeded : BOOLEAN] /\ fleet \in Rows
      /\ dayCache \in DayCaches /\ monthCache \in MonthCaches
  BY StartTyped, RowsTyped DEF Init
<1>6. channel = {} /\ raw = {} /\ deltas = {} /\ marks = {} /\ blobs = {}
      /\ at = [r \in Records |-> Never] /\ boot = 1 /\ losses = 0
  BY DEF Init
<1>7. QED
  BY <1>1, <1>2, <1>3, <1>4, <1>5, <1>6, Constants DEF Shape, AtWork

LEMMA ShapeStep == Shape /\ [Next]_vars => Shape'
<1>1. Shape /\ UNCHANGED vars => Shape'
  BY DEF Shape, vars, AtWork
<1>2. QED
  BY <1>1, ShapeRequests, ShapeFlush, ShapeRest DEF Next

-----------------------------------------------------------------------------
(* Names *)

\* Names of batches that are done with, by this process or one before it.
Old(n) == n[1] < boot \/ (n[1] = boot /\ n[2] < flusher.seq)

\* What has a name is of such a batch; or it is of the one in hand and of a day
\* that is done with, or torn.
Known(x) ==
  \/ Old(x.name)
  \/ /\ AtWork /\ x.name = Name
     /\ \/ x.day \notin flusher.days
        \/ flusher.step = "close" /\ x.day = Min(flusher.days) /\ x.rows = {}

Named ==
  /\ \A f \in deltas : Known(f)
  /\ \A f \in raw : Old(f.name) \/ (AtWork /\ f.name = Name)
  /\ \A b \in blobs : Known(b)
  /\ \A f, g \in deltas : f.day = g.day /\ f.name = g.name => f = g

\* The ways in which the number of a batch moves.
LEMMA Moves ==
  ASSUME Shape, [Next]_vars
  PROVE  \/ boot' = boot /\ flusher'.seq = flusher.seq /\ ~AtWork
         \/ boot' = boot /\ flusher' = flusher
         \/ boot' = boot /\ CreateDelta
         \/ boot' = boot /\ CloseDelta
         \/ boot' = boot /\ DeltaFails
         \/ boot' = boot + 1 /\ ~AtWork'
<1>1. CASE Tick \/ ship_partitions \/ fleet_rollups \/ UNCHANGED vars
           \/ \E r \in Records : record(r) \/ PeerShips(r)
  BY <1>1 DEF Tick, ship_partitions, Put, fleet_rollups, vars, record, PeerShips
<1>2. CASE seed_recent_rollups \/ prune \/ refresh \/ Take
  BY <1>2 DEF seed_recent_rollups, prune, refresh, Take, AtWork, Shape, FlusherType
<1>3. CASE CreateDelta \/ CloseDelta \/ DeltaFails
  BY <1>3 DEF CreateDelta, CloseDelta, DeltaFails
<1>4. CASE Restart \/ Replace
  BY <1>4, StartTyped DEF Restart, Replace, Start, AtWork
<1>5. QED
  BY <1>1, <1>2, <1>3, <1>4 DEF Next, flush

\* A batch that is done with stays so.
LEMMA OldStays ==
  ASSUME Shape, [Next]_vars, NEW n \in NameType, Old(n)
  PROVE  Old(n)'
<1>1. n[1] \in Nat /\ n[2] \in Nat /\ boot \in Nat /\ flusher.seq \in Nat
  BY NameTyped, Constants DEF NameType
<1>2. CASE boot' = boot /\ (flusher'.seq = flusher.seq \/ flusher'.seq = flusher.seq + 1)
  BY <1>1, <1>2 DEF Old
<1>3. CASE boot' = boot + 1
  BY <1>1, <1>3 DEF Old
<1>4. ASSUME CreateDelta \/ CloseDelta \/ DeltaFails
      PROVE  flusher'.seq = flusher.seq \/ flusher'.seq = flusher.seq + 1
  <2>1. CASE CreateDelta
    BY <2>1 DEF CreateDelta, Shape, FlusherType
  <2>2. CASE CloseDelta
    BY <2>2, DoneTyped DEF CloseDelta, Shape, FlusherType
  <2>3. CASE DeltaFails
    BY <2>3, DoneTyped DEF DeltaFails
  <2>4. QED
    BY <1>4, <2>1, <2>2, <2>3
<1>5. QED
  BY <1>2, <1>3, <1>4, Moves

\* What is known stays known.
LEMMA KnownStays ==
  ASSUME Shape, [Next]_vars, NEW x, x.name \in NameType, Known(x)
  PROVE  Known(x)'
<1>1. CASE Old(x.name)
  BY <1>1, OldStays DEF Known
<1>2. CASE ~Old(x.name)
  <2>1. AtWork /\ x.name = Name
        /\ (x.day \notin flusher.days
            \/ (flusher.step = "close" /\ x.day = Min(flusher.days) /\ x.rows = {}))
    BY <1>2 DEF Known
  <2>2. CASE boot' = boot /\ flusher' = flusher
    BY <2>1, <2>2 DEF Known, AtWork, Name
  <2>3. CASE boot' = boot /\ CreateDelta
    <3>1. flusher' = [flusher EXCEPT !.step = "close"] /\ flusher.step = "create"
      BY <2>3 DEF CreateDelta
    <3>2. flusher'.days = flusher.days /\ flusher'.seq = flusher.seq /\ flusher'.step = "close"
      BY <3>1 DEF Shape, FlusherType
    <3>3. Name' = Name /\ AtWork'
      BY <2>3, <3>2 DEF Name, AtWork
    <3>4. QED
      BY <2>1, <3>1, <3>2, <3>3 DEF Known
  <2>4. CASE boot' = boot /\ Done
    <3>1. x.name = <<boot, flusher.seq>> /\ flusher'.seq = flusher.seq + 1
          /\ flusher.seq \in Nat
      BY <2>1, <2>4, DoneTyped, NameTyped DEF Name
    <3>2. Old(x.name)'
      BY <2>4, <3>1 DEF Old
    <3>3. QED
      BY <3>2 DEF Known
  <2>5. CASE boot' = boot /\ CloseDelta /\ ~Done
    <3> DEFINE day == Min(flusher.days)
    <3>1. flusher' = [flusher EXCEPT !.step = "create", !.days = @ \ {day}]
      BY <2>5 DEF CloseDelta
    <3>2. flusher'.days = flusher.days \ {day} /\ flusher'.seq = flusher.seq /\ flusher'.step = "create"
      BY <3>1 DEF Shape, FlusherType
    <3>3. Name' = Name /\ AtWork' /\ x.day \notin flusher'.days
      BY <2>1, <2>5, <3>2 DEF Name, AtWork
    <3>4. QED
      BY <2>1, <3>3 DEF Known
  <2>6. CASE boot' = boot + 1
    <3>1. x.name[1] = boot /\ boot \in Nat
      BY <2>1, NameTyped DEF Name
    <3>2. QED
      BY <2>6, <3>1 DEF Known, Old
  <2>7. QED
    BY <2>1, <2>2, <2>3, <2>4, <2>5, <2>6, Moves DEF DeltaFails
<1>3. QED
  BY <1>1, <1>2

\* What a step adds to the files is of the batch in hand.
LEMMA NewFiles ==
  ASSUME Shape, [Next]_vars
  PROVE  /\ \A f \in deltas' : f \in deltas \/
              /\ AtWork /\ f.name = Name /\ f.day = Min(flusher.days)
              /\ (CreateDelta /\ f.rows = {}) \/ (CloseDelta /\ f.rows = In(flusher.batch, f.day))
         /\ \A f \in raw' : f \in raw \/
              \E d \in DaysOf(channel) : Take /\ f = File(d, Name, In(channel, d))
         /\ \A f \in deltas :
              \/ f \in deltas'
              \/ f.day < Today - RollupDays /\ prune
              \/ Replace
              \/ /\ AtWork /\ f.name = Name /\ f.day = Min(flusher.days)
                 /\ CreateDelta \/ CloseDelta
<1>1. CASE Tick \/ ship_partitions \/ fleet_rollups \/ UNCHANGED vars
           \/ \E r \in Records : record(r) \/ PeerShips(r)
  BY <1>1 DEF Tick, ship_partitions, Put, fleet_rollups, vars, record, PeerShips, disk
<1>2. CASE seed_recent_rollups \/ refresh \/ DeltaFails \/ Restart
  BY <1>2 DEF seed_recent_rollups, refresh, DeltaFails, Restart, disk
<1>3. CASE prune
  <2>1. Today \in Int /\ RollupDays \in Int /\ \A f \in deltas : f.day \in Int
    BY Reads, FiniteDays, Constants DEF Shape, FileType
  <2>2. QED
    BY <1>3, <2>1 DEF prune
<1>4. CASE Take
  BY <1>4 DEF Take, write_batch
<1>5. CASE CreateDelta
  <2> DEFINE day == Min(flusher.days)
  <2>1. AtWork /\ deltas' = Write(deltas, File(day, Name, {})) /\ raw' = raw
    BY <1>5 DEF CreateDelta, AtWork
  <2>2. File(day, Name, {}).day = day /\ File(day, Name, {}).name = Name /\ File(day, Name, {}).rows = {}
    BY DEF File
  <2> HIDE DEF day
  <2>3. QED
    BY <1>5, <2>1, <2>2 DEF Write, day
<1>6. CASE CloseDelta
  <2> DEFINE day == Min(flusher.days)
  <2> DEFINE file == File(day, Name, In(flusher.batch, day))
  <2>1. AtWork /\ deltas' = Write(deltas, file) /\ raw' = raw
    BY <1>6 DEF CloseDelta, AtWork
  <2>2. file.day = day /\ file.name = Name /\ file.rows = In(flusher.batch, day)
    BY DEF File
  <2> HIDE DEF day, file
  <2>3. QED
    BY <1>6, <2>1, <2>2 DEF Write, day
<1>7. CASE Replace
  BY <1>7 DEF Replace
<1>8. QED
  BY <1>1, <1>2, <1>3, <1>4, <1>5, <1>6, <1>7 DEF Next, flush

\* The file in hand is of a day in hand.
LEMMA InHand ==
  ASSUME Shape, AtWork
  PROVE  Min(flusher.days) \in flusher.days /\ flusher.days \in SUBSET Days
         /\ \A d \in flusher.days : Min(flusher.days) <= d
<1>1. flusher.days \in SUBSET Days /\ flusher.days # {} /\ flusher.days \in SUBSET Nat
  BY FiniteDays DEF Shape, FlusherType
<1>2. QED
  BY <1>1, FirstOf

\* Names stay what they should be.
LEMMA NamedStep ==
  ASSUME Shape, Named, [Next]_vars
  PROVE  Named'
<1>1. \A f \in deltas \cup raw \cup blobs : f.name \in NameType
  BY DEF Shape, FileType, BlobType, NameType
<1>2. ASSUME NEW f \in deltas'
      PROVE  Known(f)'
  <2>1. CASE f \in deltas
    BY <1>1, <2>1, KnownStays DEF Named
  <2>2. CASE f \notin deltas
    <3>1. AtWork /\ f.name = Name /\ f.day = Min(flusher.days)
          /\ ((CreateDelta /\ f.rows = {}) \/ CloseDelta)
      BY <2>2, NewFiles
    <3>2. CASE CreateDelta /\ f.rows = {}
      <4>1. flusher' = [flusher EXCEPT !.step = "close"] /\ boot' = boot
        BY <3>2 DEF CreateDelta
      <4>2. flusher'.days = flusher.days /\ flusher'.seq = flusher.seq /\ flusher'.step = "close"
        BY <4>1 DEF Shape, FlusherType
      <4>3. Name' = Name /\ AtWork'
        BY <4>1, <4>2 DEF Name, AtWork
      <4>4. QED
        BY <3>1, <3>2, <4>2, <4>3 DEF Known
    <3>3. CASE CloseDelta
      <4>1. flusher.step = "close" /\ boot' = boot
        BY <3>3 DEF CloseDelta
      <4>2. CASE Done
        <5>1. Old(f.name)'
          BY <3>1, <4>1, <4>2, DoneTyped, NameTyped DEF Old, Name
        <5>2. QED
          BY <5>1 DEF Known
      <4>3. CASE ~Done
        <5>1. flusher' = [flusher EXCEPT !.step = "create", !.days = @ \ {Min(flusher.days)}]
          BY <3>3, <4>3 DEF CloseDelta
        <5>2. flusher'.days = flusher.days \ {Min(flusher.days)} /\ flusher'.seq = flusher.seq
              /\ flusher'.step = "create"
          BY <5>1 DEF Shape, FlusherType
        <5>3. Name' = Name /\ AtWork' /\ f.day \notin flusher'.days
          BY <3>1, <4>1, <5>2 DEF Name, AtWork
        <5>4. QED
          BY <3>1, <5>3 DEF Known
      <4>4. QED
        BY <4>2, <4>3
    <3>4. QED
      BY <3>1, <3>2, <3>3
  <2>3. QED
    BY <2>1, <2>2
<1>3. ASSUME NEW f \in raw'
      PROVE  Old(f.name)' \/ (AtWork' /\ f.name = Name')
  <2>1. CASE f \in raw
    <3> DEFINE x == [day |-> -1, name |-> f.name, rows |-> {}]
    <3>1. x.name \in NameType /\ x.name = f.name
      BY <1>1, <2>1
    <3>2. Known(x)
      <4>1. x.day \notin flusher.days
        BY FiniteDays DEF Shape, FlusherType
      <4>2. QED
        BY <2>1, <3>1, <4>1 DEF Named, Known
    <3>3. Known(x)'
      BY <3>1, <3>2, KnownStays
    <3>4. QED
      BY <3>1, <3>3 DEF Known
  <2>2. CASE f \notin raw
    <3>1. PICK d \in DaysOf(channel) : Take /\ f = File(d, Name, In(channel, d))
      BY <2>2, NewFiles
    <3>2. boot' = boot /\ flusher' = [flusher EXCEPT !.step = "create", !.batch = channel,
                                                     !.days = DaysOf(channel)]
      BY <3>1 DEF Take
    <3>3. flusher'.seq = flusher.seq /\ flusher'.step = "create"
      BY <3>2 DEF Shape, FlusherType
    <3>4. Name' = Name /\ AtWork' /\ f.name = Name
      BY <3>1, <3>2, <3>3 DEF Name, AtWork, File
    <3>5. QED
      BY <3>4
  <2>3. QED
    BY <2>1, <2>2
<1>4. ASSUME NEW b \in blobs'
      PROVE  Known(b)'
  <2>1. CASE b \in blobs
    BY <1>1, <2>1, KnownStays DEF Named
  <2>2. CASE b \notin blobs /\ ship_partitions
    <3>1. PICK f \in deltas : Put(f)
      BY <2>2 DEF ship_partitions
    <3>2. b.day = f.day /\ b.name = f.name /\ b.rows = f.rows /\ UNCHANGED <<flusher, boot>>
      BY <2>2, <3>1 DEF Put
    <3>3. Known(f)
      BY DEF Named
    <3>4. QED
      BY <3>2, <3>3 DEF Known, Old, AtWork, Name
  <2>3. ASSUME NEW r \in Records, PeerShips(r), b \notin blobs
        PROVE  Known(b)'
    <3>1. b.name = <<0, 0>> /\ boot' = boot
      BY <2>3 DEF PeerShips
    <3>2. b.name[1] = 0 /\ 0 < boot'
      BY <3>1, NameTyped
    <3>3. QED
      BY <3>2 DEF Known, Old
  <2>4. CASE blobs' = blobs
    BY <2>1, <2>4
  <2>5. QED
    BY <2>1, <2>2, <2>3, <2>4 DEF Next, vars, Tick, record, seed_recent_rollups, flush, Take,
       CreateDelta, CloseDelta, DeltaFails, prune, refresh, fleet_rollups, Restart, Replace, Start
<1>5. ASSUME NEW f \in deltas', NEW g \in deltas', f.day = g.day, f.name = g.name
      PROVE  f = g
  <2>1. CASE f \in deltas /\ g \in deltas
    BY <1>5, <2>1 DEF Named
  <2>2. CASE CreateDelta
    BY <1>5, <2>2 DEF CreateDelta, Write, File, Named
  <2>3. CASE CloseDelta
    BY <1>5, <2>3 DEF CloseDelta, Write, File, Named
  <2>4. QED
    BY <2>1, <2>2, <2>3, NewFiles
<1>6. QED
  BY <1>2, <1>3, <1>4, <1>5 DEF Named

LEMMA NamedInit == Init => Named
BY DEF Init, Named

LEMMA NamesKept == Spec => [](Shape /\ Named)
<1>1. Shape /\ Named /\ [Next]_vars => (Shape /\ Named)'
  BY ShapeStep, NamedStep
<1>2. QED
  BY <1>1, ShapeInit, NamedInit, PTL DEF Spec

\* What is on disk stays on disk until its day is pruned or the disk is lost: a
\* new process numbers its batches from nought again, under a node id of its own.
THEOREM History == Spec => HistoryStands
<1>1. ASSUME Shape, Named, Next
      PROVE  \A f \in deltas : f.rows # {} =>
               f \in deltas' \/ f.day < Today - RollupDays \/ losses' # losses
  <2> SUFFICES ASSUME NEW f \in deltas, f.rows # {}, f \notin deltas', ~(f.day < Today - RollupDays)
               PROVE  losses' # losses
    OBVIOUS
  <2>1. CASE Replace
    BY <1>1, <2>1 DEF Replace, Shape
  <2>2. CASE AtWork /\ f.name = Name /\ f.day = Min(flusher.days)
    <3>1. Known(f) /\ ~Old(f.name)
      BY <1>1, <2>2, NameTyped DEF Named, Old, Name
    <3>2. FALSE
      BY <1>1, <2>2, <3>1, InHand DEF Known
    <3>3. QED
      BY <3>2
  <2>3. QED
    BY <1>1, <2>1, <2>2, NewFiles
<1>2. Shape /\ Named /\ [Next]_vars =>
        [\A f \in deltas : f.rows # {} =>
           f \in deltas' \/ f.day < Today - RollupDays \/ losses' # losses]_vars
  BY <1>1
<1>3. QED
  BY <1>2, NamesKept, PTL DEF Spec, HistoryStands

-----------------------------------------------------------------------------
(* The caches of days *)

\* A day's cache was built from files of batches that were done with, and says
\* what the files say while they have the names it was built from.
DayHonest(d) ==
  LET stamp == dayCache[d].stamp
  IN  /\ \A n \in stamp.names : Old(n)
      /\ stamp # NoStamp => stamp.names # {}
      /\ stamp.kind = "rollups" /\ stamp.names = Names(deltas, d) => dayCache[d].rows = Held(deltas, d)
      /\ stamp.kind = "records" /\ stamp.names = Names(raw, d) => dayCache[d].rows = Held(raw, d)

\* A day's files stay, or the batch in hand adds one to them, or they go with
\* the day or the disk.
LEMMA DayFiles ==
  ASSUME Shape, Named, [Next]_vars, NEW d
  PROVE  /\ \/ Of(deltas', d) = Of(deltas, d)
            \/ AtWork /\ Name \in Names(deltas', d)
            \/ prune /\ d < Today - RollupDays
            \/ Replace
         /\ \/ Of(raw', d) = Of(raw, d)
            \/ Take /\ Name \in Names(raw', d)
            \/ Of(raw', d) = {}
<1>1. CASE Tick \/ ship_partitions \/ fleet_rollups \/ UNCHANGED vars
           \/ \E r \in Records : record(r) \/ PeerShips(r)
  BY <1>1 DEF Tick, ship_partitions, Put, fleet_rollups, vars, record, PeerShips, disk
<1>2. CASE seed_recent_rollups \/ refresh \/ DeltaFails \/ Restart
  BY <1>2 DEF seed_recent_rollups, refresh, DeltaFails, Restart, disk
<1>3. CASE prune
  <2>1. deltas' = {f \in deltas : f.day >= Today - RollupDays}
        /\ raw' = {f \in raw : f.day >= Today - Retention}
    BY <1>3 DEF prune
  <2>2. Of(raw', d) = Of(raw, d) \/ Of(raw', d) = {}
    BY <2>1 DEF Of
  <2>3. Today \in Int /\ RollupDays \in Int /\ \A f \in deltas : f.day \in Int
    BY Reads, FiniteDays, Constants DEF Shape, FileType
  <2>4. CASE d >= Today - RollupDays
    BY <2>1, <2>2, <2>4 DEF Of
  <2>5. CASE ~(d >= Today - RollupDays) /\ Of(deltas, d) = {}
    BY <2>1, <2>2, <2>5 DEF Of
  <2>6. CASE ~(d >= Today - RollupDays) /\ Of(deltas, d) # {}
    <3>1. d \in Int
      BY <2>3, <2>6 DEF Of
    <3>2. QED
      BY <1>3, <2>2, <2>3, <2>6, <3>1
  <2>7. QED
    BY <2>4, <2>5, <2>6
<1>4. CASE Take
  <2>1. PICK written \in SUBSET DaysOf(channel) :
          raw' = raw \cup {File(e, Name, In(channel, e)) : e \in written}
    BY <1>4 DEF Take, write_batch
  <2>2. \A e : File(e, Name, In(channel, e)).day = e /\ File(e, Name, In(channel, e)).name = Name
    BY DEF File
  <2>3. CASE d \in written
    BY <1>4, <2>1, <2>2, <2>3 DEF Take, Of, Names
  <2>4. CASE d \notin written
    BY <1>4, <2>1, <2>2, <2>4 DEF Take, Of
  <2>5. QED
    BY <2>3, <2>4
<1>5. ASSUME NEW file, deltas' = Write(deltas, file), file.name = Name, raw' = raw, AtWork
      PROVE  /\ \/ Of(deltas', d) = Of(deltas, d)
                \/ AtWork /\ Name \in Names(deltas', d)
             /\ Of(raw', d) = Of(raw, d)
  <2>1. CASE d = file.day
    BY <1>5, <2>1 DEF Write, Of, Names
  <2>2. CASE d # file.day
    BY <1>5, <2>2 DEF Write, Of
  <2>3. QED
    BY <2>1, <2>2
<1>6. CASE CreateDelta
  <2>1. File(Min(flusher.days), Name, {}).name = Name
    BY DEF File
  <2>2. QED
    BY <1>5, <1>6, <2>1 DEF CreateDelta, AtWork
<1>7. CASE CloseDelta
  <2>1. \A rows : File(Min(flusher.days), Name, rows).name = Name
    BY DEF File
  <2>2. QED
    BY <1>5, <1>7, <2>1 DEF CloseDelta, AtWork
<1>8. CASE Replace
  BY <1>8 DEF Replace, Of
<1>9. QED
  BY <1>1, <1>2, <1>3, <1>4, <1>6, <1>7, <1>8 DEF Next, flush

\* The name in hand is none of those that are done with.
LEMMA NotOld ==
  ASSUME Shape
  PROVE  ~Old(Name)
BY NameTyped DEF Old, Name

\* What a day's stamp is of.
LEMMA DayStamps ==
  ASSUME NEW d
  PROVE  /\ Of(deltas, d) # {} => DayStamp(d) = [kind |-> "rollups", names |-> Names(deltas, d)]
         /\ Of(deltas, d) = {} /\ Of(raw, d) # {}
              => DayStamp(d) = [kind |-> "records", names |-> Names(raw, d)]
         /\ Of(deltas, d) = {} /\ Of(raw, d) = {} => DayStamp(d) = NoStamp
         /\ Of(deltas, d) # {} <=> Names(deltas, d) # {}
         /\ Of(raw, d) # {} <=> Names(raw, d) # {}
BY DEF DayStamp, Names

\* A day's cache that would be read says what the files say.
LEMMA DaysRead ==
  ASSUME Shape, NEW d \in Days, DayHonest(d)
  PROVE  /\ DayCurrent(d) => dayCache[d].rows = read_files(d)
         /\ hourly_rows(d) = read_files(d)
<1>1. ASSUME DayCurrent(d)
      PROVE  dayCache[d].rows = read_files(d)
  <2>1. DayStamp(d) # NoStamp /\ dayCache[d].stamp = DayStamp(d)
    BY <1>1 DEF DayCurrent
  <2>2. CASE Of(deltas, d) # {}
    <3>1. dayCache[d].stamp.kind = "rollups" /\ dayCache[d].stamp.names = Names(deltas, d)
      BY <2>1, <2>2, DayStamps
    <3>2. QED
      BY <2>2, <3>1 DEF DayHonest, read_files
  <2>3. CASE Of(deltas, d) = {} /\ Of(raw, d) # {}
    <3>1. dayCache[d].stamp.kind = "records" /\ dayCache[d].stamp.names = Names(raw, d)
      BY <2>1, <2>3, DayStamps
    <3>2. QED
      BY <2>3, <3>1 DEF DayHonest, read_files
  <2>4. QED
    BY <2>1, <2>2, <2>3, DayStamps
<1>2. QED
  BY <1>1 DEF hourly_rows

\* A day's cache stays honest.
LEMMA DayHonestStep ==
  ASSUME Shape, Named, [Next]_vars, NEW d \in Days, DayHonest(d)
  PROVE  DayHonest(d)'
<1> DEFINE stamp == dayCache[d].stamp
<1>1. stamp \in StampType
  BY DEF Shape, DayCaches
<1>2. \A n \in stamp.names : Old(n) /\ Old(n)'
  BY <1>1, OldStays DEF DayHonest, StampType
<1>3. ASSUME dayCache'[d] = dayCache[d], ~Replace, ~(prune /\ d < Today - RollupDays)
      PROVE  DayHonest(d)'
  <2>1. stamp.kind = "rollups" /\ stamp.names = Names(deltas', d) =>
          dayCache[d].rows = Held(deltas', d)
    <3>1. CASE Of(deltas', d) = Of(deltas, d)
      BY <3>1 DEF DayHonest, Names, Held
    <3>2. CASE Name \in Names(deltas', d)
      BY <1>2, <3>2, NotOld
    <3>3. QED
      BY <1>3, <3>1, <3>2, DayFiles
  <2>2. stamp.kind = "records" /\ stamp.names = Names(raw', d) => dayCache[d].rows = Held(raw', d)
    <3>1. CASE Of(raw', d) = Of(raw, d)
      BY <3>1 DEF DayHonest, Names, Held
    <3>2. CASE Name \in Names(raw', d)
      BY <1>2, <3>2, NotOld
    <3>3. CASE Of(raw', d) = {}
      BY <3>3 DEF DayHonest, Names, NoStamp
    <3>4. QED
      BY <3>1, <3>2, <3>3, DayFiles
  <2>3. QED
    BY <1>2, <1>3, <2>1, <2>2 DEF DayHonest
<1>4. ASSUME dayCache'[d].stamp = NoStamp
      PROVE  DayHonest(d)'
  BY <1>4 DEF DayHonest, NoStamp
<1>5. CASE prune
  <2>1. dayCache'[d] = IF d >= Today - RollupDays THEN dayCache[d]
                       ELSE [stamp |-> NoStamp, rows |-> Nothing]
    BY <1>5 DEF prune
  <2>2. d \in Int /\ Today \in Int /\ RollupDays \in Int
    BY Reads, FiniteDays, Constants
  <2>3. ~Replace
    BY <1>5 DEF prune, Replace, Start, Shape, FlusherType, Idle
  <2>4. QED
    BY <1>3, <1>4, <2>1, <2>2, <2>3
<1>6. CASE Replace
  <2>1. dayCache'[d].stamp = NoStamp
    BY <1>6 DEF Replace
  <2>2. QED
    BY <1>4, <2>1
<1>7. CASE refresh
  <2>1. UNCHANGED <<deltas, raw, boot>> /\ ~AtWork /\ flusher'.seq = flusher.seq
    BY <1>7 DEF refresh, AtWork, Shape, FlusherType
  <2>2. \A f \in deltas \cup raw : Old(f.name)
    BY <2>1 DEF Named, Known
  <2>3. \A n : Old(n)' <=> Old(n)
    BY <2>1 DEF Old
  <2>4. CASE DayStamp(d) # NoStamp /\ dayCache'[d] = [stamp |-> DayStamp(d), rows |-> read_files(d)]
    <3>1. \A n \in DayStamp(d).names : Old(n)
      BY <2>2, <2>4, DayStamps DEF Names, Of
    <3>2. DayStamp(d).kind = "rollups" => read_files(d) = Held(deltas, d)
      BY DayStamps DEF read_files, NoStamp
    <3>3. DayStamp(d).kind = "records" => read_files(d) = Held(raw, d)
      BY DayStamps DEF read_files, NoStamp
    <3>4. DayStamp(d).names # {}
      BY <2>4, DayStamps
    <3>5. QED
      BY <2>1, <2>3, <2>4, <3>1, <3>2, <3>3, <3>4 DEF DayHonest
  <2>5. CASE dayCache'[d] = dayCache[d]
    <3>1. ~prune /\ ~Replace
      <4>1. ~prune
        BY <1>7 DEF prune, refresh
      <4>2. ~Replace
        BY <1>7 DEF Replace, refresh, Shape
      <4>3. QED
        BY <4>1, <4>2
    <3>2. QED
      BY <1>3, <2>5, <3>1
  <2>6. QED
    BY <1>7, <2>4, <2>5 DEF refresh
<1>8. CASE ~prune /\ ~refresh /\ ~Replace
  <2>1. dayCache' = dayCache
    BY <1>8 DEF Next, vars, Tick, record, PeerShips, seed_recent_rollups, flush, Take, CreateDelta,
       CloseDelta, DeltaFails, ship_partitions, Put, fleet_rollups, Restart, disk
  <2>2. QED
    BY <1>3, <1>8, <2>1
<1>9. QED
  BY <1>5, <1>6, <1>7, <1>8

-----------------------------------------------------------------------------
(* The caches of months *)

\* The place of a day among those that are held.
Place(held, d) == Cardinality({e \in held : e <= d})

LEMMA Places ==
  ASSUME NEW held \in SUBSET Nat, IsFiniteSet(held)
  PROVE  /\ \A d \in held : Place(held, d) \in 1 .. Cardinality(held)
         /\ \A d, e \in held : Place(held, d) = Place(held, e) => d = e
<1> DEFINE upto(d) == {e \in held : e <= d}
<1>1. \A d \in held : IsFiniteSet(upto(d)) /\ Cardinality(upto(d)) \in Nat
                      /\ Cardinality(upto(d)) <= Cardinality(held)
  BY FS_Subset, FS_CardinalityType
<1>2. ASSUME NEW d \in held
      PROVE  Place(held, d) \in 1 .. Cardinality(held)
  <2>1. d \in upto(d)
    OBVIOUS
  <2>2. Cardinality(upto(d)) # 0
    BY <1>1, <2>1, FS_EmptySet
  <2>3. Cardinality(held) \in Nat
    BY FS_CardinalityType
  <2>4. QED
    BY <1>1, <2>2, <2>3 DEF Place
<1>3. ASSUME NEW d \in held, NEW e \in held, d < e
      PROVE  Place(held, d) # Place(held, e)
  <2>1. upto(d) \in SUBSET upto(e) /\ e \in upto(e) /\ e \notin upto(d)
    <3>1. \A x \in held : x \in Nat /\ (x <= d => x <= e)
      BY <1>3
    <3>2. e <= e /\ ~(e <= d)
      BY <1>3
    <3>3. QED
      BY <3>1, <3>2
  <2> HIDE DEF upto
  <2>2. upto(d) # upto(e)
    BY <2>1
  <2>3. Cardinality(upto(d)) # Cardinality(upto(e))
    BY <1>1, <2>1, <2>2, FS_Subset
  <2>4. QED
    BY <2>3 DEF Place, upto
<1>4. QED
  BY <1>2, <1>3

\* A month's stamp has the names of each day that is held, in its place.
LEMMA StampOfDay ==
  ASSUME NEW files \in SUBSET FileType, NEW m
  PROVE  /\ MonthDays(files, m) \in SUBSET Days /\ IsFiniteSet(MonthDays(files, m))
         /\ Cardinality(MonthDays(files, m)) \in Nat
         /\ DOMAIN MonthStamp(files, m) = 1 .. Cardinality(MonthDays(files, m))
         /\ \A d \in MonthDays(files, m) :
              LET i == Place(MonthDays(files, m), d)
              IN  i \in DOMAIN MonthStamp(files, m) /\ MonthStamp(files, m)[i] = Names(files, d)
         /\ \A i \in DOMAIN MonthStamp(files, m) : \E d : MonthStamp(files, m)[i] = Names(files, d)
<1> DEFINE held == MonthDays(files, m)
<1> DEFINE nth(i) == CHOOSE d \in held : Cardinality({e \in held : e <= d}) = i
<1>1. held \in SUBSET Days /\ held \in SUBSET Nat
  BY FiniteDays DEF MonthDays, DaysHeld, FileType
<1>2. IsFiniteSet(held)
  BY <1>1, FiniteDays, FS_Subset
<1>3. MonthStamp(files, m) = [i \in 1 .. Cardinality(held) |-> Names(files, nth(i))]
  BY DEF MonthStamp
<1> HIDE DEF held
<1>4. ASSUME NEW d \in held
      PROVE  nth(Place(held, d)) = d
  <2>1. \A e \in held : Place(held, e) = Place(held, d) => e = d
    BY <1>1, <1>2, Places
  <2>2. QED
    BY <2>1 DEF Place
<1> HIDE DEF nth
<1>5. \A d \in held : Place(held, d) \in 1 .. Cardinality(held)
  BY <1>1, <1>2, Places
<1>6. \A d \in held : Place(held, d) \in DOMAIN MonthStamp(files, m)
                      /\ MonthStamp(files, m)[Place(held, d)] = Names(files, d)
  BY <1>3, <1>4, <1>5
<1>7. \A i \in DOMAIN MonthStamp(files, m) : \E d : MonthStamp(files, m)[i] = Names(files, d)
  BY <1>3
<1>8. Cardinality(held) \in Nat
  BY <1>2, FS_CardinalityType
<1>9. QED
  BY <1>1, <1>2, <1>3, <1>6, <1>7, <1>8 DEF held

\* Files as they once were: those of the batches that were done with then.
Snapshot(files) ==
  /\ \A f \in files : Old(f.name)
  /\ \A f, g \in files : f.day = g.day /\ f.name = g.name => f = g
  /\ \A f \in deltas, g \in files : f.name = g.name => f \in files

MonthOf(files, m) == SumOver([d \in MonthDays(files, m) |-> Held(files, d)])

\* A month's cache was built from such files.
MonthHonest(m) ==
  monthCache[m].stamp # <<>> =>
    \E files \in SUBSET FileType :
      /\ Snapshot(files)
      /\ monthCache[m].stamp = MonthStamp(files, m)
      /\ monthCache[m].rows = MonthOf(files, m)

\* While the stamp of a month is what it was, so are its files: a name that was
\* old has got no new file, and no day stands in the place of another.
LEMMA SameFiles ==
  ASSUME Shape, NEW files \in SUBSET FileType, Snapshot(files), NEW m,
         MonthStamp(deltas, m) = MonthStamp(files, m)
  PROVE  MonthOf(deltas, m) = MonthOf(files, m)
<1> DEFINE now == MonthDays(deltas, m)
<1> DEFINE then == MonthDays(files, m)
<1>1. deltas \in SUBSET FileType
  BY DEF Shape
<1>2. ASSUME NEW f \in deltas, f.day \in now
      PROVE  f \in files
  <2> DEFINE i == Place(now, f.day)
  <2>1. i \in DOMAIN MonthStamp(files, m) /\ MonthStamp(files, m)[i] = Names(deltas, f.day)
    BY <1>1, <1>2, StampOfDay
  <2>2. PICK d : MonthStamp(files, m)[i] = Names(files, d)
    BY <2>1, StampOfDay
  <2> HIDE DEF i
  <2>3. f.name \in Names(files, d)
    BY <2>1, <2>2 DEF Names, Of
  <2>4. PICK g \in files : g.name = f.name
    BY <2>3 DEF Names, Of
  <2>5. QED
    BY <2>4 DEF Snapshot
<1>3. now \subseteq then
  <2>1. ASSUME NEW d \in now
        PROVE  d \in then
    <3>1. PICK f \in deltas : f.day = d /\ Month(d) = m
      BY DEF MonthDays, DaysHeld
    <3>2. f \in files
      BY <1>2, <3>1
    <3>3. QED
      BY <3>1, <3>2 DEF MonthDays, DaysHeld
  <2>2. QED
    BY <2>1
<1>4. now = then
  <2>1. Cardinality(now) \in Nat /\ Cardinality(then) \in Nat /\ IsFiniteSet(now) /\ IsFiniteSet(then)
        /\ 1 .. Cardinality(now) = 1 .. Cardinality(then)
    BY <1>1, StampOfDay
  <2> HIDE DEF now, then
  <2>2. \A a, b \in Nat : 1 .. a = 1 .. b => a = b
    <3> SUFFICES ASSUME NEW a \in Nat, NEW b \in Nat, 1 .. a = 1 .. b, a < b
                 PROVE  FALSE
      OBVIOUS
    <3>1. b \in 1 .. b /\ b \notin 1 .. a
      OBVIOUS
    <3>2. QED
      BY <3>1
  <2>3. Cardinality(now) = Cardinality(then)
    BY <2>1, <2>2
  <2>4. QED
    BY <1>3, <2>1, <2>3, FS_Subset
<1>5. ASSUME NEW d \in now
      PROVE  Of(deltas, d) = Of(files, d)
  <2>1. Of(deltas, d) \subseteq Of(files, d)
    BY <1>2 DEF Of
  <2>2. Names(deltas, d) = Names(files, d)
    BY <1>1, <1>4, StampOfDay
  <2>3. ASSUME NEW g \in Of(files, d)
        PROVE  g \in Of(deltas, d)
    <3>1. PICK f \in Of(deltas, d) : f.name = g.name
      BY <2>2 DEF Names
    <3>2. f \in files /\ f.day = d /\ g \in files /\ g.day = d
      BY <2>1 DEF Of
    <3>3. f = g
      BY <3>1, <3>2 DEF Snapshot
    <3>4. QED
      BY <3>3
  <2>4. QED
    BY <2>1, <2>3
<1>6. [d \in now |-> Held(deltas, d)] = [d \in then |-> Held(files, d)]
  BY <1>4, <1>5 DEF Held
<1>7. QED
  BY <1>6 DEF MonthOf

\* The days of a month that are held have rollups to read.
LEMMA MonthReads ==
  ASSUME Shape, \A d \in Days : DayHonest(d), NEW m
  PROVE  /\ MonthOf(deltas, m) = SumOver([d \in MonthDays(deltas, m) |-> read_files(d)])
         /\ MonthOf(deltas, m) = SumOver([d \in MonthDays(deltas, m) |-> hourly_rows(d)])
<1> DEFINE held == MonthDays(deltas, m)
<1>1. \A d \in held : read_files(d) = Held(deltas, d) /\ hourly_rows(d) = read_files(d)
  <2>1. \A d \in held : d \in Days /\ Of(deltas, d) # {}
    BY MonthDaysTyped DEF MonthDays, DaysHeld, Of
  <2>2. QED
    BY <2>1, DaysRead DEF read_files
<1>2. [d \in held |-> read_files(d)] = [d \in held |-> Held(deltas, d)]
      /\ [d \in held |-> hourly_rows(d)] = [d \in held |-> Held(deltas, d)]
  BY <1>1
<1>3. QED
  BY <1>2 DEF MonthOf

\* A month's cache stays honest.
LEMMA MonthHonestStep ==
  ASSUME Shape, Named, [Next]_vars, \A d \in Days : DayHonest(d),
         NEW m \in Months, MonthHonest(m)
  PROVE  MonthHonest(m)'
<1>1. ASSUME NEW files \in SUBSET FileType, Snapshot(files), ~Replace
      PROVE  Snapshot(files)'
  <2>1. \A f \in files : Old(f.name) /\ Old(f.name)'
    BY <1>1, OldStays DEF Snapshot, FileType, NameType
  <2>2. ASSUME NEW f \in deltas', NEW g \in files, f.name = g.name
        PROVE  f \in files
    <3>1. f.name # Name
      BY <2>1, <2>2, NotOld
    <3>2. f \in deltas
      BY <3>1, NewFiles
    <3>3. QED
      BY <1>1, <2>2, <3>2 DEF Snapshot
  <2>3. QED
    BY <1>1, <2>1, <2>2 DEF Snapshot
<1>2. ASSUME monthCache'[m] = monthCache[m], ~Replace
      PROVE  MonthHonest(m)'
  <2>1. CASE monthCache[m].stamp = <<>>
    BY <1>2, <2>1 DEF MonthHonest
  <2>2. CASE monthCache[m].stamp # <<>>
    <3>1. PICK files \in SUBSET FileType :
            /\ Snapshot(files)
            /\ monthCache[m].stamp = MonthStamp(files, m)
            /\ monthCache[m].rows = MonthOf(files, m)
      BY <2>2 DEF MonthHonest
    <3>2. Snapshot(files)'
      BY <1>1, <1>2, <3>1
    <3>3. \E q \in SUBSET FileType :
            /\ Snapshot(q)'
            /\ monthCache'[m].stamp = MonthStamp(q, m)
            /\ monthCache'[m].rows = MonthOf(q, m)
      BY <1>2, <3>1, <3>2
    <3>4. \A q : MonthStamp(q, m)' = MonthStamp(q, m) /\ MonthOf(q, m)' = MonthOf(q, m)
      BY DEF MonthStamp, MonthOf, MonthDays, DaysHeld, Month, Names, Of, Held, Counts, SumOver
    <3>5. QED
      BY <3>3 DEF MonthHonest
  <2>3. QED
    BY <2>1, <2>2
<1>3. ASSUME monthCache'[m].stamp = <<>>
      PROVE  MonthHonest(m)'
  BY <1>3 DEF MonthHonest
<1>4. CASE prune
  <2>1. ~Replace
    BY <1>4 DEF prune, Replace, Shape
  <2>2. monthCache'[m] = monthCache[m] \/ monthCache'[m].stamp = <<>>
    BY <1>4 DEF prune
  <2>3. QED
    BY <1>2, <1>3, <2>1, <2>2
<1>5. CASE Replace
  <2>1. monthCache'[m].stamp = <<>>
    BY <1>5 DEF Replace
  <2>2. QED
    BY <1>3, <2>1
<1>6. CASE refresh
  <2>1. UNCHANGED <<deltas, raw, boot, losses>> /\ ~AtWork /\ flusher'.seq = flusher.seq /\ ~Replace
    BY <1>6 DEF refresh, AtWork, Shape, FlusherType, Replace
  <2>2. CASE monthCache'[m] = monthCache[m]
    BY <1>2, <2>1, <2>2
  <2>3. CASE /\ monthCache'[m].stamp = MonthStamp(deltas, m)
             /\ monthCache'[m].rows = SumOver([d \in MonthDays(deltas, m) |-> hourly_rows(d)])
    <3>1. PICK files : files = deltas
      OBVIOUS
    <3>2. files \in SUBSET FileType /\ Snapshot(files)
      BY <2>1, <3>1 DEF Named, Known, Snapshot, Shape
    <3>3. Snapshot(files)'
      BY <1>1, <2>1, <3>2
    <3>4. monthCache'[m].stamp = MonthStamp(files, m) /\ monthCache'[m].rows = MonthOf(files, m)
      BY <2>3, <3>1, MonthReads
    <3>5. MonthStamp(files, m)' = MonthStamp(files, m) /\ MonthOf(files, m)' = MonthOf(files, m)
      BY DEF MonthStamp, MonthOf, MonthDays, DaysHeld, Month, Names, Of, Held, Counts, SumOver
    <3>6. QED
      BY <3>2, <3>3, <3>4, <3>5 DEF MonthHonest
  <2>4. QED
    BY <1>6, <2>2, <2>3 DEF refresh
<1>7. CASE ~prune /\ ~refresh /\ ~Replace
  <2>1. monthCache' = monthCache
    BY <1>7 DEF Next, vars, Tick, record, PeerShips, seed_recent_rollups, flush, Take, CreateDelta,
       CloseDelta, DeltaFails, ship_partitions, Put, fleet_rollups, Restart, disk
  <2>2. QED
    BY <1>2, <1>7, <2>1
<1>8. QED
  BY <1>4, <1>5, <1>6, <1>7

Honest ==
  /\ Shape /\ Named
  /\ \A d \in Days : DayHonest(d)
  /\ \A m \in Months : MonthHonest(m)

\* A cache that would be read says what is on disk.
LEMMA HonestReads == Honest => CachesHonest
<1> SUFFICES ASSUME Honest
             PROVE  CachesHonest
  OBVIOUS
<1>1. \A d \in Days : DayCurrent(d) => dayCache[d].rows = read_files(d)
  BY DaysRead DEF Honest
<1>2. ASSUME NEW m \in Months, MonthCurrent(m)
      PROVE  monthCache[m].rows = SumOver([d \in MonthDays(deltas, m) |-> read_files(d)])
  <2>1. monthCache[m].stamp # <<>> /\ monthCache[m].stamp = MonthStamp(deltas, m)
    BY <1>2 DEF MonthCurrent
  <2>2. PICK files \in SUBSET FileType :
          /\ Snapshot(files)
          /\ monthCache[m].stamp = MonthStamp(files, m)
          /\ monthCache[m].rows = MonthOf(files, m)
    BY <2>1 DEF Honest, MonthHonest
  <2>3. MonthOf(deltas, m) = MonthOf(files, m)
    BY <2>1, <2>2, SameFiles DEF Honest
  <2>4. QED
    BY <2>2, <2>3, MonthReads DEF Honest
<1>3. QED
  BY <1>1, <1>2 DEF CachesHonest

LEMMA HonestInit == Init => Honest
<1> SUFFICES ASSUME Init
             PROVE  Honest
  OBVIOUS
<1>1. \A d \in Days : DayHonest(d)
  BY DEF Init, DayHonest, NoStamp
<1>2. \A m \in Months : MonthHonest(m)
  BY DEF Init, MonthHonest
<1>3. QED
  BY <1>1, <1>2, ShapeInit, NamedInit DEF Honest

LEMMA HonestStep == Honest /\ [Next]_vars => Honest'
<1> SUFFICES ASSUME Honest, [Next]_vars
             PROVE  Honest'
  OBVIOUS
<1>1. Days' = Days /\ Months' = Months
  BY DEF Days, Months, Day, Month
<1>2. QED
  BY <1>1, ShapeStep, NamedStep, DayHonestStep, MonthHonestStep DEF Honest

\* "A stale or missing cache costs a fallback to the slow path, never a wrong
\* number": fingerprints are of names only and those of a month have no dates,
\* and yet no cache is read that its files have moved away from.  A month's is judged by
\* the days of it that have rollups.
THEOREM HonestCaches == Spec => []CachesHonest
BY HonestInit, HonestStep, HonestReads, PTL DEF Spec

-----------------------------------------------------------------------------
(* Where a record is *)

InFile(files, r) == \E f \in files : r \in f.rows

\* A record that has been in no file, in no object and not in the tail.
Unseen(r) ==
  /\ ~InFile(deltas, r) /\ ~InFile(raw, r) /\ ~InFile(blobs, r)
  /\ r \notin flusher.batch
  /\ tail.rows[r] = 0 /\ fleet[r] = 0

\* A record that this process will not count from its disk or its tail again.
Gone(r) ==
  /\ at[r] # Never
  /\ ~InFile(deltas, r) /\ ~InFile(raw, r)
  /\ r \notin flusher.batch /\ r \notin channel
  /\ tail.rows[r] = 0 \/ at[r] < TailFloor

\* On the disk: a record is in one file of a kind, and that is of its day.
Filed ==
  /\ \A f \in deltas : \A r \in f.rows : at[r] # Never /\ Day(at[r]) = f.day
  /\ \A f \in raw : \A r \in f.rows : at[r] # Never /\ Day(at[r]) = f.day
  /\ \A f, g \in deltas : \A r \in f.rows : r \in g.rows => f = g
  /\ \A f, g \in raw : \A r \in f.rows : r \in g.rows => f = g
  /\ \A f \in deltas : f.name[1] # 0

\* On its way there: a record is on the way once, and in the tail once.
Flowing ==
  /\ \A r \in Records : at[r] = Never => Unseen(r) /\ r \notin channel
  /\ \A r \in channel : Unseen(r)
  /\ \A r \in flusher.batch : tail.rows[r] = 1
  /\ \A r \in flusher.batch :
       Day(at[r]) \in flusher.days => ~InFile(deltas, r) /\ ~InFile(blobs, r)
  /\ \A r \in Records : tail.rows[r] <= 1
  /\ flusher.step = "seed" => tail.rows = Nothing
  /\ flusher.step # "seed" <=> tail.seeded

\* In the store: an object is of a file that is still on the disk, and has of
\* its records; or this process is done with the records that it has.
SameKey(b, c) == b.node = c.node /\ b.day = c.day /\ b.name = c.name
Shipped ==
  /\ \A b, c \in blobs : SameKey(b, c) => b = c
  /\ \A b \in blobs, f \in deltas : b.day = f.day /\ b.name = f.name => b.rows \subseteq f.rows
  /\ \A b \in blobs : \A r \in b.rows : Gone(r) \/ b.name \in Names(deltas, b.day)

\* In what was last seen of the fleet.
Seen ==
  /\ \A r \in Records : fleet[r] # 0 => Gone(r)
  /\ \A r \in Records : fleet[r] <= Cardinality(Objects(r))

Whereabouts == Filed /\ Flowing /\ Shipped /\ Seen

\* How the reading of a day counts a record.
LEMMA ReadOnce ==
  ASSUME Shape, Filed, NEW r \in Records, NEW d
  PROVE  /\ read_files(d)[r] \in 0 .. 1
         /\ read_files(d)[r] = 1 => at[r] # Never /\ Day(at[r]) = d
         /\ read_files(d)[r] = 1 => InFile(deltas, r) \/ InFile(raw, r)
         /\ \A f \in deltas : r \in f.rows /\ f.day = d => read_files(d)[r] = 1
<1> DEFINE files == IF Of(deltas, d) # {} THEN Of(deltas, d) ELSE Of(raw, d)
<1> DEFINE holders == {f \in files : r \in f.rows}
<1>1. read_files(d)[r] = Cardinality(holders)
  BY DEF read_files, Held, Counts
<1>2. (files \in SUBSET deltas \/ files \in SUBSET raw) /\ \A f \in files : f.day = d
  BY DEF Of
<1>3. \A f, g \in holders : f = g
  BY <1>2 DEF Filed
<1>4. \A f \in holders : at[r] # Never /\ Day(at[r]) = d /\ (InFile(deltas, r) \/ InFile(raw, r))
  BY <1>2 DEF Filed, InFile
<1>5. \A f \in deltas : r \in f.rows /\ f.day = d => f \in holders
  BY DEF Of
<1> HIDE DEF holders
<1>6. CASE holders = {}
  BY <1>1, <1>5, <1>6, FS_EmptySet
<1>7. CASE holders # {}
  <2>1. PICK f : holders = {f}
    BY <1>3, <1>7
  <2>2. Cardinality(holders) = 1
    BY <2>1, FS_Singleton
  <2>3. QED
    BY <1>1, <1>4, <2>1, <2>2
<1>8. QED
  BY <1>6, <1>7

\* Time passes.
LEMMA WhereTick ==
  ASSUME Shape, Whereabouts, Tick
  PROVE  Whereabouts'
<1> USE DEF Whereabouts
<1>1. UNCHANGED <<at, channel, flusher, tail, raw, deltas, blobs, fleet>> /\ clock' = clock + 1
  BY DEF Tick, disk
<1>2. ASSUME NEW r \in Records, Gone(r)
      PROVE  Gone(r)'
  <2>1. clock \in Nat /\ at[r] \in Int /\ TailDays * HoursPerDay \in Nat
    BY Reads, Constants DEF Shape, Hours, Never
  <2>2. at[r] < TailFloor => at[r] < TailFloor'
    BY <1>1, <2>1 DEF TailFloor
  <2>3. QED
    BY <1>1, <1>2, <2>2 DEF Gone, InFile
<1>3. Filed'
  BY <1>1 DEF Filed, Day
<1>4. Flowing'
  BY <1>1 DEF Flowing, Unseen, InFile, Day
<1>5. Shipped'
  <2>1. \A b \in blobs : b.rows \subseteq Records
    BY DEF Shape, BlobType
  <2>2. QED
    BY <1>1, <1>2, <2>1 DEF Shipped, SameKey, Names, Of
<1>6. Seen'
  BY <1>1, <1>2 DEF Seen, Objects
<1>7. QED
  BY <1>3, <1>4, <1>5, <1>6

\* A request completes here.
LEMMA WhereRecord ==
  ASSUME Shape, Whereabouts, NEW r \in Records, record(r)
  PROVE  Whereabouts'
<1> USE DEF Whereabouts
<1>1. /\ UNCHANGED <<clock, flusher, tail, raw, deltas, blobs, fleet>>
      /\ at' = [at EXCEPT ![r] = clock] /\ at[r] = Never
      /\ channel' \subseteq channel \cup {r}
  BY DEF record, disk
<1>2. at \in [Records -> Hours \cup {Never}] /\ clock # Never
      /\ Unseen(r) /\ r \notin channel /\ flusher.batch \subseteq Records
  BY <1>1, Reads DEF Shape, Flowing, Never, FlusherType
<1>3. \A q \in Records \ {r} : at'[q] = at[q]
  BY <1>1, <1>2
<1>4. at'[r] # Never
  BY <1>1, <1>2
<1>5. \A q \in Records : Gone(q) => Gone(q)'
  BY <1>1, <1>3 DEF Gone, InFile, TailFloor
<1>6. Filed'
  <2>1. \A f \in deltas \cup raw : f.rows \subseteq Records \ {r}
    BY <1>2 DEF Unseen, InFile, Shape, FileType
  <2>2. QED
    BY <1>1, <1>3, <2>1 DEF Filed, Day
<1>7. Flowing'
  <2>1. \A q \in Records : Unseen(q)' <=> Unseen(q)
    BY <1>1 DEF Unseen, InFile
  <2>2. \A q \in flusher.batch : q # r
    BY <1>2 DEF Unseen
  <2>3. QED
    BY <1>1, <1>2, <1>3, <1>4, <2>1, <2>2 DEF Flowing, InFile, Day, Shape
<1>8. Shipped'
  <2>1. \A b \in blobs : b.rows \subseteq Records
    BY DEF Shape, BlobType
  <2>2. QED
    BY <1>1, <1>5, <2>1 DEF Shipped, SameKey, Names, Of
<1>9. Seen'
  BY <1>1, <1>5 DEF Seen, Objects
<1>10. QED
  BY <1>6, <1>7, <1>8, <1>9

\* One object more, or the same one again: none has fewer.
LEMMA MoreObjects ==
  ASSUME NEW old, NEW new, IsFiniteSet(old), IsFiniteSet(new), NEW r,
         \A b, c \in old : SameKey(b, c) => b = c,
         \A b \in old : r \in b.rows => \E c \in new : r \in c.rows /\ SameKey(b, c)
  PROVE  Cardinality({b \in old : r \in b.rows}) <= Cardinality({b \in new : r \in b.rows})
<1> DEFINE from == {b \in old : r \in b.rows}
<1> DEFINE to == {b \in new : r \in b.rows}
<1> DEFINE match == [b \in from |-> CHOOSE c \in to : SameKey(b, c)]
<1>1. IsFiniteSet(from) /\ IsFiniteSet(to)
  BY FS_Subset
<1>2. \A b \in from : match[b] \in to /\ SameKey(b, match[b])
  OBVIOUS
<1>3. ASSUME NEW b \in from, NEW c \in from, match[b] = match[c]
      PROVE  b = c
  <2>1. SameKey(b, match[b]) /\ SameKey(c, match[b])
    BY <1>2, <1>3
  <2>2. SameKey(b, c)
    BY <2>1 DEF SameKey
  <2>3. QED
    BY <2>2
<1>4. match \in Injection(from, to)
  <2>1. match \in [from -> to]
    BY <1>2
  <2> HIDE DEF match
  <2>2. QED
    BY <1>3, <2>1 DEF Injection, IsInjective
<1> HIDE DEF from, to, match
<1>5. Cardinality(from) <= Cardinality(to)
  BY <1>1, <1>4, FS_Injection
<1>6. QED
  BY <1>5 DEF from, to

\* A request completes on a peer.
LEMMA WherePeer ==
  ASSUME Shape, Shape', Whereabouts, NEW r \in Records, PeerShips(r)
  PROVE  Whereabouts'
<1> USE DEF Whereabouts
<1> DEFINE new == [node |-> 0, day |-> Today, name |-> <<0, 0>>, rows |-> {r}]
<1>1. /\ UNCHANGED <<clock, channel, flusher, tail, raw, deltas, fleet>>
      /\ at' = [at EXCEPT ![r] = clock] /\ at[r] = Never
      /\ blobs' = blobs \cup {new}
      /\ \A b \in blobs : b.node # 0
  BY DEF PeerShips, disk
<1>2. at \in [Records -> Hours \cup {Never}] /\ clock # Never
      /\ Unseen(r) /\ r \notin channel /\ flusher.batch \subseteq Records
  BY <1>1, Reads DEF Shape, Flowing, Never, FlusherType
<1>3. \A q \in Records \ {r} : at'[q] = at[q]
  BY <1>1, <1>2
<1>4. at'[r] # Never
  BY <1>1, <1>2
<1>5. new.node = 0 /\ new.name[1] = 0 /\ new.rows = {r} /\ new.name = <<0, 0>>
  OBVIOUS
<1> HIDE DEF new
<1>6. \A q \in Records : Gone(q) => Gone(q)'
  BY <1>1, <1>3 DEF Gone, InFile, TailFloor
<1>7. Gone(r)'
  BY <1>1, <1>2, <1>4 DEF Gone, Unseen, InFile
<1>8. Filed'
  <2>1. \A f \in deltas \cup raw : f.rows \subseteq Records \ {r}
    BY <1>2 DEF Unseen, InFile, Shape, FileType
  <2>2. QED
    BY <1>1, <1>3, <2>1 DEF Filed, Day
<1>9. Flowing'
  <2>1. \A q \in Records \ {r} : (Unseen(q)' <=> Unseen(q)) /\ (InFile(blobs', q) <=> InFile(blobs, q))
    BY <1>1, <1>5 DEF Unseen, InFile
  <2>2. \A q \in flusher.batch \cup channel : q # r
    BY <1>2 DEF Unseen
  <2>3. QED
    BY <1>1, <1>2, <1>3, <1>4, <2>1, <2>2 DEF Flowing, Day, Shape
<1>10. Shipped'
  <2>1. \A b \in blobs : b.rows \subseteq Records
    BY DEF Shape, BlobType
  <2>2. \A b, c \in blobs' : SameKey(b, c) => b = c
    BY <1>1, <1>5 DEF Shipped, SameKey
  <2>3. \A b \in blobs', f \in deltas : b.day = f.day /\ b.name = f.name => b.rows \subseteq f.rows
    BY <1>1, <1>5 DEF Shipped, Filed
  <2>4. \A b \in blobs' : \A q \in b.rows : Gone(q)' \/ b.name \in Names(deltas, b.day)
    BY <1>1, <1>5, <1>6, <1>7, <2>1 DEF Shipped
  <2>5. QED
    BY <1>1, <2>2, <2>3, <2>4 DEF Shipped
<1>11. Seen'
  <2>1. ASSUME NEW q \in Records
        PROVE  fleet[q] <= Cardinality({b \in blobs' : q \in b.rows})
    <3>1. Cardinality({b \in blobs : q \in b.rows}) <= Cardinality({b \in blobs' : q \in b.rows})
      <4>1. IsFiniteSet(blobs) /\ IsFiniteSet(blobs')
        BY DEF Shape
      <4>2. \A b \in blobs : b \in blobs' /\ SameKey(b, b)
        BY <1>1 DEF SameKey
      <4>3. \A b, c \in blobs : SameKey(b, c) => b = c
        BY DEF Shipped
      <4>4. QED
        BY <4>1, <4>2, <4>3, MoreObjects
    <3>2. fleet[q] <= Cardinality({b \in blobs : q \in b.rows}) /\ fleet[q] \in Nat
      BY DEF Seen, Objects, Shape, Rows
    <3>3. {b \in blobs : q \in b.rows} \in SUBSET blobs /\ {b \in blobs' : q \in b.rows} \in SUBSET blobs'
      OBVIOUS
    <3>4. Cardinality({b \in blobs : q \in b.rows}) \in Nat /\ Cardinality({b \in blobs' : q \in b.rows}) \in Nat
      BY <3>3, FS_Subset, FS_CardinalityType DEF Shape
    <3>5. QED
      BY <3>1, <3>2, <3>4
  <2>2. QED
    BY <1>1, <1>6, <2>1 DEF Seen, Objects
<1>12. QED
  BY <1>8, <1>9, <1>10, <1>11

\* The file in hand takes the place of none, or of the torn one of its own day; and
\* the records for it are in no file yet and in no object.
LEMMA Working ==
  ASSUME Shape, Named, Whereabouts, AtWork
  PROVE  LET day == Min(flusher.days)
         IN  /\ day \in flusher.days /\ day \in Days /\ Name[1] # 0
             /\ \A x \in deltas \cup blobs :
                  x.day = day /\ x.name = Name => flusher.step = "close" /\ x.rows = {}
             /\ In(flusher.batch, day) \in SUBSET flusher.batch
             /\ flusher.batch \in SUBSET Records
             /\ \A r \in In(flusher.batch, day) :
                  at[r] # Never /\ Day(at[r]) = day /\ ~InFile(deltas, r) /\ ~InFile(blobs, r)
<1> DEFINE day == Min(flusher.days)
<1>1. day \in flusher.days /\ day \in Days
  BY InHand
<1>2. boot \in Nat \ {0}
  BY NameTyped
<1>3. Name[1] # 0
  BY <1>2 DEF Name
<1>4. ASSUME NEW x \in deltas \cup blobs, x.day = day, x.name = Name
      PROVE  flusher.step = "close" /\ x.rows = {}
  BY <1>1, <1>4, NotOld DEF Named, Known
<1>5. In(flusher.batch, day) \in SUBSET flusher.batch /\ flusher.batch \in SUBSET Records
  BY DEF In, Shape, FlusherType
<1>6. ASSUME NEW r \in In(flusher.batch, day)
      PROVE  at[r] # Never /\ Day(at[r]) = day /\ ~InFile(deltas, r) /\ ~InFile(blobs, r)
  BY <1>1, <1>6 DEF In, Shape, Whereabouts, Flowing
<1>7. QED
  BY <1>1, <1>3, <1>4, <1>5, <1>6

\* The tail of a new process is seeded from the disk.
LEMMA WhereSeed ==
  ASSUME Shape, Whereabouts, \A d \in Days : DayHonest(d), seed_recent_rollups
  PROVE  Whereabouts'
<1> USE DEF Whereabouts
<1>1. /\ UNCHANGED <<clock, at, channel, raw, deltas, blobs, fleet>>
      /\ tail.rows = Nothing /\ flusher.step = "seed"
      /\ flusher' = [flusher EXCEPT !.step = "wait"]
  BY DEF seed_recent_rollups, disk, Flowing
<1>2. flusher'.batch = flusher.batch /\ flusher'.days = flusher.days /\ flusher'.step = "wait"
      /\ flusher.batch = {}
  BY <1>1 DEF Shape, FlusherType, AtWork
<1>3. ASSUME NEW r \in Records
      PROVE  /\ tail'.rows[r] \in 0 .. 1
             /\ tail'.rows[r] # 0 => at[r] # Never /\ (InFile(deltas, r) \/ InFile(raw, r))
  <2>1. Today \in Days /\ Today - 1 \in Days /\ Today \in Nat
    BY Reads
  <2>2. hourly_rows(Today) = read_files(Today) /\ hourly_rows(Today - 1) = read_files(Today - 1)
    BY <2>1, DaysRead
  <2>3. tail'.rows = Add(tail.rows, Add(hourly_rows(Today), hourly_rows(Today - 1)))
    BY DEF seed_recent_rollups
  <2>4. tail'.rows[r] = 0 + (read_files(Today)[r] + read_files(Today - 1)[r])
    BY <1>1, <2>2, <2>3 DEF Add, Nothing
  <2> DEFINE one == read_files(Today)[r]
  <2> DEFINE two == read_files(Today - 1)[r]
  <2>5. one \in 0 .. 1 /\ (one = 1 => at[r] # Never /\ Day(at[r]) = Today /\ (InFile(deltas, r) \/ InFile(raw, r)))
    BY ReadOnce
  <2>6. two \in 0 .. 1 /\ (two = 1 => at[r] # Never /\ Day(at[r]) = Today - 1 /\ (InFile(deltas, r) \/ InFile(raw, r)))
    BY ReadOnce
  <2>7. tail'.rows[r] = one + two
    BY <2>4, <2>5, <2>6
  <2> HIDE DEF one, two
  <2>8. ~(one = 1 /\ two = 1)
    BY <2>1, <2>5, <2>6
  <2>9. QED
    BY <2>5, <2>6, <2>7, <2>8
<1>4. Filed'
  BY <1>1 DEF Filed, Day
<1>5. Flowing'
  <2>1. \A r \in Records : Unseen(r) => Unseen(r)'
    BY <1>1, <1>2, <1>3 DEF Unseen, InFile
  <2>2. channel \in SUBSET Records
    BY DEF Shape
  <2>3. tail'.seeded
    BY DEF seed_recent_rollups
  <2>4. QED
    BY <1>1, <1>2, <1>3, <2>1, <2>2, <2>3 DEF Flowing
<1>6. \A r \in Records : Gone(r) => Gone(r)'
  BY <1>1, <1>2, <1>3 DEF Gone, InFile
<1>7. Shipped'
  <2>1. \A b \in blobs : b.rows \subseteq Records
    BY DEF Shape, BlobType
  <2>2. QED
    BY <1>1, <1>6, <2>1 DEF Shipped, SameKey, Names, Of
<1>8. Seen'
  BY <1>1, <1>6 DEF Seen, Objects
<1>9. QED
  BY <1>4, <1>5, <1>7, <1>8

\* A batch is taken.
LEMMA WhereTake ==
  ASSUME Shape, Whereabouts, Take
  PROVE  Whereabouts'
<1> USE DEF Whereabouts
<1>1. /\ UNCHANGED <<clock, at, deltas, blobs, fleet>> /\ channel' = {}
      /\ tail' = [tail EXCEPT !.rows = Add(@, Fold(channel))]
      /\ flusher.step = "wait"
  BY DEF Take
<1>2. flusher'.batch = channel /\ flusher'.step = "create" /\ flusher.batch = {}
  BY DEF Take, Shape, FlusherType, AtWork
<1>3. channel \in SUBSET Records /\ \A r \in channel : at[r] # Never /\ Unseen(r)
  BY DEF Shape, Flowing
<1>4. \A r \in Records : tail.rows[r] \in Nat
  BY DEF Shape, Rows
<1>5. \A r \in Records : tail'.rows[r] = tail.rows[r] + IF r \in channel THEN 1 ELSE 0
  BY <1>1 DEF Shape, Add, Fold
<1>6. \A f \in raw' : f \in raw \/ (f.rows = In(channel, f.day) /\ f = File(f.day, Name, In(channel, f.day)))
  <2>1. PICK written : raw' = raw \cup {File(d, Name, In(channel, d)) : d \in written}
    BY DEF Take, write_batch
  <2>2. QED
    BY <2>1 DEF File
<1>7. \A r \in Records \ channel : InFile(raw', r) => InFile(raw, r)
  BY <1>6 DEF InFile, In
<1>8. Filed'
  <2>1. \A f \in raw' : \A r \in f.rows : at[r] # Never /\ Day(at[r]) = f.day
    BY <1>3, <1>6 DEF Filed, In
  <2>2. ASSUME NEW f \in raw', NEW g \in raw', NEW r \in f.rows, r \in g.rows
        PROVE  f = g
    <3>1. f.day = g.day
      BY <2>1, <2>2
    <3>2. CASE r \in channel
      <4>1. f \notin raw /\ g \notin raw
        BY <1>3, <2>2, <3>2 DEF Unseen, InFile
      <4>2. QED
        BY <1>6, <3>1, <4>1
    <3>3. CASE r \notin channel
      <4>1. f \in raw /\ g \in raw
        BY <1>6, <2>2, <3>3 DEF In
      <4>2. QED
        BY <2>2, <4>1 DEF Filed
    <3>4. QED
      BY <3>2, <3>3
  <2>3. QED
    BY <1>1, <2>1, <2>2 DEF Filed, Day
<1>9. \A r \in Records : at[r] = Never => Unseen(r)'
  <2>1. ASSUME NEW r \in Records, at[r] = Never
        PROVE  Unseen(r)'
    <3>1. Unseen(r) /\ r \notin channel
      BY <2>1 DEF Flowing
    <3>2. tail'.rows[r] = 0
      BY <1>5, <3>1 DEF Unseen
    <3>3. QED
      BY <1>1, <1>2, <1>7, <3>1, <3>2 DEF Unseen, InFile
  <2>2. QED
    BY <2>1
<1>10. Flowing'
  <2>1. \A r \in channel : tail'.rows[r] = 1 /\ ~InFile(deltas, r) /\ ~InFile(blobs, r)
    BY <1>3, <1>5 DEF Unseen
  <2>2. \A r \in Records : tail'.rows[r] <= 1
    BY <1>4, <1>5, <2>1 DEF Flowing
  <2>3. tail'.seeded /\ flusher'.step # "seed"
    BY <1>1, <1>2 DEF Flowing, Shape
  <2>4. QED
    BY <1>1, <1>2, <1>9, <2>1, <2>2, <2>3 DEF Flowing, InFile, Day
<1>11. ASSUME NEW r \in Records, Gone(r)
       PROVE  Gone(r)'
  <2>1. r \notin channel
    BY <1>11 DEF Gone
  <2>2. tail'.rows[r] = tail.rows[r]
    BY <1>4, <1>5, <2>1
  <2>3. QED
    BY <1>1, <1>2, <1>7, <1>11, <2>1, <2>2 DEF Gone, InFile, TailFloor
<1>12. Shipped'
  <2>1. \A b \in blobs : b.rows \subseteq Records
    BY DEF Shape, BlobType
  <2>2. QED
    BY <1>1, <1>11, <2>1 DEF Shipped, SameKey, Names, Of
<1>13. Seen'
  BY <1>1, <1>11 DEF Seen, Objects
<1>14. QED
  BY <1>8, <1>10, <1>12, <1>13

\* The file of a day is begun: it takes the place of none.
LEMMA WhereCreate ==
  ASSUME Shape, Named, Whereabouts, CreateDelta
  PROVE  Whereabouts'
<1> USE DEF Whereabouts
<1> DEFINE day == Min(flusher.days)
<1> DEFINE file == File(day, Name, {})
<1>1. /\ UNCHANGED <<clock, at, channel, tail, raw, blobs, fleet>>
      /\ flusher.step = "create" /\ AtWork
      /\ deltas' = Write(deltas, file)
  BY DEF CreateDelta, AtWork
<1>2. flusher'.batch = flusher.batch /\ flusher'.days = flusher.days /\ flusher'.step = "close"
  BY DEF CreateDelta, Shape, FlusherType
<1>3. Name[1] # 0 /\ \A x \in deltas \cup blobs : ~(x.day = day /\ x.name = Name)
  BY <1>1, Working
<1>4. file.day = day /\ file.name = Name /\ file.rows = {}
  BY DEF File
<1> HIDE DEF day, file
<1>5. deltas' = deltas \cup {file}
  BY <1>1, <1>3, <1>4 DEF Write
<1>6. \A r \in Records : InFile(deltas', r) <=> InFile(deltas, r)
  BY <1>4, <1>5 DEF InFile
<1>7. Filed'
  BY <1>1, <1>3, <1>4, <1>5 DEF Filed, Day
<1>8. Flowing'
  <2>1. \A r \in Records : Unseen(r)' <=> Unseen(r)
    BY <1>1, <1>2, <1>6 DEF Unseen, InFile
  <2>2. channel \in SUBSET Records /\ flusher.batch \in SUBSET Records
    BY DEF Shape, FlusherType
  <2>3. \A r \in Records : InFile(blobs', r) <=> InFile(blobs, r)
    BY <1>1
  <2>4. QED
    BY <1>1, <1>2, <1>6, <2>1, <2>2, <2>3 DEF Flowing, Day
<1>9. \A r \in Records : Gone(r) => Gone(r)'
  BY <1>1, <1>2, <1>6 DEF Gone, InFile, TailFloor
<1>10. Shipped'
  <2>1. \A b \in blobs : b.rows \subseteq Records
    BY DEF Shape, BlobType
  <2>2. \A b \in blobs, f \in deltas' : b.day = f.day /\ b.name = f.name => b.rows \subseteq f.rows
    BY <1>3, <1>4, <1>5 DEF Shipped
  <2>3. \A d : Names(deltas, d) \subseteq Names(deltas', d)
    BY <1>5 DEF Names, Of
  <2>4. QED
    BY <1>1, <1>9, <2>1, <2>2, <2>3 DEF Shipped, SameKey
<1>11. Seen'
  BY <1>1, <1>9 DEF Seen, Objects
<1>12. QED
  BY <1>7, <1>8, <1>10, <1>11

\* The rows of a day reach its file.
LEMMA WhereClose ==
  ASSUME Shape, Named, Whereabouts, CloseDelta
  PROVE  Whereabouts'
<1> USE DEF Whereabouts
<1> DEFINE day == Min(flusher.days)
<1> DEFINE rows == In(flusher.batch, day)
<1> DEFINE file == File(day, Name, rows)
<1>1. /\ UNCHANGED <<clock, at, channel, tail, raw, blobs, fleet>>
      /\ flusher.step = "close" /\ AtWork
      /\ deltas' = Write(deltas, file)
  BY DEF CloseDelta, AtWork
<1>2. \/ flusher'.batch = {} /\ flusher'.step = "wait"
      \/ flusher'.batch = flusher.batch /\ flusher'.days = flusher.days \ {day} /\ flusher'.step = "create"
  BY DoneTyped DEF CloseDelta, Shape, FlusherType
<1>3. /\ Name[1] # 0 /\ \A x \in deltas \cup blobs : x.day = day /\ x.name = Name => x.rows = {}
      /\ rows \in SUBSET flusher.batch /\ flusher.batch \in SUBSET Records
      /\ \A r \in rows : at[r] # Never /\ Day(at[r]) = day /\ ~InFile(deltas, r) /\ ~InFile(blobs, r)
  BY <1>1, Working
<1>4. file.day = day /\ file.name = Name /\ file.rows = rows
  BY DEF File
<1>5. \A r \in flusher.batch : Day(at[r]) = day => r \in rows
  BY DEF In
<1> HIDE DEF day, rows, file
<1>6. /\ file \in deltas'
      /\ \A f \in deltas' : f = file \/ (f \in deltas /\ ~(f.day = day /\ f.name = Name))
      /\ \A f \in deltas : f \in deltas' \/ (f.day = day /\ f.name = Name /\ f.rows = {})
  BY <1>1, <1>3, <1>4 DEF Write
<1>7. \A r \in Records : r \notin rows => (InFile(deltas', r) <=> InFile(deltas, r))
  BY <1>4, <1>6 DEF InFile
<1>8. Filed'
  <2>1. \A f \in deltas' : \A r \in f.rows : at[r] # Never /\ Day(at[r]) = f.day
    BY <1>3, <1>4, <1>6 DEF Filed
  <2>2. \A f \in deltas' : f = file \/ (f \in deltas /\ \A r \in f.rows : r \notin file.rows)
    BY <1>3, <1>4, <1>6 DEF InFile
  <2>3. \A f, g \in deltas' : \A r \in f.rows : r \in g.rows => f = g
    BY <2>2 DEF Filed
  <2>4. \A f \in deltas' : f.name[1] # 0
    BY <1>3, <1>4, <1>6 DEF Filed
  <2>5. QED
    BY <1>1, <2>1, <2>3, <2>4 DEF Filed, Day
<1>9. Flowing'
  <2>1. \A r \in Records : Unseen(r) => Unseen(r)'
    <3>1. flusher'.batch \subseteq flusher.batch
      BY <1>2
    <3>2. QED
      BY <1>1, <1>3, <1>7, <3>1 DEF Unseen, InFile
  <2>2. channel \in SUBSET Records
    BY DEF Shape
  <2>3. \A r \in flusher'.batch : Day(at[r]) \in flusher'.days => ~InFile(deltas', r) /\ ~InFile(blobs, r)
    BY <1>2, <1>3, <1>7 DEF Flowing
  <2>4. \A r \in flusher'.batch : tail.rows[r] = 1
    BY <1>2 DEF Flowing
  <2>5. flusher'.step # "seed" /\ tail.seeded
    BY <1>1, <1>2 DEF Flowing
  <2>6. \A r \in flusher'.batch : Day(at'[r]) \in flusher'.days => ~InFile(blobs', r)
    BY <1>1, <2>3
  <2>7. QED
    BY <1>1, <2>1, <2>2, <2>3, <2>4, <2>5, <2>6 DEF Flowing, Day
<1>10. \A r \in Records : Gone(r) => Gone(r)'
  <2>1. \A r \in Records : Gone(r) => r \notin flusher.batch /\ r \notin flusher'.batch /\ r \notin rows
    BY <1>2, <1>3 DEF Gone
  <2>2. QED
    BY <1>1, <1>7, <2>1 DEF Gone, InFile, TailFloor
<1>11. Shipped'
  <2>1. \A b \in blobs : b.rows \subseteq Records
    BY DEF Shape, BlobType
  <2>2. \A b \in blobs, f \in deltas' : b.day = f.day /\ b.name = f.name => b.rows \subseteq f.rows
    BY <1>3, <1>4, <1>6 DEF Shipped
  <2>3. \A d : Names(deltas, d) \subseteq Names(deltas', d)
    <3> SUFFICES ASSUME NEW d, NEW f \in deltas, f.day = d
                 PROVE  f.name \in Names(deltas', d)
      BY DEF Names, Of
    <3>1. QED
      BY <1>4, <1>6 DEF Names, Of
  <2>4. QED
    BY <1>1, <1>10, <2>1, <2>2, <2>3 DEF Shipped, SameKey
<1>12. Seen'
  BY <1>1, <1>10 DEF Seen, Objects
<1>13. QED
  BY <1>8, <1>9, <1>11, <1>12

\* The disk refuses.
LEMMA WhereFails ==
  ASSUME Shape, Whereabouts, DeltaFails
  PROVE  Whereabouts'
<1> USE DEF Whereabouts
<1>1. /\ UNCHANGED <<clock, at, channel, tail, raw, deltas, blobs, fleet>>
      /\ flusher'.batch = {} /\ flusher'.step = "wait" /\ flusher.step # "seed"
  BY DoneTyped DEF DeltaFails, disk
<1>2. Filed'
  BY <1>1 DEF Filed, Day
<1>3. Flowing'
  <2>1. \A r \in Records : Unseen(r) => Unseen(r)'
    BY <1>1 DEF Unseen, InFile
  <2>2. channel \in SUBSET Records
    BY DEF Shape
  <2>3. QED
    BY <1>1, <2>1, <2>2 DEF Flowing
<1>4. \A r \in Records : Gone(r) => Gone(r)'
  BY <1>1 DEF Gone, InFile, TailFloor
<1>5. Shipped'
  <2>1. \A b \in blobs : b.rows \subseteq Records
    BY DEF Shape, BlobType
  <2>2. QED
    BY <1>1, <1>4, <2>1 DEF Shipped, SameKey, Names, Of
<1>6. Seen'
  BY <1>1, <1>4 DEF Seen, Objects
<1>7. QED
  BY <1>2, <1>3, <1>5, <1>6

\* A day before the rollups' retention is before the tail.
LEMMA BeforeTail ==
  ASSUME Shape, NEW x \in Nat, Day(x) < Today - TailDays
  PROVE  x < TailFloor
<1>1. clock \in Nat /\ TailDays \in Nat /\ TailDays * HoursPerDay <= clock
  <2>1. clock \in Nat /\ FirstHour <= clock
    BY Reads, Constants DEF Shape, Hours
  <2>2. QED
    BY <2>1, Constants
<1>2. TailFloor \in Nat /\ Day(TailFloor) = Today - TailDays
  BY <1>1, TailDay DEF TailFloor, Today
<1>3. TailFloor <= x => Day(TailFloor) <= Day(x)
  BY <1>2, DayOf
<1>4. Day(x) \in Nat /\ Day(TailFloor) \in Nat
  BY <1>2, DayOf
<1>5. QED
  BY <1>2, <1>3, <1>4

\* Partitions past their retention go, with the records in them.
LEMMA WherePrune ==
  ASSUME Shape, Whereabouts, prune
  PROVE  Whereabouts'
<1> USE DEF Whereabouts
<1>1. /\ UNCHANGED <<clock, at, channel, tail, blobs, fleet>>
      /\ raw' = {f \in raw : f.day >= Today - Retention}
      /\ deltas' = {f \in deltas : f.day >= Today - RollupDays}
      /\ flusher.step = "wait"
  BY DEF prune
<1>2. flusher'.batch = {} /\ flusher'.step = "refresh" /\ flusher.batch = {}
  BY DEF prune, Shape, FlusherType, AtWork
<1>3. Filed'
  BY <1>1 DEF Filed, Day
<1>4. Flowing'
  <2>1. \A r \in Records : Unseen(r) => Unseen(r)'
    BY <1>1, <1>2 DEF Unseen, InFile
  <2>2. channel \in SUBSET Records
    BY DEF Shape
  <2>3. QED
    BY <1>1, <1>2, <2>1, <2>2 DEF Flowing
<1>5. \A r \in Records : Gone(r) => Gone(r)'
  BY <1>1, <1>2 DEF Gone, InFile, TailFloor
<1>6. Shipped'
  <2>1. \A b \in blobs : b.rows \subseteq Records
    BY DEF Shape, BlobType
  <2>2. ASSUME NEW b \in blobs, NEW r \in b.rows, ~Gone(r), b.name \notin Names(deltas', b.day)
        PROVE  Gone(r)'
    <3>1. PICK f \in deltas : f.day = b.day /\ f.name = b.name
      BY <2>2 DEF Shipped, Names, Of
    <3>2. f \notin deltas' /\ r \in f.rows /\ r \in Records
      BY <2>1, <2>2, <3>1 DEF Shipped, Names, Of
    <3>3. at[r] # Never /\ Day(at[r]) = f.day
      BY <3>2 DEF Filed
    <3>4. at[r] \in Nat /\ Day(at[r]) \in Nat /\ Today \in Nat
      BY <3>2, <3>3, Stamped, DayOf, Reads
    <3>5. Day(at[r]) < Today - RollupDays
      BY <1>1, <3>2, <3>3, <3>4, Constants
    <3>6. at[r] < TailFloor
      BY <3>4, <3>5, BeforeTail, Constants
    <3>7. ~InFile(deltas', r)
      BY <1>1, <3>2 DEF InFile, Filed
    <3>8. ~InFile(raw', r)
      <4>1. ~(Day(at[r]) >= Today - Retention)
        BY <3>4, <3>5, Constants
      <4>2. QED
        BY <1>1, <4>1 DEF InFile, Filed
    <3>9. r \notin channel
      BY <3>2 DEF Flowing, Unseen, InFile
    <3>10. QED
      BY <1>1, <1>2, <3>3, <3>6, <3>7, <3>8, <3>9 DEF Gone, TailFloor
  <2>3. QED
    BY <1>1, <1>5, <2>1, <2>2 DEF Shipped, SameKey
<1>7. Seen'
  BY <1>1, <1>5 DEF Seen, Objects
<1>8. QED
  BY <1>3, <1>4, <1>6, <1>7

\* The caches are brought up to date, and the tail lets go.
LEMMA WhereRefresh ==
  ASSUME Shape, Whereabouts, refresh
  PROVE  Whereabouts'
<1> USE DEF Whereabouts
<1>1. /\ UNCHANGED <<clock, at, channel, raw, deltas, blobs, fleet>>
      /\ flusher.step = "refresh"
  BY DEF refresh
<1>2. flusher'.batch = {} /\ flusher'.step = "wait" /\ flusher.batch = {}
  BY DEF refresh, Shape, FlusherType, AtWork
<1>3. tail'.seeded = tail.seeded
      /\ \A r \in Records : tail'.rows[r] = tail.rows[r] \/ tail'.rows[r] = 0
  BY DEF refresh, Shape
<1>4. Filed'
  BY <1>1 DEF Filed, Day
<1>5. Flowing'
  <2>1. \A r \in Records : Unseen(r) => Unseen(r)'
    BY <1>1, <1>2, <1>3 DEF Unseen, InFile
  <2>2. channel \in SUBSET Records
    BY DEF Shape
  <2>3. QED
    BY <1>1, <1>2, <1>3, <2>1, <2>2 DEF Flowing
<1>6. \A r \in Records : Gone(r) => Gone(r)'
  BY <1>1, <1>2, <1>3 DEF Gone, InFile, TailFloor
<1>7. Shipped'
  <2>1. \A b \in blobs : b.rows \subseteq Records
    BY DEF Shape, BlobType
  <2>2. QED
    BY <1>1, <1>6, <2>1 DEF Shipped, SameKey, Names, Of
<1>8. Seen'
  BY <1>1, <1>6 DEF Seen, Objects
<1>9. QED
  BY <1>4, <1>5, <1>7, <1>8

\* A file is put in the store, again or for the first time.
LEMMA WherePut ==
  ASSUME Shape, Shape', Named, Whereabouts, NEW f \in deltas, Put(f)
  PROVE  Whereabouts'
<1> USE DEF Whereabouts
<1> DEFINE put == [node |-> boot, day |-> f.day, name |-> f.name, rows |-> f.rows]
<1>1. /\ UNCHANGED <<clock, at, channel, flusher, tail, raw, deltas, fleet>>
      /\ blobs' = {b \in blobs : ~(b.node = boot /\ b.day = f.day /\ b.name = f.name)} \cup {put}
  BY DEF Put
<1>2. put.node = boot /\ put.day = f.day /\ put.name = f.name /\ put.rows = f.rows
  OBVIOUS
<1> HIDE DEF put
<1>3. f.rows \subseteq Records
  BY DEF Shape, FileType
<1>4. Filed'
  BY <1>1 DEF Filed, Day
<1>5. Flowing'
  <2>1. \A r \in Records : InFile(blobs', r) => InFile(blobs, r) \/ InFile(deltas, r)
    BY <1>1, <1>2 DEF InFile
  <2>2. \A r \in Records : Unseen(r) => Unseen(r)'
    BY <1>1, <2>1 DEF Unseen, InFile
  <2>3. channel \in SUBSET Records /\ flusher.batch \in SUBSET Records
    BY DEF Shape, FlusherType
  <2>4. QED
    BY <1>1, <2>1, <2>2, <2>3 DEF Flowing, InFile, Day
<1>6. \A r \in Records : Gone(r) => Gone(r)'
  BY <1>1 DEF Gone, InFile, TailFloor
<1>7. \A b \in blobs : b \in blobs' \/ (SameKey(b, put) /\ b.rows \subseteq f.rows)
  BY <1>1, <1>2 DEF Shipped, SameKey
<1>8. Shipped'
  <2>1. \A b \in blobs : b.rows \subseteq Records
    BY DEF Shape, BlobType
  <2>2. \A b, c \in blobs' : SameKey(b, c) => b = c
    BY <1>1, <1>2 DEF Shipped, SameKey
  <2>3. \A b \in blobs', g \in deltas : b.day = g.day /\ b.name = g.name => b.rows \subseteq g.rows
    <3>1. \A g \in deltas : f.day = g.day /\ f.name = g.name => f.rows \subseteq g.rows
      BY DEF Named
    <3>2. QED
      BY <1>1, <1>2, <3>1 DEF Shipped
  <2>4. f.name \in Names(deltas, f.day)
    BY DEF Names, Of
  <2>5. QED
    BY <1>1, <1>2, <1>6, <2>1, <2>2, <2>3, <2>4 DEF Shipped
<1>9. Seen'
  <2>1. ASSUME NEW q \in Records
        PROVE  fleet[q] <= Cardinality({b \in blobs' : q \in b.rows})
    <3>1. Cardinality({b \in blobs : q \in b.rows}) <= Cardinality({b \in blobs' : q \in b.rows})
      <4> DEFINE later == blobs'
      <4>1. IsFiniteSet(blobs) /\ IsFiniteSet(later)
        BY DEF Shape
      <4>2. \A b \in blobs : q \in b.rows => \E c \in later : q \in c.rows /\ SameKey(b, c)
        <5>1. put \in blobs' /\ \A b \in blobs : SameKey(b, b)
          BY <1>1 DEF SameKey
        <5>2. QED
          BY <1>2, <1>7, <5>1
      <4>3. \A b, c \in blobs : SameKey(b, c) => b = c
        BY DEF Shipped
      <4> HIDE DEF later
      <4>4. Cardinality({b \in blobs : q \in b.rows}) <= Cardinality({b \in later : q \in b.rows})
        BY ONLY <4>1, <4>2, <4>3, MoreObjects
      <4>5. QED
        BY <4>4 DEF later
    <3>2. fleet[q] <= Cardinality({b \in blobs : q \in b.rows}) /\ fleet[q] \in Nat
      BY DEF Seen, Objects, Shape, Rows
    <3>3. {b \in blobs : q \in b.rows} \in SUBSET blobs /\ {b \in blobs' : q \in b.rows} \in SUBSET blobs'
      OBVIOUS
    <3>4. Cardinality({b \in blobs : q \in b.rows}) \in Nat /\ Cardinality({b \in blobs' : q \in b.rows}) \in Nat
      BY <3>3, FS_Subset, FS_CardinalityType DEF Shape
    <3>5. QED
      BY <3>1, <3>2, <3>4
  <2>2. QED
    BY <1>1, <1>6, <2>1 DEF Seen, Objects
<1>10. QED
  BY <1>4, <1>5, <1>8, <1>9

\* A look into the store.
LEMMA WhereFleet ==
  ASSUME Shape, Whereabouts, fleet_rollups
  PROVE  Whereabouts'
<1> USE DEF Whereabouts
<1>1. UNCHANGED <<clock, at, channel, flusher, tail, raw, deltas, blobs>>
  BY DEF fleet_rollups, disk
<1>2. PICK got \in SUBSET {b \in blobs : Foreign(b)} : fleet' = Counts(got)
  BY DEF fleet_rollups
<1>3. ASSUME NEW r \in Records
      PROVE  /\ fleet'[r] <= Cardinality(Objects(r))
             /\ fleet'[r] # 0 => InFile(blobs, r) /\ Gone(r)
  <2> DEFINE holders == {b \in got : r \in b.rows}
  <2>1. fleet'[r] = Cardinality(holders)
    BY <1>2 DEF Counts
  <2>2. holders \in SUBSET Objects(r) /\ IsFiniteSet(Objects(r))
    BY FS_Subset DEF Objects, Shape
  <2>3. Cardinality(holders) <= Cardinality(Objects(r))
    BY <2>2, FS_Subset
  <2>4. ASSUME holders # {}
        PROVE  InFile(blobs, r) /\ Gone(r)
    <3>1. PICK b \in got : r \in b.rows
      BY <2>4
    <3>2. b \in blobs /\ b.name \notin Names(deltas, b.day)
      BY <1>2, <3>1 DEF Foreign
    <3>3. QED
      BY <3>1, <3>2 DEF Shipped, InFile
  <2>5. QED
    BY <2>1, <2>3, <2>4, FS_EmptySet
<1>4. Filed'
  BY <1>1 DEF Filed, Day
<1>5. Flowing'
  <2>1. \A r \in Records : Unseen(r) => Unseen(r)'
    BY <1>1, <1>3 DEF Unseen, InFile
  <2>2. channel \in SUBSET Records /\ flusher.batch \in SUBSET Records
    BY DEF Shape, FlusherType
  <2>3. QED
    BY <1>1, <2>1, <2>2 DEF Flowing, InFile, Day
<1>6. \A r \in Records : Gone(r) => Gone(r)'
  BY <1>1 DEF Gone, InFile, TailFloor
<1>7. Shipped'
  <2>1. \A b \in blobs : b.rows \subseteq Records
    BY DEF Shape, BlobType
  <2>2. QED
    BY <1>1, <1>6, <2>1 DEF Shipped, SameKey, Names, Of
<1>8. Seen'
  BY <1>1, <1>3, <1>6 DEF Seen, Objects
<1>9. QED
  BY <1>4, <1>5, <1>7, <1>8

\* Another process starts, on the same disk or on an empty one.
LEMMA WhereStart ==
  ASSUME Shape, Shape', Whereabouts, Restart \/ Replace
  PROVE  Whereabouts'
<1> USE DEF Whereabouts
<1>1. /\ UNCHANGED <<clock, at, blobs>> /\ channel' = {} /\ fleet' = Nothing
      /\ tail'.rows = Nothing /\ ~tail'.seeded
      /\ flusher'.batch = {} /\ flusher'.step = "seed"
      /\ \/ UNCHANGED <<raw, deltas>>
         \/ raw' = {} /\ deltas' = {}
  <2>1. Start
    BY DEF Restart, Replace
  <2>2. /\ flusher' = [Idle EXCEPT !.step = "seed"] /\ tail' = [rows |-> Nothing, seeded |-> FALSE]
        /\ UNCHANGED <<clock, at, blobs>> /\ channel' = {} /\ fleet' = Nothing
    BY <2>1 DEF Start
  <2>3. flusher'.batch = {} /\ flusher'.step = "seed"
    BY <2>2, StartTyped
  <2>4. UNCHANGED <<raw, deltas>> \/ (raw' = {} /\ deltas' = {})
    BY DEF Restart, Replace, disk
  <2>5. QED
    BY <2>2, <2>3, <2>4
<1>2. \A r \in Records : tail'.rows[r] = 0 /\ fleet'[r] = 0
  BY <1>1 DEF Nothing
<1>3. Filed'
  BY <1>1 DEF Filed, Day
<1>4. Flowing'
  <2>1. \A r \in Records : Unseen(r) => Unseen(r)'
    BY <1>1, <1>2 DEF Unseen, InFile
  <2>2. QED
    BY <1>1, <1>2, <2>1 DEF Flowing
<1>5. \A r \in Records : Gone(r) => Gone(r)'
  BY <1>1, <1>2 DEF Gone, InFile
<1>6. Shipped'
  <2>1. \A b \in blobs : b.rows \subseteq Records
    BY DEF Shape, BlobType
  <2>2. CASE UNCHANGED <<raw, deltas>>
    BY <1>1, <1>5, <2>1, <2>2 DEF Shipped, SameKey, Names, Of
  <2>3. CASE raw' = {} /\ deltas' = {}
    <3>1. ASSUME NEW b \in blobs, NEW r \in b.rows
          PROVE  Gone(r)'
      <4>1. r \in Records /\ InFile(blobs, r)
        BY <2>1, <3>1 DEF InFile
      <4>2. at[r] # Never
        BY <4>1 DEF Flowing, Unseen
      <4>3. QED
        BY <1>1, <1>2, <2>3, <4>1, <4>2 DEF Gone, InFile
    <3>2. QED
      BY <1>1, <2>3, <3>1 DEF Shipped
  <2>4. QED
    BY <1>1, <2>2, <2>3
<1>7. Seen'
  <2>1. ASSUME NEW r \in Records
        PROVE  0 <= Cardinality(Objects(r)')
    <3>1. Objects(r)' \in SUBSET blobs' /\ IsFiniteSet(blobs')
      BY DEF Objects, Shape
    <3>2. QED
      BY <3>1, FS_Subset, FS_CardinalityType
  <2>2. QED
    BY <1>2, <2>1 DEF Seen
<1>8. QED
  BY <1>3, <1>4, <1>6, <1>7

LEMMA WhereInit == Init => Whereabouts
<1> SUFFICES ASSUME Init
             PROVE  Whereabouts
  OBVIOUS
<1>1. deltas = {} /\ raw = {} /\ blobs = {} /\ channel = {} /\ fleet = Nothing
      /\ tail.rows = Nothing /\ ~tail.seeded /\ flusher.batch = {} /\ flusher.step = "seed"
  BY StartTyped DEF Init
<1>2. \A r \in Records : Cardinality(Objects(r)) = 0
  BY <1>1, FS_EmptySet DEF Objects
<1>3. \A r \in Records : tail.rows[r] = 0 /\ fleet[r] = 0
  BY <1>1 DEF Nothing
<1>4. QED
  BY <1>1, <1>2, <1>3 DEF Whereabouts, Filed, Flowing, Unseen, InFile, Shipped, Seen

LEMMA WhereStep ==
  ASSUME Honest, Whereabouts, [Next]_vars
  PROVE  Whereabouts'
<1>1. Shape /\ Shape' /\ Named /\ \A d \in Days : DayHonest(d)
  BY ShapeStep DEF Honest
<1>2. CASE UNCHANGED vars
  BY <1>2 DEF vars, disk, Whereabouts, Filed, Flowing, Shipped, Seen, Unseen, Gone, InFile, SameKey,
     Names, Of, Objects, Day, TailFloor
<1>3. ASSUME NEW r \in Records, record(r) \/ PeerShips(r)
      PROVE  Whereabouts'
  BY <1>1, <1>3, WhereRecord, WherePeer
<1>4. CASE Tick \/ seed_recent_rollups \/ prune \/ refresh \/ Restart \/ Replace
  BY <1>1, <1>4, WhereTick, WhereSeed, WherePrune, WhereRefresh, WhereStart
<1>5. CASE flush
  BY <1>1, <1>5, WhereTake, WhereCreate, WhereClose, WhereFails DEF flush
<1>6. CASE ship_partitions \/ fleet_rollups
  BY <1>1, <1>6, WherePut, WhereFleet DEF ship_partitions
<1>7. QED
  BY <1>2, <1>3, <1>4, <1>5, <1>6 DEF Next

-----------------------------------------------------------------------------
(* Reports *)

\* The larger and the smaller of two.
LEMMA OfTwo ==
  ASSUME NEW a \in Int, NEW b \in Int
  PROVE  /\ Max({a, b}) \in {a, b} /\ Max({a, b}) >= a /\ Max({a, b}) >= b
         /\ Min({a, a}) = a
<1>1. \E x \in {a, b} : \A y \in {a, b} : x >= y
  OBVIOUS
<1>2. Max({a, b}) \in {a, b} /\ \A y \in {a, b} : Max({a, b}) >= y
  BY <1>1 DEF Max
<1>3. Min({a, a}) \in {a, a}
  BY DEF Min
<1>4. QED
  BY <1>2, <1>3

\* Where a report on the time from some hour until now begins, and where the
\* tail does.
LEMMA Begins ==
  ASSUME Shape, NEW from \in Hours
  PROVE  /\ Earliest \in Nat
         /\ Max({from, Earliest}) \in Nat
         /\ \A h \in Nat : from <= h /\ Earliest <= h => Max({from, Earliest}) <= h
         /\ \A f \in deltas : Earliest <= f.day * HoursPerDay
         /\ TailFloor \in Nat /\ Day(TailFloor) = Today - TailDays
         /\ Min({clock, clock}) = clock
<1>1. clock \in Nat /\ from \in Nat /\ HoursPerDay \in Nat /\ TailDays \in Nat
      /\ TailDays * HoursPerDay <= clock
  <2>1. clock \in Nat /\ FirstHour <= clock
    BY Reads, Constants DEF Shape, Hours
  <2>2. QED
    BY <2>1, FiniteDays, Constants
<1>2. TailFloor \in Nat /\ Day(TailFloor) = Today - TailDays
  BY <1>1, TailDay DEF TailFloor, Today
<1>3. Earliest \in Nat /\ \A f \in deltas : Earliest <= f.day * HoursPerDay
  <2> DEFINE held == DaysHeld(deltas) \cup DaysHeld(raw)
  <2>1. held \in SUBSET Nat /\ \A f \in deltas \cup raw : f.day \in held
    BY FiniteDays DEF DaysHeld, Shape, FileType
  <2>2. Earliest = IF deltas \cup raw = {} THEN clock ELSE HoursPerDay * Min(held)
    BY DEF Earliest
  <2> HIDE DEF held
  <2>3. CASE deltas \cup raw = {}
    BY <1>1, <2>2, <2>3
  <2>4. CASE deltas \cup raw # {}
    <3> DEFINE first == Min(held)
    <3>1. first \in Nat /\ \A d \in held : first <= d
      BY <2>1, <2>4, FirstOf
    <3>2. Earliest = HoursPerDay * first
      BY <2>2, <2>4
    <3> HIDE DEF first
    <3>3. \A n, x, y \in Nat : x <= y => n * x <= y * n /\ n * x \in Nat
      OBVIOUS
    <3>4. Earliest \in Nat
      BY <1>1, <3>1, <3>2, <3>3
    <3>5. \A f \in deltas : f.day \in Nat /\ first <= f.day
      BY <2>1, <3>1
    <3>6. \A f \in deltas : Earliest <= f.day * HoursPerDay
      BY <1>1, <3>1, <3>2, <3>3, <3>5
    <3>7. QED
      BY <3>4, <3>6
  <2>5. QED
    BY <2>3, <2>4
<1>4. clock \in Int /\ from \in Int /\ Earliest \in Int
  BY <1>1, <1>3
<1>5. Min({clock, clock}) = clock
  BY <1>4, OfTwo
<1>6. Max({from, Earliest}) = from \/ Max({from, Earliest}) = Earliest
  BY <1>4, OfTwo
<1>7. QED
  BY <1>1, <1>2, <1>3, <1>5, <1>6

\* The days that a report reads from disk, and the months.
LEMMA Walks ==
  ASSUME Shape, NEW since \in Nat
  PROVE  /\ IsFiniteSet(Months)
         /\ Walked(since, clock) \in SUBSET Days /\ \A d \in Walked(since, clock) : d < Ceiling
         /\ \A m \in ByMonth(since, clock) :
              m \in Months /\ MonthCurrent(m) /\ \A d \in Days : Month(d) = m => d < Ceiling
<1>1. LastHour \in Nat /\ Day(LastHour) \in Nat /\ clock \in Nat /\ Day(clock) \in Nat
      /\ Day(since) \in Nat /\ Day(clock) <= Day(LastHour) /\ DaysPerMonth \in Nat \ {0}
  <2>1. clock \in Nat /\ clock <= LastHour /\ LastHour \in Nat
    BY Reads, Constants DEF Shape, Hours
  <2>2. QED
    BY <2>1, DayOf, Constants
<1>2. Month(Day(LastHour)) \in Nat
  BY <1>1 DEF Month
<1>3. IsFiniteSet(Months)
  BY <1>2, FS_Interval DEF Months
<1>4. Walked(since, clock) \in SUBSET Days /\ \A d \in Walked(since, clock) : d < Ceiling
  BY <1>1 DEF Walked, Days
<1>5. Ceiling \in Int
  <2>1. clock \in Hours /\ Today \in Nat /\ TailDays \in Nat
    BY Reads, Constants DEF Shape
  <2>2. Day(TailFloor) = Today - TailDays
    BY <2>1, Begins
  <2>3. QED
    BY <1>1, <2>1, <2>2 DEF Ceiling
<1>6. ASSUME NEW m \in ByMonth(since, clock), NEW d \in Days, Month(d) = m
      PROVE  d < Ceiling
  <2>1. FirstDay(m + 1) <= Ceiling
    BY <1>6 DEF ByMonth
  <2>2. \A n \in Nat \ {0}, y \in Nat : y < ((y \div n) + 1) * n /\ ((y \div n) + 1) * n \in Nat
    OBVIOUS
  <2>3. d \in Nat
    BY FiniteDays
  <2>4. d < FirstDay(m + 1) /\ FirstDay(m + 1) \in Nat
    BY <1>1, <1>6, <2>2, <2>3 DEF FirstDay, Month
  <2>5. QED
    BY <1>5, <2>1, <2>3, <2>4
<1>7. QED
  BY <1>3, <1>4, <1>6 DEF ByMonth

\* The walk over the disk counts a record once at most, and only before the
\* tail takes over; and it counts one of a rollup file if it comes by its day.
LEMMA DiskOnce ==
  ASSUME Honest, Filed, NEW since \in Nat, NEW hourly \in BOOLEAN, NEW r \in Records
  PROVE  LET n == FromDisk(since, clock, hourly)[r]
         IN  /\ n \in 0 .. 1
             /\ n # 0 => /\ at[r] # Never /\ Day(at[r]) < Ceiling
                         /\ InFile(deltas, r) \/ InFile(raw, r)
             /\ InFile(deltas, r) /\ Day(at[r]) \in Walked(since, clock) => n = 1
<1> DEFINE months == IF hourly THEN {} ELSE ByMonth(since, clock)
<1> DEFINE days == {d \in Walked(since, clock) : Month(d) \notin months}
<1> DEFINE byMonth == [m \in months |-> monthCache[m].rows]
<1> DEFINE byDay == [d \in days |-> hourly_rows(d)]
<1> DEFINE day == Day(at[r])
<1> DEFINE read == read_files(day)[r]
<1>1. FromDisk(since, clock, hourly)[r] = SumOver(byMonth)[r] + SumOver(byDay)[r]
  BY DEF FromDisk, Add
<1>2. Shape /\ CachesHonest /\ \A d \in Days : DayHonest(d)
  BY HonestReads DEF Honest
<1>3. /\ months \in SUBSET Months /\ IsFiniteSet(months) /\ days \in SUBSET Days /\ IsFiniteSet(days)
      /\ \A m \in months : MonthCurrent(m) /\ \A d \in Days : Month(d) = m => d < Ceiling
      /\ \A d \in days : d < Ceiling
  <2>1. IsFiniteSet(Months) /\ IsFiniteSet(Days) /\ Walked(since, clock) \in SUBSET Days
        /\ (\A d \in Walked(since, clock) : d < Ceiling)
    BY <1>2, Walks, FiniteDays
  <2>2. \A m \in months :
          m \in Months /\ MonthCurrent(m) /\ \A d \in Days : Month(d) = m => d < Ceiling
    BY <1>2, Walks
  <2> HIDE DEF months
  <2>3. months \in SUBSET Months /\ days \in SUBSET Days
    BY <2>1, <2>2
  <2>4. IsFiniteSet(months) /\ IsFiniteSet(days)
    BY <2>1, <2>3, FS_Subset
  <2>5. QED
    BY <2>1, <2>2, <2>3, <2>4
<1>4. \A d \in Days : d # day => read_files(d)[r] = 0
  BY <1>2, ReadOnce
<1>5. /\ read \in 0 .. 1
      /\ read # 0 => at[r] # Never /\ (InFile(deltas, r) \/ InFile(raw, r))
      /\ InFile(deltas, r) => read = 1 /\ day \in DaysHeld(deltas)
  <2>1. read \in 0 .. 1 /\ (read = 1 => at[r] # Never /\ (InFile(deltas, r) \/ InFile(raw, r)))
    BY <1>2, ReadOnce
  <2>2. ASSUME NEW f \in deltas, r \in f.rows
        PROVE  read = 1 /\ day \in DaysHeld(deltas)
    <3>1. f.day = day
      BY <2>2 DEF Filed
    <3>2. QED
      BY <1>2, <2>2, <3>1, ReadOnce DEF DaysHeld
  <2>3. QED
    BY <2>1, <2>2 DEF InFile
<1>6. ASSUME NEW m \in months
      PROVE  /\ monthCache[m].rows \in Rows
             /\ monthCache[m].rows[r] = IF day \in MonthDays(deltas, m) THEN read ELSE 0
  <2> DEFINE parts == [d \in MonthDays(deltas, m) |-> read_files(d)]
  <2>1. monthCache[m].rows = SumOver(parts)
    BY <1>2, <1>3, <1>6 DEF CachesHonest
  <2>2. deltas \in SUBSET FileType
    BY <1>2 DEF Shape
  <2>3. MonthDays(deltas, m) \in SUBSET Days /\ IsFiniteSet(MonthDays(deltas, m))
    BY <2>2, StampOfDay
  <2>4. parts \in [MonthDays(deltas, m) -> Rows]
    BY <1>2, Reads
  <2>5. \A d \in MonthDays(deltas, m) : d # day => parts[d][r] = 0
    BY <1>4, <2>3
  <2>6. day \in MonthDays(deltas, m) => parts[day][r] = read
    OBVIOUS
  <2> HIDE DEF parts, read, day
  <2>7. SumOver(parts)[r] = IF day \in MonthDays(deltas, m) THEN parts[day][r] ELSE 0
    BY <2>3, <2>4, <2>5, SumOfOne
  <2>8. SumOver(parts) \in Rows
    BY <2>3, <2>4, SumTyped
  <2>9. QED
    BY <2>1, <2>6, <2>7, <2>8
<1>7. SumOver(byMonth)[r] = IF Month(day) \in months /\ day \in MonthDays(deltas, Month(day)) THEN read ELSE 0
  <2>1. byMonth \in [months -> Rows]
    BY <1>6
  <2>2. \A m \in months : byMonth[m][r] = IF day \in MonthDays(deltas, m) THEN read ELSE 0
    BY <1>6
  <2>3. \A m \in months : m # Month(day) => day \notin MonthDays(deltas, m)
    BY DEF MonthDays
  <2>4. \A m \in months : m # Month(day) => byMonth[m][r] = 0
    BY <2>2, <2>3
  <2> HIDE DEF byMonth, months, read, day
  <2>5. SumOver(byMonth)[r] = IF Month(day) \in months THEN byMonth[Month(day)][r] ELSE 0
    BY <1>3, <2>1, <2>4, SumOfOne
  <2>6. QED
    BY <2>2, <2>5
<1>8. SumOver(byDay)[r] = IF day \in days THEN read ELSE 0
  <2>1. \A d \in days : hourly_rows(d) = read_files(d) /\ hourly_rows(d) \in Rows
    BY <1>2, <1>3, DaysRead, Reads
  <2>2. byDay \in [days -> Rows]
    BY <2>1
  <2>3. \A d \in days : byDay[d][r] = read_files(d)[r]
    BY <2>1
  <2>4. \A d \in days : d # day => byDay[d][r] = 0
    BY <1>3, <1>4, <2>3
  <2>5. day \in days => byDay[day][r] = read
    BY <2>3
  <2> HIDE DEF byDay, days, read, day
  <2>6. SumOver(byDay)[r] = IF day \in days THEN byDay[day][r] ELSE 0
    BY <1>3, <2>2, <2>4, SumOfOne
  <2>7. QED
    BY <2>5, <2>6
<1>9. day \in days => Month(day) \notin months
  OBVIOUS
<1>10. Month(day) \in months /\ day \in MonthDays(deltas, Month(day)) => day < Ceiling
  <2>1. deltas \in SUBSET FileType
    BY <1>2 DEF Shape
  <2>2. \A d \in MonthDays(deltas, Month(day)) : d \in Days
    BY <2>1, StampOfDay
  <2>3. QED
    BY <1>3, <2>2
<1>11. day \in DaysHeld(deltas) => day \in MonthDays(deltas, Month(day))
  BY DEF MonthDays
<1>12. day \in Walked(since, clock) /\ day \notin days => Month(day) \in months
  OBVIOUS
<1>13. day \in days => day < Ceiling
  BY <1>3
<1>14. day = Day(at[r])
  OBVIOUS
<1> HIDE DEF months, days, byMonth, byDay, day, read
<1>15. FromDisk(since, clock, hourly)[r] \in 0 .. 1
  BY <1>1, <1>5, <1>7, <1>8, <1>9
<1>16. FromDisk(since, clock, hourly)[r] # 0 =>
         /\ at[r] # Never /\ day < Ceiling
         /\ InFile(deltas, r) \/ InFile(raw, r)
  BY <1>1, <1>5, <1>7, <1>8, <1>10, <1>13
<1>17. InFile(deltas, r) /\ day \in Walked(since, clock) => FromDisk(since, clock, hourly)[r] = 1
  BY <1>1, <1>5, <1>7, <1>8, <1>9, <1>11, <1>12
<1>18. QED
  BY <1>14, <1>15, <1>16, <1>17

\* Whatever is counted, it is by the tail, the disk and the store together.
LEMMA Counted ==
  ASSUME Honest, Whereabouts, NEW from \in Hours, NEW hourly \in BOOLEAN, NEW r \in Records
  PROVE  LET since == Max({from, Earliest})
             total == FromTail(since)[r] + (FromDisk(since, clock, hourly)[r] + fleet[r])
             n     == rollups_for_window(from, clock, hourly)[r]
         IN  /\ n = total \/ n = 0
             /\ total \in Nat
             /\ FromTail(since)[r] \in 0 .. 1
             /\ FromTail(since)[r] # 0 => tail.seeded /\ at[r] >= TailFloor /\ tail.rows[r] # 0
             /\ at[r] # Never /\ since <= at[r] => n = total
             /\ tail.seeded /\ at[r] >= TailFloor /\ since <= at[r]
                  => FromTail(since)[r] = tail.rows[r]
<1> DEFINE since == Max({from, Earliest})
<1> DEFINE rows == Add(FromTail(since), Add(FromDisk(since, clock, hourly), fleet))
<1> DEFINE begin == IF hourly THEN at[r] ELSE Day(at[r]) * HoursPerDay
<1> DEFINE width == IF hourly THEN 1 ELSE HoursPerDay
<1> DEFINE total == FromTail(since)[r] + (FromDisk(since, clock, hourly)[r] + fleet[r])
<1> DEFINE n == rollups_for_window(from, clock, hourly)[r]
<1>1. Shape /\ Flowing /\ Filed
  BY DEF Honest, Whereabouts
<1>2. since \in Nat /\ TailFloor \in Nat /\ Min({clock, clock}) = clock /\ clock \in Nat
  BY <1>1, Begins, Reads
<1>3. n = IF since <= clock /\ begin <= clock /\ begin + width > since THEN rows[r] ELSE 0
  BY <1>2 DEF rollups_for_window
<1>4. rows[r] = total
  BY DEF Add
<1>5. FromDisk(since, clock, hourly)[r] \in 0 .. 1
  BY <1>1, <1>2, DiskOnce
<1>6. fleet[r] \in Nat
  BY <1>1 DEF Shape, Rows
<1>7. FromTail(since)[r] = IF tail.seeded /\ at[r] >= Max({TailFloor, since - 1})
                           THEN tail.rows[r] ELSE 0
  BY DEF FromTail
<1>8. tail.rows[r] \in 0 .. 1 /\ at[r] \in Int /\ at[r] <= clock
  <2>1. tail.rows[r] \in Nat /\ tail.rows[r] <= 1
    BY <1>1 DEF Shape, Rows, Flowing
  <2>2. at[r] \in Hours \cup {Never} /\ at[r] <= clock
    BY <1>1 DEF Shape
  <2>3. at[r] \in Int
    BY <2>2, FiniteDays DEF Never
  <2>4. QED
    BY <2>1, <2>2, <2>3
<1> HIDE DEF since, rows, begin, width, total, n
<1>9. since - 1 \in Int /\ TailFloor \in Int
  BY <1>2
<1>10. Max({TailFloor, since - 1}) \in {TailFloor, since - 1} /\ Max({TailFloor, since - 1}) >= TailFloor
  BY <1>9, OfTwo
<1>11. FromTail(since)[r] \in 0 .. 1
       /\ (FromTail(since)[r] # 0 => tail.seeded /\ at[r] >= TailFloor /\ tail.rows[r] # 0)
  BY <1>7, <1>8, <1>9, <1>10
<1>12. tail.seeded /\ at[r] >= TailFloor /\ since <= at[r] => FromTail(since)[r] = tail.rows[r]
  BY <1>2, <1>7, <1>8, <1>9, <1>10
<1>13. total \in Nat
  BY <1>5, <1>6, <1>11 DEF total
<1>14. ASSUME at[r] # Never, since <= at[r]
       PROVE  n = total
  <2>1. at[r] \in Nat
    BY <1>1, <1>14, Stamped
  <2>2. HoursPerDay \in Nat /\ Day(at[r]) \in Nat /\ Day(at[r]) * HoursPerDay <= at[r]
        /\ at[r] < (Day(at[r]) + 1) * HoursPerDay
    BY <2>1, DayOf, Constants
  <2>3. \A x, y \in Nat : (x + 1) * y = x * y + y /\ x * y \in Nat
    OBVIOUS
  <2>4. (Day(at[r]) + 1) * HoursPerDay = Day(at[r]) * HoursPerDay + HoursPerDay
        /\ Day(at[r]) * HoursPerDay \in Nat
    BY <2>2, <2>3
  <2>5. begin <= at[r] /\ begin + width > at[r] /\ begin \in Nat /\ width \in Nat
    BY <2>1, <2>2, <2>4 DEF begin, width
  <2>6. since <= clock /\ begin <= clock /\ begin + width > since
    BY <1>2, <1>8, <1>14, <2>5
  <2>7. QED
    BY <1>3, <1>4, <2>6
<1>15. n = total \/ n = 0
  BY <1>3, <1>4
<1>16. QED
  BY <1>11, <1>12, <1>13, <1>14, <1>15 DEF since, total, n

\* A record that the store holds once is counted once.
LEMMA OnceCounted ==
  ASSUME Honest, Whereabouts, NEW from \in Hours, NEW hourly \in BOOLEAN, NEW r \in Records,
         Cardinality(Objects(r)) <= 1
  PROVE  rollups_for_window(from, clock, hourly)[r] <= 1
<1> DEFINE since == Max({from, Earliest})
<1> DEFINE inTail == FromTail(since)[r]
<1> DEFINE onDisk == FromDisk(since, clock, hourly)[r]
<1> DEFINE n == rollups_for_window(from, clock, hourly)[r]
<1>1. Shape /\ Filed /\ Seen
  BY DEF Honest, Whereabouts
<1>2. since \in Nat /\ TailFloor \in Nat
  BY <1>1, Begins
<1>3. inTail \in 0 .. 1 /\ (inTail # 0 => tail.seeded /\ at[r] >= TailFloor /\ tail.rows[r] # 0)
      /\ (n = inTail + (onDisk + fleet[r]) \/ n = 0)
  BY Counted
<1>4. onDisk \in 0 .. 1
      /\ (onDisk # 0 => at[r] # Never /\ Day(at[r]) < Ceiling /\ (InFile(deltas, r) \/ InFile(raw, r)))
  BY <1>1, <1>2, DiskOnce
<1>5. fleet[r] \in Nat /\ fleet[r] <= 1 /\ (fleet[r] # 0 => Gone(r))
  <2>1. Objects(r) \in SUBSET blobs /\ IsFiniteSet(blobs)
    BY <1>1 DEF Objects, Shape
  <2>2. Cardinality(Objects(r)) \in Nat
    BY <2>1, FS_Subset, FS_CardinalityType
  <2>3. fleet[r] \in Nat /\ fleet[r] <= Cardinality(Objects(r)) /\ (fleet[r] # 0 => Gone(r))
    BY <1>1 DEF Seen, Shape, Rows
  <2>4. QED
    BY <2>2, <2>3
<1> HIDE DEF since, inTail, onDisk, n
<1>6. ~(fleet[r] # 0 /\ onDisk # 0)
  BY <1>4, <1>5 DEF Gone
<1>7. ~(fleet[r] # 0 /\ inTail # 0)
  <2>1. at[r] \in Int
    BY <1>1, FiniteDays DEF Shape, Never
  <2>2. QED
    BY <1>2, <1>3, <1>5, <2>1 DEF Gone
<1>8. ~(inTail # 0 /\ onDisk # 0)
  <2> SUFFICES ASSUME inTail # 0, onDisk # 0
               PROVE  FALSE
    OBVIOUS
  <2>1. at[r] \in Nat /\ TailFloor <= at[r] /\ Day(at[r]) < Ceiling /\ Ceiling = Day(TailFloor)
    BY <1>1, <1>3, <1>4, Stamped DEF Ceiling
  <2>2. Day(TailFloor) <= Day(at[r]) /\ Day(TailFloor) \in Nat /\ Day(at[r]) \in Nat
    BY <1>2, <2>1, DayOf
  <2>3. QED
    BY <2>1, <2>2
<1>9. n <= 1
  BY <1>3, <1>4, <1>5, <1>6, <1>7, <1>8
<1>10. QED
  BY <1>9 DEF n

Placed == Honest /\ Whereabouts

LEMMA PlacedKept == Spec => []Placed
<1>1. Init => Placed
  BY HonestInit, WhereInit DEF Placed
<1>2. Placed /\ [Next]_vars => Placed'
  BY HonestStep, WhereStep DEF Placed
<1>3. QED
  BY <1>1, <1>2, PTL DEF Spec

\* No report on a window that ends now counts a record twice, if the store holds
\* it in one object: what the tail has, the walk over the disk stops before; what
\* a month's cache has, its days are not read for; and what an object has, that
\* is taken for another's, has left the disk.
THEOREM Once == Spec => []CountedOnce
<1>1. Placed => CountedOnce
  <2> SUFFICES ASSUME Placed, NEW from \in FirstHour .. clock, NEW hourly \in BOOLEAN, NEW r \in Records,
                      Cardinality(Objects(r)) <= 1
               PROVE  rollups_for_window(from, clock, hourly)[r] <= 1
    BY DEF CountedOnce
  <2>1. clock \in Hours /\ FirstHour \in Nat /\ LastHour \in Nat
    BY Constants DEF Placed, Honest, Shape
  <2>2. from \in Hours
    BY <2>1 DEF Hours
  <2>3. QED
    BY <2>2, OnceCounted DEF Placed
<1>2. QED
  BY <1>1, PlacedKept, PTL

\* A record of a rollup file is in the tail, if its day is after the one in which
\* the tail begins.
TailHolds ==
  tail.seeded =>
    \A f \in deltas : \A r \in f.rows : Day(at[r]) > Day(TailFloor) => tail.rows[r] >= 1

LEMMA HoldsStep ==
  ASSUME TailDays <= 2, Placed, TailHolds, [Next]_vars
  PROVE  TailHolds'
<1>1. /\ Shape /\ Shape' /\ Named /\ Filed /\ Flowing /\ \A d \in Days : DayHonest(d)
      /\ Whereabouts
  BY ShapeStep DEF Placed, Honest, Whereabouts
<1>2. /\ \A f \in deltas : f.rows \subseteq Records
      /\ \A f \in deltas : \A r \in f.rows : at[r] # Never /\ Day(at[r]) = f.day
  BY <1>1 DEF Shape, FileType, Filed
<1>3. /\ TailFloor \in Nat /\ Day(TailFloor) = Today - TailDays /\ Day(TailFloor) \in Nat
      /\ Today \in Nat /\ TailDays \in Nat \ {0} /\ clock \in Nat
  <2>1. clock \in Hours /\ clock \in Nat /\ Today \in Nat /\ TailDays \in Nat \ {0}
    BY <1>1, Reads, Constants DEF Shape
  <2>2. TailFloor \in Nat /\ Day(TailFloor) = Today - TailDays
    BY <1>1, <2>1, Begins
  <2>3. QED
    BY <2>1, <2>2, DayOf
<1>4. \A r \in Records : tail.rows[r] \in Nat
  BY <1>1 DEF Shape, Rows
<1>5. CASE Tick
  <2>1. UNCHANGED <<at, tail, deltas>> /\ clock' = clock + 1
    BY <1>5 DEF Tick, disk
  <2>2. TailFloor' = TailFloor + 1
    BY <1>3, <2>1, Constants DEF TailFloor
  <2>3. Day(TailFloor) <= Day(TailFloor + 1) /\ Day(TailFloor + 1) \in Nat
    BY <1>3, DayOf
  <2>4. \A f \in deltas : \A r \in f.rows : Day(at[r]) \in Nat
    BY <1>1, <1>2, Stamped, DayOf
  <2>5. Day(TailFloor)' = Day(TailFloor + 1)
    BY <2>2 DEF Day
  <2>6. \A r : Day(at[r])' = Day(at[r])
    BY <2>1 DEF Day
  <2>7. QED
    BY <1>3, <2>1, <2>3, <2>4, <2>5, <2>6 DEF TailHolds
<1>6. CASE seed_recent_rollups
  <2>1. UNCHANGED <<at, clock, deltas>>
        /\ tail'.rows = Add(tail.rows, Add(hourly_rows(Today), hourly_rows(Today - 1)))
    BY <1>6 DEF seed_recent_rollups, disk
  <2>2. hourly_rows(Today) = read_files(Today) /\ hourly_rows(Today - 1) = read_files(Today - 1)
    BY <1>1, DaysRead, Reads
  <2>3. ASSUME NEW f \in deltas, NEW r \in f.rows, Day(at[r]) > Day(TailFloor)
        PROVE  tail'.rows[r] >= 1
    <3>1. r \in Records /\ at[r] \in Nat /\ Day(at[r]) \in Nat /\ Day(at[r]) = f.day
      BY <1>1, <1>2, <2>3, Stamped, DayOf
    <3>2. at[r] <= clock
      BY <1>1, <3>1 DEF Shape
    <3>3. Day(at[r]) <= Today
      BY <1>3, <3>1, <3>2, DayOf DEF Today
    <3>4. Day(at[r]) = Today \/ Day(at[r]) = Today - 1
      BY <1>3, <2>3, <3>1, <3>3
    <3>5. read_files(f.day)[r] = 1
      BY <1>1, <3>1, ReadOnce
    <3>6. read_files(Today)[r] \in Nat /\ read_files(Today - 1)[r] \in Nat
      <4>1. read_files(Today)[r] \in 0 .. 1 /\ read_files(Today - 1)[r] \in 0 .. 1
        BY <1>1, <3>1, ReadOnce
      <4>2. QED
        BY <4>1
    <3>7. tail'.rows[r] = tail.rows[r] + (read_files(Today)[r] + read_files(Today - 1)[r])
      BY <2>1, <2>2, <3>1 DEF Add
    <3>8. read_files(Today)[r] >= 1 \/ read_files(Today - 1)[r] >= 1
      BY <3>1, <3>4, <3>5
    <3>9. tail.rows[r] \in Nat
      BY <1>4, <3>1
    <3>10. QED
      BY <3>6, <3>7, <3>8, <3>9
  <2>4. QED
    BY <2>1, <2>3 DEF TailHolds, TailFloor, Day
<1>7. CASE Take
  <2>1. UNCHANGED <<at, clock, deltas>> /\ tail' = [tail EXCEPT !.rows = Add(@, Fold(channel))]
    BY <1>7 DEF Take
  <2>2. tail'.seeded = tail.seeded
        /\ \A r \in Records : tail'.rows[r] = tail.rows[r] + IF r \in channel THEN 1 ELSE 0
    BY <1>1, <2>1 DEF Shape, Add, Fold
  <2>3. \A r \in Records : tail'.rows[r] >= tail.rows[r] /\ tail'.rows[r] \in Nat
    BY <1>4, <2>2
  <2>4. QED
    BY <1>2, <1>4, <2>1, <2>2, <2>3 DEF TailHolds, TailFloor, Day
<1>8. CASE CreateDelta
  <2>1. UNCHANGED <<at, clock, tail>> /\ \A f \in deltas' : f \in deltas \/ f.rows = {}
    BY <1>8 DEF CreateDelta, Write, File
  <2>2. QED
    BY <2>1 DEF TailHolds, TailFloor, Day
<1>9. CASE CloseDelta
  <2>1. UNCHANGED <<at, clock, tail>>
        /\ \A f \in deltas' : f \in deltas \/ f.rows = In(flusher.batch, Min(flusher.days))
    BY <1>9 DEF CloseDelta, Write, File
  <2>2. \A r \in flusher.batch : tail.rows[r] = 1
    BY <1>1 DEF Flowing
  <2>3. \A f \in deltas' : f \in deltas \/ \A r \in f.rows : tail.rows[r] = 1
    BY <2>1, <2>2 DEF In
  <2>4. QED
    BY <2>1, <2>3 DEF TailHolds, TailFloor, Day
<1>10. CASE prune
  <2>1. UNCHANGED <<at, clock, tail>> /\ deltas' \subseteq deltas
    BY <1>10 DEF prune
  <2>2. QED
    BY <2>1 DEF TailHolds, TailFloor, Day
<1>11. CASE refresh
  <2>1. UNCHANGED <<at, clock, deltas>> /\ tail'.seeded = tail.seeded
        /\ \A r \in Records : tail'.rows[r] = IF at[r] >= TailFloor THEN tail.rows[r] ELSE 0
    BY <1>1, <1>11 DEF refresh, Shape, TailFloor
  <2>2. ASSUME NEW f \in deltas, NEW r \in f.rows, Day(at[r]) > Day(TailFloor)
        PROVE  tail'.rows[r] = tail.rows[r]
    <3>1. r \in Records /\ at[r] \in Nat /\ Day(at[r]) \in Nat
      BY <1>1, <1>2, Stamped, DayOf
    <3>2. at[r] <= TailFloor => Day(at[r]) <= Day(TailFloor)
      BY <1>3, <3>1, DayOf
    <3>3. QED
      BY <1>3, <2>1, <2>2, <3>1, <3>2
  <2>3. QED
    BY <2>1, <2>2 DEF TailHolds, TailFloor, Day
<1>12. CASE Restart \/ Replace
  <2>1. ~tail'.seeded
    BY <1>12 DEF Restart, Replace, Start
  <2>2. QED
    BY <2>1 DEF TailHolds
<1>13. ASSUME NEW r \in Records, record(r) \/ PeerShips(r)
       PROVE  TailHolds'
  <2>1. UNCHANGED <<clock, tail, deltas>> /\ at' = [at EXCEPT ![r] = clock] /\ at[r] = Never
    BY <1>13 DEF record, PeerShips, disk
  <2>2. \A f \in deltas : \A q \in f.rows : at'[q] = at[q]
    BY <1>1, <1>2, <2>1 DEF Shape
  <2>3. QED
    BY <2>1, <2>2 DEF TailHolds, TailFloor, Day
<1>14. CASE DeltaFails \/ ship_partitions \/ fleet_rollups \/ UNCHANGED vars
  <2>1. UNCHANGED <<at, clock, tail, deltas>>
    BY <1>14 DEF DeltaFails, ship_partitions, Put, fleet_rollups, vars, disk
  <2>2. QED
    BY <2>1 DEF TailHolds, TailFloor, Day
<1>15. QED
  BY <1>5, <1>6, <1>7, <1>8, <1>9, <1>10, <1>11, <1>12, <1>13, <1>14 DEF Next, flush

\* What is in a rollup file is counted: before the tail takes over by the walk
\* over the disk, and from the day after by the tail.
LEMMA KeptIsCounted ==
  ASSUME Placed, TailHolds, NEW hourly \in BOOLEAN, NEW r \in Kept, Day(at[r]) # Day(TailFloor)
  PROVE  rollups_for_window(FirstHour, clock, hourly)[r] >= 1
<1> DEFINE since == Max({FirstHour, Earliest})
<1> DEFINE inTail == FromTail(since)[r]
<1> DEFINE onDisk == FromDisk(since, clock, hourly)[r]
<1> DEFINE n == rollups_for_window(FirstHour, clock, hourly)[r]
<1>1. Honest /\ Whereabouts /\ Shape /\ Filed /\ FirstHour \in Hours
  <2>1. FirstHour \in Nat /\ LastHour \in Nat /\ FirstHour <= LastHour
    BY Constants
  <2>2. FirstHour \in Hours
    BY <2>1 DEF Hours
  <2>3. QED
    BY <2>2 DEF Placed, Honest, Whereabouts
<1>2. PICK f \in deltas : r \in f.rows
  BY DEF Kept
<1>3. r \in Records /\ at[r] # Never /\ Day(at[r]) = f.day /\ InFile(deltas, r)
  BY <1>1, <1>2 DEF Shape, FileType, Filed, InFile
<1>4. at[r] \in Hours /\ at[r] \in Nat /\ at[r] <= clock /\ Day(at[r]) \in Nat
      /\ Day(at[r]) * HoursPerDay <= at[r] /\ clock \in Nat /\ HoursPerDay \in Nat
  BY <1>1, <1>3, Stamped, DayOf, Reads, Constants DEF Shape
<1>5. since \in Nat /\ since <= at[r] /\ TailFloor \in Nat
  <2>1. FirstHour <= at[r] /\ FirstHour \in Nat
    BY <1>4, Constants DEF Hours
  <2>2. Earliest \in Nat /\ Earliest <= f.day * HoursPerDay /\ since \in Nat /\ TailFloor \in Nat
        /\ \A h \in Nat : FirstHour <= h /\ Earliest <= h => since <= h
    BY <1>1, Begins
  <2>3. f.day * HoursPerDay \in Nat
    BY <1>3, <1>4
  <2>4. Earliest <= at[r]
    BY <1>3, <1>4, <2>2, <2>3
  <2>5. QED
    BY <1>4, <2>1, <2>2, <2>4
<1>6. /\ inTail + (onDisk + fleet[r]) = n
      /\ inTail \in 0 .. 1
      /\ tail.seeded /\ at[r] >= TailFloor => inTail = tail.rows[r]
  BY <1>1, <1>3, <1>5, Counted
<1>7. onDisk \in 0 .. 1 /\ (Day(at[r]) \in Walked(since, clock) => onDisk = 1)
  BY <1>1, <1>3, <1>5, DiskOnce
<1>8. fleet[r] \in Nat
  BY <1>1, <1>3 DEF Shape, Rows
<1>9. Day(since) <= Day(at[r]) /\ Day(at[r]) <= Day(clock) /\ Day(since) \in Nat /\ Day(clock) \in Nat
      /\ Day(TailFloor) \in Nat /\ Day(at[r]) <= Day(LastHour) /\ Day(LastHour) \in Nat
      /\ (at[r] <= TailFloor => Day(at[r]) <= Day(TailFloor))
  <2>1. since \in Nat /\ since <= at[r] /\ TailFloor \in Nat
    BY <1>5
  <2>2. LastHour \in Nat /\ at[r] <= LastHour
    BY <1>4, Constants DEF Hours
  <2> HIDE DEF since
  <2>3. QED
    BY <1>4, <2>1, <2>2, DayOf
<1> HIDE DEF since, inTail, onDisk, n
<1>10. CASE Day(at[r]) < Ceiling
  <2>1. Day(at[r]) \in Walked(since, clock)
    BY <1>4, <1>9, <1>10 DEF Walked
  <2>2. QED
    BY <1>6, <1>7, <1>8, <2>1 DEF n
<1>11. CASE ~(Day(at[r]) < Ceiling)
  <2>1. tail.seeded /\ Day(at[r]) > Day(TailFloor)
    BY <1>4, <1>9, <1>11 DEF Ceiling
  <2>2. at[r] >= TailFloor
    BY <1>4, <1>5, <1>9, <2>1
  <2>3. tail.rows[r] >= 1
    BY <1>2, <2>1 DEF TailHolds
  <2>4. QED
    BY <1>6, <1>7, <1>8, <2>1, <2>2, <2>3 DEF n
<1>12. QED
  BY <1>10, <1>11

\* A report on everything has each record that is on the local disk, but for the
\* day in which the tail begins.  A tail that reached back further than the two
\* days it is seeded with would not do.
THEOREM NoneDropped == TailDays <= 2 => (Spec => []KeptCounted)
<1> SUFFICES ASSUME TailDays <= 2
             PROVE  Spec => []KeptCounted
  OBVIOUS
<1>1. Init => TailHolds
  BY DEF Init, TailHolds
<1>2. Placed /\ TailHolds /\ [Next]_vars => TailHolds'
  BY HoldsStep
<1>3. Placed /\ TailHolds => KeptCounted
  BY KeptIsCounted DEF KeptCounted
<1>4. QED
  BY <1>1, <1>2, <1>3, PlacedKept, PTL DEF Spec
=============================================================================
