--------------------------- MODULE WxUpdaterProofs ---------------------------
(***************************************************************************)
(* For every flash, its slots and sectors, and for all images: what        *)
(* chameleon_getcoreinfo finds is there, wherever flashing was cut off,    *)
(* first for the command line programs, then with the updater with a GUI   *)
(* among them; programs keep to the slots they were asked to change, and   *)
(* the updaters write a core for the Chameleon that is plugged in, as far  *)
(* as GetFlashID has answered.                                             *)
(***************************************************************************)
EXTENDS WxUpdater, TLAPS

\* A slot whose header leads to an info block holds that core up to there.
Good(f, t) ==
    \A i, j \in Images :
        f[Base(t)] = Of(i, 0) /\ RomAt(i) < SlotSize
            /\ f[Base(t) + InfoAt(i)] = Of(j, InfoAt(j)) /\ InfoAt(j) < SlotSize =>
        \A n \in 0 .. InfoAt(i) : f[Base(t) + n] = Of(i, n)

\* The same for data that begins where a slot begins.
GoodData(data) ==
    \A m \in Slot, i \in Images :
        Base(m) \in DOMAIN data /\ data[Base(m)] = Of(i, 0) /\ RomAt(i) < SlotSize =>
            /\ Base(m) + InfoAt(i) \in DOMAIN data
            /\ \A j \in Images :
                   data[Base(m) + InfoAt(i)] = Of(j, InfoAt(j)) /\ InfoAt(j) < SlotSize =>
                   \A n \in 0 .. InfoAt(i) : data[Base(m) + n] = Of(i, n)

\* What has been erased, and then written, is known as long as the handle works;
\* the order is for a slot.
JobInv ==
    job # Idle =>
        /\ \E s \in Slot : job.base = Base(s)
        /\ \A n \in DOMAIN job.data : job.base + n \in Addr
        /\ GoodData(job.data)
        /\ job.act = "erase" /\ link =>
               \A n \in 0 .. job.pos - 1 : job.base + n \in Addr => flash[job.base + n] = Blank
        /\ job.act = "write" /\ link =>
               \A n \in DOMAIN job.data :
                   flash[job.base + n] = IF n < job.pos THEN job.data[n] ELSE Blank

AllGood(f) == \A t \in Slot : Good(f, t)
FileGood == file # NoFile => GoodData(file)

LinkInv == (link => plugged) /\ (prog = "none" => job = Idle)

FlashIInv == FlashTypeOK /\ AllGood(flash) /\ JobInv /\ FileGood /\ LinkInv

-----------------------------------------------------------------------------
(***************************************************************************)
(* Arithmetic of slots.                                                    *)
(***************************************************************************)
LEMMA Monotone ==
    ASSUME NEW k \in Nat, NEW s \in Nat, NEW t \in Nat, s < t
    PROVE  s * k + k <= t * k
<1> DEFINE d == t - (s + 1)
<1>1. d \in Nat /\ t = s + 1 + d
    OBVIOUS
<1>2. t * k = s * k + k + d * k
    BY <1>1
<1>3. d * k >= 0
    BY <1>1
<1>4. s * k \in Nat /\ t * k \in Nat /\ d * k \in Nat
    BY <1>1
<1> QED
    BY <1>2, <1>3, <1>4

LEMMA SlotBase ==
    /\ FlashSize \in Nat
    /\ \A t \in Slot : Base(t) \in Nat /\ Base(t) + SlotSize <= FlashSize
    /\ Base(0) = 0 /\ 0 \in Slot
<1>1. ASSUME NEW t \in Slot PROVE Base(t) \in Nat /\ Base(t) + SlotSize <= FlashSize
    <2>1. t \in Nat /\ Slots \in Nat /\ t < Slots /\ SlotSize \in Nat
        BY FlashAssumption DEF Slot
    <2> QED
        BY <2>1, Monotone DEF Base, FlashSize
<1> QED
    BY <1>1, FlashAssumption DEF Base, FlashSize, Slot

LEMMA SlotOrder ==
    ASSUME NEW s \in Slot, NEW t \in Slot
    PROVE  /\ s < t => Base(s) + SlotSize <= Base(t)
           /\ s # t => Base(s) + SlotSize <= Base(t) \/ Base(t) + SlotSize <= Base(s)
<1>1. s \in Nat /\ t \in Nat /\ SlotSize \in Nat
    BY FlashAssumption DEF Slot
<1>2. s < t => Base(s) + SlotSize <= Base(t)
    BY <1>1, Monotone DEF Base
<1>3. t < s => Base(t) + SlotSize <= Base(s)
    BY <1>1, Monotone DEF Base
<1> QED
    BY <1>1, <1>2, <1>3

\* A slot behind the one at which data begins, seen from the data.
LEMMA SlotShift ==
    ASSUME NEW s \in Slot, NEW t \in Slot, Base(s) <= Base(t)
    PROVE  t - s \in Slot /\ Base(t) = Base(s) + Base(t - s)
<1>1. s \in Nat /\ t \in Nat /\ SlotSize \in Nat /\ SlotSize > 0 /\ t < Slots /\ Slots \in Nat
    BY FlashAssumption DEF Slot
<1>2. Base(s) \in Nat /\ Base(t) \in Nat
    BY SlotBase
<1>3. s <= t
    BY <1>1, <1>2, SlotOrder
<1>4. t - s \in Slot
    BY <1>1, <1>3 DEF Slot
<1>5. (t - s) * SlotSize = t * SlotSize - s * SlotSize
    BY <1>1
<1> QED
    BY <1>2, <1>4, <1>5, SlotBase DEF Base

LEMMA ImageSize ==
    ASSUME NEW i \in Images
    PROVE  /\ InfoAt(i) \in Nat /\ InfoAt(i) > 0
           /\ RomAt(i) = InfoAt(i) + 1 /\ RomAt(i) <= Total(i) /\ Total(i) \in Nat
BY FlashAssumption DEF InfoAt, RomAt, Total, Header, Info

LEMMA Padded ==
    ASSUME NEW n \in Nat, n > 0
    PROVE  PadUp(n) \in Nat /\ n <= PadUp(n)
<1>1. Sector \in Nat /\ Sector > 0
    BY FlashAssumption
<1> DEFINE x == n + Sector - 1
<1>2. x \in Nat
    BY <1>1
<1>3. x \div Sector \in Nat /\ x % Sector \in 0 .. Sector - 1
       /\ x = Sector * (x \div Sector) + (x % Sector)
    BY <1>1, <1>2
<1> HIDE DEF x
<1>4. (x \div Sector) * Sector = Sector * (x \div Sector) /\ Sector * (x \div Sector) \in Nat
    BY <1>1, <1>3
<1>5. PadUp(n) = Sector * (x \div Sector)
    BY <1>4 DEF PadUp, x
<1> QED
    BY <1>1, <1>3, <1>4, <1>5 DEF x

-----------------------------------------------------------------------------
(***************************************************************************)
(* Images, and the flash they are written to.                              *)
(***************************************************************************)
LEMMA CellsDiffer ==
    ASSUME NEW i \in Images, NEW n \in 0 .. FlashSize
    PROVE  /\ Of(i, n) \in ImageCells /\ Of(i, n) \in Cells
           /\ Of(i, n) # Blank /\ Of(i, n) # Junk
           /\ \A j, m : Of(i, n) = Of(j, m) => i = j /\ n = m
BY ValueAssumption DEF Of, ImageCells, Cells

LEMMA BlankCell == Blank \in Cells /\ Junk \in Cells
BY DEF Cells

\* The slots of a good flash show what is there.
LEMMA GoodShowsTruth == AllGood(flash) => StatusIsTrue
<1> SUFFICES ASSUME AllGood(flash), NEW s \in Slot, NEW k \in Images, Finds(flash, s, k),
                    NEW n \in 0 .. InfoAt(k)
             PROVE  flash[Base(s) + n] = Of(k, n)
    BY DEF StatusIsTrue
<1>1. PICK i \in Images, j \in Images :
          /\ flash[Base(s)] = Of(i, 0) /\ RomAt(i) < SlotSize
          /\ flash[Base(s) + InfoAt(i)] = Of(j, InfoAt(j)) /\ InfoAt(j) < SlotSize
          /\ flash[Base(s) + InfoAt(j)] = Of(k, InfoAt(k)) /\ RomAt(k) < SlotSize
    BY DEF Finds
<1>2. \A m \in 0 .. InfoAt(i) : flash[Base(s) + m] = Of(i, m)
    BY <1>1 DEF AllGood, Good
<1>3. flash[Base(s) + InfoAt(i)] = Of(i, InfoAt(i))
    BY <1>2, ImageSize
<1>4. j = i
    BY <1>1, <1>3 DEF Of
<1>5. k = i
    BY <1>1, <1>3, <1>4 DEF Of
<1> QED
    BY <1>2, <1>5

LEMMA BlankIsGood ==
    ASSUME NEW f, NEW t \in Slot, f[Base(t)] = Blank \/ f[Base(t)] = Junk
    PROVE  Good(f, t)
BY CellsDiffer, SlotBase DEF Good

\* Only the cells of a slot decide whether it is good.
LEMMA GoodIsLocal ==
    ASSUME NEW f, NEW g, NEW t \in Slot, Good(f, t),
           \A a \in Base(t) .. Base(t) + SlotSize - 1 : g[a] = f[a]
    PROVE  Good(g, t)
<1> SUFFICES ASSUME NEW i \in Images, NEW j \in Images,
                    g[Base(t)] = Of(i, 0), RomAt(i) < SlotSize,
                    g[Base(t) + InfoAt(i)] = Of(j, InfoAt(j)), InfoAt(j) < SlotSize,
                    NEW n \in 0 .. InfoAt(i)
             PROVE  g[Base(t) + n] = Of(i, n)
    BY DEF Good
<1>1. Base(t) \in Nat /\ InfoAt(i) \in Nat /\ InfoAt(i) < SlotSize /\ SlotSize \in Nat
    BY SlotBase, ImageSize, FlashAssumption
<1>2. \A m \in 0 .. InfoAt(i) : g[Base(t) + m] = f[Base(t) + m]
    BY <1>1
<1>3. f[Base(t)] = Of(i, 0) /\ f[Base(t) + InfoAt(i)] = Of(j, InfoAt(j))
    BY <1>1, <1>2
<1>4. f[Base(t) + n] = Of(i, n)
    BY <1>3 DEF Good
<1> QED
    BY <1>2, <1>4

LEMMA ImageIsGood ==
    ASSUME NEW i \in Images
    PROVE  GoodData(SlotImage(i))
<1> DEFINE d == SlotImage(i)
<1>0. /\ PadUp(Total(i)) \in Nat /\ Total(i) \in Nat /\ Total(i) > 0 /\ Total(i) <= PadUp(Total(i))
      /\ InfoAt(i) \in Nat /\ InfoAt(i) < Total(i)
    BY ImageSize, Padded
<1>1. /\ DOMAIN d = 0 .. PadUp(Total(i)) - 1
      /\ \A n \in DOMAIN d : d[n] = IF n < Total(i) THEN Of(i, n)
                                    ELSE IF n < SlotSize THEN Blank ELSE Junk
    BY DEF SlotImage
<1> SUFFICES ASSUME NEW m \in Slot, NEW j \in Images,
                    Base(m) \in DOMAIN d, d[Base(m)] = Of(j, 0), RomAt(j) < SlotSize
             PROVE  /\ Base(m) + InfoAt(j) \in DOMAIN d
                    /\ \A k \in Images :
                           d[Base(m) + InfoAt(j)] = Of(k, InfoAt(k)) /\ InfoAt(k) < SlotSize =>
                           \A n \in 0 .. InfoAt(j) : d[Base(m) + n] = Of(j, n)
    BY DEF GoodData
<1> HIDE DEF d
<1>2. d[Base(m)] # Blank /\ d[Base(m)] # Junk
    BY CellsDiffer, SlotBase
<1>3. d[Base(m)] = Of(i, Base(m))
    BY <1>1, <1>2
<1>4. j = i /\ Base(m) = 0
    BY <1>3 DEF Of
<1> QED
    BY <1>0, <1>1, <1>4

LEMMA ErasureIsGood == GoodData([n \in 0 .. SlotSize - 1 |-> Blank])
BY CellsDiffer, SlotBase DEF GoodData

LEMMA FactoryIsGood ==
    ASSUME NEW v, NEW f \in Factory(v)
    PROVE  f \in [Addr -> Cells] /\ AllGood(f)
<1>1. CASE f = [a \in Addr |-> Blank]
    <2>1. f \in [Addr -> Cells]
        BY <1>1, BlankCell
    <2>2. \A t \in Slot : f[Base(t)] = Blank
        BY <1>1, SlotBase, FlashAssumption DEF Addr
    <2> QED
        BY <2>1, <2>2, BlankIsGood DEF AllGood
<1>2. CASE f # [a \in Addr |-> Blank]
    <2>1. PICK i \in Images : f = Filled(i) /\ Total(i) <= SlotSize
        BY <1>2 DEF Factory
    <2>2. SlotSize \in Nat /\ SlotSize > 0 /\ FlashSize \in Nat
        BY FlashAssumption, SlotBase
    <2>3. \A a \in Addr : a % SlotSize \in 0 .. SlotSize - 1 /\ a \in Nat
        BY <2>2 DEF Addr
    <2>4. SlotSize <= FlashSize
        BY SlotBase, <2>2
    <2>5. f \in [Addr -> Cells]
        BY <2>1, <2>2, <2>3, <2>4, CellsDiffer, BlankCell DEF Filled
    <2>6. ASSUME NEW t \in Slot PROVE Good(f, t)
        <3>1. ASSUME NEW n \in 0 .. SlotSize - 1
              PROVE  Base(t) + n \in Addr /\ (Base(t) + n) % SlotSize = n
            <4>1. t \in Nat /\ n \in Nat /\ Base(t) \in Nat
                BY <2>2, SlotBase DEF Slot
            <4>2. Base(t) + n \in Addr
                BY <4>1, <2>2, SlotBase DEF Addr
            <4>3. (t * SlotSize + n) % SlotSize = n
                BY <4>1, <2>2
            <4> QED
                BY <4>2, <4>3 DEF Base
        <3>2. \A n \in 0 .. SlotSize - 1 :
                  f[Base(t) + n] = IF n < Total(i) THEN Of(i, n) ELSE Blank
            BY <3>1, <2>1 DEF Filled
        <3> SUFFICES ASSUME NEW j \in Images, f[Base(t)] = Of(j, 0), RomAt(j) < SlotSize,
                            NEW n \in 0 .. InfoAt(j)
                     PROVE  f[Base(t) + n] = Of(j, n)
            BY DEF Good
        <3>3. f[Base(t) + 0] = f[Base(t)]
            BY SlotBase
        <3>4. f[Base(t)] = Of(i, 0)
            BY <3>2, <3>3, <2>2, ImageSize
        <3>5. j = i
            BY <3>4 DEF Of
        <3>6. n \in 0 .. SlotSize - 1 /\ n < Total(i)
            BY <3>5, <2>2, ImageSize
        <3> QED
            BY <3>2, <3>5, <3>6
    <2> QED
        BY <2>5, <2>6 DEF AllGood
<1> QED
    BY <1>1, <1>2

-----------------------------------------------------------------------------
(***************************************************************************)
(* An order, the erasure, the writing.                                     *)
(***************************************************************************)
LEMMA OrderStep ==
    ASSUME FlashTypeOK, NEW slots \in SUBSET Slot, NEW s \in Slot, NEW data,
           NEW image \in Images \cup {NoFile},
           NEW n \in Nat, data \in [0 .. n -> Cells], GoodData(data),
           Order(slots, Base(s), data, image), flash' = flash
    PROVE  /\ job' # Idle /\ \E m \in Addr : job' \in Jobs(m)
           /\ JobInv' /\ jobs' \in 0 .. MaxJobs
<1>1. /\ DOMAIN data = 0 .. n /\ Base(s) \in Nat /\ FlashSize \in Nat
      /\ \A a \in 0 .. n : Base(s) + a \in Addr
      /\ jobs \in 0 .. MaxJobs /\ jobs < MaxJobs /\ jobs' = jobs + 1 /\ MaxJobs \in Nat
    BY SlotBase, FlashAssumption DEF Order, FlashTypeOK
<1>2. n \in Addr /\ Base(s) \in Addr
    <2>1. Base(s) + n \in Addr /\ Base(s) + 0 \in Addr
        BY <1>1
    <2> QED
        BY <1>1, <2>1 DEF Addr
<1>3. job' = [act |-> "erase", slots |-> slots, base |-> Base(s),
              data |-> data, image |-> image, pos |-> 0]
    BY DEF Order
<1>4. job' \in Jobs(n)
    BY <1>1, <1>2, <1>3 DEF Jobs
<1>5. job' # Idle
    BY <1>2, <1>4, ValueAssumption
<1>6. JobInv'
    <2>1. \A a \in 0 .. job'.pos - 1 : FALSE
        BY <1>3
    <2> QED
        BY <1>1, <1>3, <2>1 DEF JobInv, GoodData
<1> QED
    BY <1>1, <1>2, <1>4, <1>5, <1>6

\* Erasing a sector damages no slot without taking its header.
LEMMA ErasedIsGood ==
    ASSUME FlashIInv, job # Idle, job.act = "erase", link
    PROVE  /\ Erased(job.pos) \in [Addr -> Cells] /\ AllGood(Erased(job.pos))
           /\ \A n \in 0 .. job.pos + Sector - 1 :
                  job.base + n \in Addr => Erased(job.pos)[job.base + n] = Blank
<1> DEFINE f == Erased(job.pos)
           p == job.pos
           b == job.base
<1>1. /\ flash \in [Addr -> Cells] /\ AllGood(flash)
      /\ \A n \in 0 .. p - 1 : b + n \in Addr => flash[b + n] = Blank
      /\ p \in Nat /\ Sector \in Nat /\ Sector > 0 /\ SlotSize \in Nat /\ SlotSize > 0
    BY FlashAssumption DEF FlashIInv, FlashTypeOK, JobInv, Jobs
<1>2. PICK s \in Slot : b = Base(s)
    BY DEF FlashIInv, JobInv
<1>3. b \in Nat /\ FlashSize \in Nat
    BY <1>2, SlotBase
<1>4. /\ f \in [Addr -> Cells]
      /\ \A a \in Addr : f[a] = IF a \in b + p .. b + p + Sector - 1 THEN Blank ELSE flash[a]
    BY <1>1, BlankCell DEF Erased
<1> HIDE DEF f, p, b
<1>5. ASSUME NEW n \in 0 .. p + Sector - 1, b + n \in Addr
      PROVE  f[b + n] = Blank
    <2>1. n \in 0 .. p - 1 \/ b + n \in b + p .. b + p + Sector - 1
        BY <1>1, <1>3
    <2> QED
        BY <1>1, <1>3, <1>4, <1>5, <2>1
<1>6. ASSUME NEW t \in Slot
      PROVE  Good(f, t)
    <2>0. Base(t) \in Nat /\ Base(t) + SlotSize <= FlashSize
        BY SlotBase
    <2>1. CASE b <= Base(t) /\ Base(t) < b + p + Sector
        <3>1. Base(t) - b \in 0 .. p + Sector - 1 /\ b + (Base(t) - b) = Base(t)
            BY <1>1, <1>3, <2>0, <2>1
        <3>2. Base(t) \in Addr
            BY <1>1, <1>3, <2>0 DEF Addr
        <3>3. f[Base(t)] = Blank
            BY <1>5, <3>1, <3>2
        <3> QED
            BY <3>3, BlankIsGood
    <2>2. CASE Base(t) < b \/ b + p + Sector <= Base(t)
        <3>1. Base(t) + SlotSize <= b \/ b + p + Sector <= Base(t)
            BY <1>1, <1>2, <1>3, <2>0, <2>2, SlotOrder DEF b
        <3>2. \A a \in Base(t) .. Base(t) + SlotSize - 1 : f[a] = flash[a]
            <4> TAKE a \in Base(t) .. Base(t) + SlotSize - 1
            <4>1. a \in Addr
                BY <1>1, <1>3, <2>0 DEF Addr
            <4>2. a \notin b + p .. b + p + Sector - 1
                BY <1>1, <1>3, <2>0, <3>1
            <4> QED
                BY <1>4, <4>1, <4>2
        <3> QED
            BY <1>1, <3>2, GoodIsLocal DEF AllGood
    <2> QED
        BY <1>1, <1>3, <2>0, <2>1, <2>2
<1>7. AllGood(f)
    BY <1>6 DEF AllGood
<1> QED
    BY <1>4, <1>5, <1>7 DEF f, p, b

\* The info block comes behind the core: a prefix of the data that shows a core has it.
LEMMA WrittenIsGood ==
    ASSUME FlashIInv, job # Idle, job.act = "write", link, InJob(job.pos)
    PROVE  /\ Written(job.pos) \in [Addr -> Cells] /\ AllGood(Written(job.pos))
           /\ \A n \in DOMAIN job.data :
                  Written(job.pos)[job.base + n] = IF n < job.pos + 1 THEN job.data[n] ELSE Blank
<1> DEFINE f == Written(job.pos)
           p == job.pos
           b == job.base
           d == job.data
<1>1. /\ flash \in [Addr -> Cells] /\ AllGood(flash) /\ GoodData(d)
      /\ \A n \in DOMAIN d : b + n \in Addr
      /\ \A n \in DOMAIN d : flash[b + n] = IF n < p THEN d[n] ELSE Blank
      /\ p \in DOMAIN d
    BY DEF FlashIInv, FlashTypeOK, JobInv, InJob
<1>2. PICK s \in Slot : b = Base(s)
    BY DEF FlashIInv, JobInv
<1>3. PICK last \in Addr : d \in [0 .. last -> Cells]
    BY DEF FlashIInv, FlashTypeOK, Jobs
<1>4. b \in Nat /\ FlashSize \in Nat /\ last \in Nat /\ SlotSize \in Nat /\ SlotSize > 0
    BY <1>2, SlotBase, FlashAssumption DEF Addr
<1>5. /\ f \in [Addr -> Cells]
      /\ \A a \in Addr : f[a] = IF a = b + p THEN d[p] ELSE flash[a]
    BY <1>1, <1>3 DEF Written
<1> HIDE DEF f, p, b, d
<1>6. ASSUME NEW n \in 0 .. last
      PROVE  f[b + n] = IF n < p + 1 THEN d[n] ELSE Blank
    <2>1. DOMAIN d = 0 .. last /\ p \in Nat /\ n \in Nat
        BY <1>1, <1>3, <1>4
    <2>2. b + n \in Addr /\ flash[b + n] = IF n < p THEN d[n] ELSE Blank
        BY <1>1, <2>1
    <2>3. b + n = b + p <=> n = p
        BY <1>4, <2>1
    <2>4. f[b + n] = IF b + n = b + p THEN d[p] ELSE flash[b + n]
        BY <1>5, <2>2
    <2>5. n < p + 1 <=> n < p \/ n = p
        BY <2>1
    <2> QED
        BY <2>2, <2>3, <2>4, <2>5
<1>7. ASSUME NEW t \in Slot
      PROVE  Good(f, t)
    <2>0. Base(t) \in Nat /\ Base(t) + SlotSize <= FlashSize
        BY SlotBase
    <2>1. CASE b <= Base(t) /\ Base(t) <= b + last
        <3> DEFINE m == t - s
        <3>1. m \in Slot /\ Base(t) = b + Base(m)
            BY <1>2, <2>1, SlotShift
        <3> HIDE DEF m
        <3>2. Base(m) \in Nat /\ Base(m) \in 0 .. last
            BY <1>4, <2>0, <2>1, <3>1, SlotBase
        <3> SUFFICES ASSUME NEW i \in Images, NEW j \in Images,
                            f[Base(t)] = Of(i, 0), RomAt(i) < SlotSize,
                            f[Base(t) + InfoAt(i)] = Of(j, InfoAt(j)), InfoAt(j) < SlotSize,
                            NEW n \in 0 .. InfoAt(i)
                     PROVE  f[Base(t) + n] = Of(i, n)
            BY DEF Good
        <3>3. f[b + Base(m)] # Blank
            BY <3>1, CellsDiffer, <1>4
        <3>4. d[Base(m)] = Of(i, 0)
            BY <1>6, <3>1, <3>2, <3>3
        <3>5. /\ Base(m) + InfoAt(i) \in 0 .. last
              /\ \A k \in Images :
                     d[Base(m) + InfoAt(i)] = Of(k, InfoAt(k)) /\ InfoAt(k) < SlotSize =>
                     \A x \in 0 .. InfoAt(i) : d[Base(m) + x] = Of(i, x)
            BY <1>1, <1>3, <3>1, <3>2, <3>4 DEF GoodData
        <3>6. InfoAt(i) \in Nat /\ InfoAt(j) \in Nat
            BY ImageSize
        <3>7. /\ f[b + (Base(m) + InfoAt(i))] = Of(j, InfoAt(j))
              /\ Of(j, InfoAt(j)) # Blank
            <4>1. Base(t) + InfoAt(i) = b + (Base(m) + InfoAt(i))
                BY <1>4, <3>1, <3>2, <3>6
            <4>2. InfoAt(j) \in 0 .. FlashSize
                BY <3>6, <1>4, <2>0
            <4> QED
                BY <4>1, <4>2, CellsDiffer
        <3>8. Base(m) + InfoAt(i) < p + 1 /\ d[Base(m) + InfoAt(i)] = Of(j, InfoAt(j))
            BY <1>6, <3>5, <3>7
        <3>9. d[Base(m) + n] = Of(i, n)
            BY <3>5, <3>8
        <3>10. Base(m) + n \in 0 .. last /\ Base(m) + n < p + 1
            <4>1. p \in Nat
                BY <1>1, <1>3
            <4> QED
                BY <4>1, <1>4, <3>2, <3>5, <3>6, <3>8
        <3>11. Base(t) + n = b + (Base(m) + n)
            BY <1>4, <3>1, <3>2, <3>6
        <3> QED
            BY <1>6, <3>9, <3>10, <3>11
    <2>2. CASE Base(t) < b \/ b + last < Base(t)
        <3>1. Base(t) + SlotSize <= b \/ b + last < Base(t)
            BY <1>2, <1>4, <2>0, <2>2, SlotOrder
        <3>2. p \in 0 .. last
            BY <1>1, <1>3
        <3>3. \A a \in Base(t) .. Base(t) + SlotSize - 1 : f[a] = flash[a]
            <4> TAKE a \in Base(t) .. Base(t) + SlotSize - 1
            <4>1. a \in Addr
                BY <1>4, <2>0 DEF Addr
            <4>2. a # b + p
                BY <1>4, <2>0, <3>1, <3>2
            <4> QED
                BY <1>5, <4>1, <4>2
        <3> QED
            BY <1>1, <3>3, GoodIsLocal DEF AllGood
    <2> QED
        BY <1>4, <2>0, <2>1, <2>2
<1>8. AllGood(f)
    BY <1>7 DEF AllGood
<1>9. \A n \in DOMAIN d : f[b + n] = IF n < p + 1 THEN d[n] ELSE Blank
    BY <1>3, <1>6
<1> QED
    BY <1>5, <1>8, <1>9 DEF f, p, b, d

-----------------------------------------------------------------------------
(***************************************************************************)
(* Every step keeps the invariant.                                         *)
(***************************************************************************)
LEMMA EraseStep ==
    ASSUME FlashIInv, EraseSector
    PROVE  FlashIInv' /\ job' # Idle
<1>1. job # Idle /\ job.act = "erase" /\ link /\ flash' = Erased(job.pos)
    BY DEF EraseSector
<1>2. PICK last \in Addr : job \in Jobs(last)
    BY <1>1 DEF FlashIInv, FlashTypeOK
<1>3. /\ job.pos \in Nat /\ Sector \in Nat /\ Sector > 0 /\ last \in Nat /\ last < FlashSize
      /\ DOMAIN job.data = 0 .. last /\ FlashSize \in Nat
    BY <1>2, FlashAssumption, SlotBase DEF Jobs, Addr
<1>4. CASE InJob(job.pos + Sector)
    <2>1. job' = [job EXCEPT !.pos = @ + Sector]
        BY <1>4 DEF EraseSector
    <2>2. job.pos + Sector \in 0 .. FlashSize
        BY <1>3, <1>4 DEF InJob
    <2>3. job' \in Jobs(last)
        BY <1>2, <2>1, <2>2 DEF Jobs
    <2>4. /\ job'.act = "erase" /\ job'.base = job.base /\ job'.data = job.data
          /\ job'.pos = job.pos + Sector
        BY <1>1, <1>2, <2>1 DEF Jobs
    <2>5. \A n \in 0 .. job'.pos - 1 : job'.base + n \in Addr => flash'[job'.base + n] = Blank
        BY <1>1, <1>3, <2>4, ErasedIsGood
    <2>6. JobInv'
        BY <1>1, <2>4, <2>5 DEF FlashIInv, JobInv, GoodData
    <2> QED
        BY <1>1, <1>2, <2>3, <2>6, ErasedIsGood, ValueAssumption
        DEF FlashIInv, FlashTypeOK, FileGood, LinkInv, EraseSector, usb
<1>5. CASE ~InJob(job.pos + Sector)
    <2>1. job' = [job EXCEPT !.act = "write", !.pos = 0]
        BY <1>5 DEF EraseSector
    <2>2. job' \in Jobs(last)
        <3>1. 0 \in 0 .. FlashSize
            BY <1>3
        <3> QED
            BY <1>2, <2>1, <3>1 DEF Jobs
    <2>3. /\ job'.act = "write" /\ job'.base = job.base /\ job'.data = job.data
          /\ job'.pos = 0
        BY <1>1, <1>2, <2>1 DEF Jobs
    <2>4. \A n \in 0 .. last : n \in 0 .. job.pos + Sector - 1 /\ ~(n < 0)
        BY <1>3, <1>5 DEF InJob
    <2>5. \A n \in 0 .. last : job.base + n \in Addr
        BY <1>1, <1>3 DEF FlashIInv, JobInv
    <2>6. \A n \in 0 .. last : flash'[job.base + n] = Blank
        BY <1>1, <2>4, <2>5, ErasedIsGood
    <2>7. \A n \in DOMAIN job'.data :
              flash'[job'.base + n] = IF n < job'.pos THEN job'.data[n] ELSE Blank
        BY <1>3, <2>3, <2>4, <2>6
    <2>8. JobInv'
        BY <1>1, <2>3, <2>7 DEF FlashIInv, JobInv, GoodData
    <2> QED
        BY <1>1, <1>2, <2>2, <2>8, ErasedIsGood, ValueAssumption
        DEF FlashIInv, FlashTypeOK, FileGood, LinkInv, EraseSector, usb
<1> QED
    BY <1>4, <1>5

LEMMA WriteStep ==
    ASSUME FlashIInv, WriteBlock
    PROVE  FlashIInv' /\ job' # Idle
<1>1. job # Idle /\ job.act = "write" /\ link /\ InJob(job.pos) /\ flash' = Written(job.pos)
    BY DEF WriteBlock
<1>2. PICK last \in Addr : job \in Jobs(last)
    BY <1>1 DEF FlashIInv, FlashTypeOK
<1>3. job' = [job EXCEPT !.pos = @ + 1]
    BY DEF WriteBlock
<1>4. job.pos + 1 \in 0 .. FlashSize
    BY <1>1, <1>2, SlotBase DEF InJob, Jobs, Addr
<1>5. job' \in Jobs(last)
    BY <1>2, <1>3, <1>4 DEF Jobs
<1>6. /\ job'.act = "write" /\ job'.base = job.base /\ job'.data = job.data
      /\ job'.pos = job.pos + 1
    BY <1>1, <1>2, <1>3 DEF Jobs
<1>7. JobInv'
    BY <1>1, <1>6, WrittenIsGood DEF FlashIInv, JobInv, GoodData
<1> QED
    BY <1>1, <1>2, <1>5, <1>7, WrittenIsGood, ValueAssumption
    DEF FlashIInv, FlashTypeOK, FileGood, LinkInv, WriteBlock, usb

LEMMA ReturnsStep ==
    ASSUME FlashIInv, Returns
    PROVE  /\ flash' \in [Addr -> Cells] /\ AllGood(flash') /\ JobInv'
           /\ job' = Idle
<1>1. CASE flash' = flash
    BY <1>1 DEF FlashIInv, FlashTypeOK, Returns, JobInv
<1>2. CASE flash' # flash
    <2>1. job # Idle /\ link /\ (job.act = "erase" \/ InJob(job.pos))
        BY <1>2 DEF Returns, Broken
    <2>2. job.act \in {"erase", "write"}
        BY <2>1 DEF FlashIInv, FlashTypeOK, Jobs
    <2> QED
        BY <1>2, <2>1, <2>2, ErasedIsGood, WrittenIsGood DEF Returns, Broken, JobInv
<1> QED
    BY <1>1, <1>2

\* What is read from a good flash can be written to another slot.
LEMMA ReadIsGood ==
    ASSUME NEW f \in [Addr -> Cells], AllGood(f), NEW s \in Slot,
           NEW len \in {SlotSize, FlashSize}, len = FlashSize => s = 0
    PROVE  /\ [n \in 0 .. len - 1 |-> f[Base(s) + n]] \in [0 .. len - 1 -> Cells]
           /\ GoodData([n \in 0 .. len - 1 |-> f[Base(s) + n]])
<1> DEFINE d == [n \in 0 .. len - 1 |-> f[Base(s) + n]]
<1>1. /\ Base(s) \in Nat /\ Base(s) + SlotSize <= FlashSize /\ FlashSize \in Nat
      /\ SlotSize \in Nat /\ SlotSize > 0 /\ len \in Nat /\ Base(0) = 0
      /\ DOMAIN d = 0 .. len - 1
    BY SlotBase, FlashAssumption
<1>2. Base(s) + len <= FlashSize
    BY <1>1
<1>3. \A n \in 0 .. len - 1 : Base(s) + n \in Addr
    BY <1>1, <1>2 DEF Addr
<1>4. d \in [0 .. len - 1 -> Cells]
    BY <1>3
<1>5. \A n \in 0 .. len - 1 : d[n] = f[Base(s) + n]
    OBVIOUS
<1> HIDE DEF d
<1>6. ASSUME NEW m \in Slot, NEW i \in Images,
             Base(m) \in DOMAIN d, d[Base(m)] = Of(i, 0), RomAt(i) < SlotSize
      PROVE  /\ Base(m) + InfoAt(i) \in DOMAIN d
             /\ \A j \in Images :
                    d[Base(m) + InfoAt(i)] = Of(j, InfoAt(j)) /\ InfoAt(j) < SlotSize =>
                    \A n \in 0 .. InfoAt(i) : d[Base(m) + n] = Of(i, n)
    <2>1. Base(m) \in 0 .. len - 1 /\ InfoAt(i) \in Nat /\ InfoAt(i) + 1 < SlotSize
        BY <1>1, <1>6, ImageSize
    <2>2. PICK t \in Slot : Base(t) = Base(s) + Base(m) /\ Base(m) + SlotSize <= len
        <3>1. CASE len = FlashSize
            BY <1>1, <2>1, <3>1, SlotBase
        <3>2. CASE len = SlotSize
            <4>1. ~(0 < m)
                <5>1. SUFFICES ASSUME 0 < m PROVE FALSE
                    OBVIOUS
                <5>2. Base(0) + SlotSize <= Base(m)
                    BY <5>1, SlotOrder, SlotBase
                <5> QED
                    BY <1>1, <2>1, <3>2, <5>2
            <4>2. m = 0
                BY <4>1, FlashAssumption DEF Slot
            <4> QED
                BY <1>1, <3>2, <4>2
        <3> QED
            BY <3>1, <3>2
    <2>3. \A n \in 0 .. InfoAt(i) :
              /\ Base(m) + n \in 0 .. len - 1
              /\ d[Base(m) + n] = f[Base(t) + n]
        <3> TAKE n \in 0 .. InfoAt(i)
        <3>1. Base(m) + n \in 0 .. len - 1
            BY <1>1, <2>1, <2>2
        <3>2. Base(t) + n = Base(s) + (Base(m) + n)
            BY <1>1, <2>1, <2>2
        <3> QED
            BY <1>5, <3>1, <3>2
    <2>4. 0 \in 0 .. InfoAt(i) /\ InfoAt(i) \in 0 .. InfoAt(i)
        BY <2>1
    <2>5. f[Base(t) + 0] = f[Base(t)] /\ d[Base(m) + 0] = d[Base(m)]
        BY <2>1, SlotBase
    <2>6. f[Base(t)] = Of(i, 0)
        BY <1>6, <2>3, <2>4, <2>5
    <2>7. ASSUME NEW j \in Images, d[Base(m) + InfoAt(i)] = Of(j, InfoAt(j)),
                 InfoAt(j) < SlotSize, NEW n \in 0 .. InfoAt(i)
          PROVE  d[Base(m) + n] = Of(i, n)
        <3>1. f[Base(t) + InfoAt(i)] = Of(j, InfoAt(j))
            BY <2>3, <2>4, <2>7
        <3> QED
            BY <1>6, <2>3, <2>6, <2>7, <3>1 DEF AllGood, Good
    <2> QED
        BY <1>1, <2>3, <2>4, <2>7
<1> QED
    BY <1>4, <1>6 DEF GoodData, d

LEMMA FileIsGood ==
    ASSUME NEW len \in {SlotSize, FlashSize}, NEW f \in [0 .. len - 1 -> Cells], GoodData(f),
           NEW max \in {SlotSize, FlashSize}
    PROVE  \E n \in Nat :
               /\ [a \in {x \in DOMAIN f : x < max} |-> f[a]] \in [0 .. n -> Cells]
               /\ GoodData([a \in {x \in DOMAIN f : x < max} |-> f[a]])
<1>1. SlotSize \in Nat /\ SlotSize > 0 /\ FlashSize \in Nat /\ SlotSize <= FlashSize
    BY SlotBase, FlashAssumption
<1> DEFINE n == IF len <= max THEN len - 1 ELSE max - 1
           d == [a \in {x \in DOMAIN f : x < max} |-> f[a]]
<1>2. n \in Nat /\ {x \in DOMAIN f : x < max} = 0 .. n
    BY <1>1
<1>3. DOMAIN d = 0 .. n /\ (\A a \in 0 .. n : d[a] = f[a]) /\ d \in [0 .. n -> Cells]
    <2>1. d = [a \in 0 .. n |-> f[a]]
        BY <1>2
    <2>2. 0 .. n \subseteq DOMAIN f
        BY <1>2
    <2> HIDE DEF d, n
    <2> QED
        BY <2>1, <2>2
<1>4. n = len - 1 \/ n = SlotSize - 1
    BY <1>1
<1> HIDE DEF d, n
<1>5. ASSUME NEW m \in Slot, NEW i \in Images,
             Base(m) \in DOMAIN d, d[Base(m)] = Of(i, 0), RomAt(i) < SlotSize
      PROVE  /\ Base(m) + InfoAt(i) \in DOMAIN d
             /\ \A j \in Images :
                    d[Base(m) + InfoAt(i)] = Of(j, InfoAt(j)) /\ InfoAt(j) < SlotSize =>
                    \A x \in 0 .. InfoAt(i) : d[Base(m) + x] = Of(i, x)
    <2>1. Base(m) \in Nat /\ InfoAt(i) \in Nat /\ InfoAt(i) + 1 < SlotSize
        BY <1>5, ImageSize, SlotBase
    <2>2. 0 .. n \subseteq DOMAIN f
        BY <1>1, <1>4
    <2>3. /\ Base(m) + InfoAt(i) \in DOMAIN f
          /\ \A j \in Images :
                    f[Base(m) + InfoAt(i)] = Of(j, InfoAt(j)) /\ InfoAt(j) < SlotSize =>
                    \A x \in 0 .. InfoAt(i) : f[Base(m) + x] = Of(i, x)
        BY <1>3, <1>5, <2>2 DEF GoodData
    <2>4. Base(m) + InfoAt(i) \in 0 .. n
        <3>1. CASE n = len - 1
            BY <2>1, <2>3, <3>1
        <3>2. CASE n = SlotSize - 1
            <4>1. m = 0
                <5>1. SUFFICES ASSUME 0 < m PROVE FALSE
                    BY FlashAssumption DEF Slot
                <5>2. Base(0) + SlotSize <= Base(m)
                    BY <5>1, SlotOrder, SlotBase
                <5> QED
                    BY <1>1, <1>3, <1>5, <2>1, <3>2, <5>2, SlotBase
            <4> QED
                BY <1>1, <2>1, <3>2, <4>1, SlotBase
        <3> QED
            BY <1>4, <3>1, <3>2
    <2>5. \A x \in 0 .. InfoAt(i) : Base(m) + x \in 0 .. n
        BY <1>2, <2>1, <2>4
    <2> QED
        BY <1>3, <2>3, <2>4, <2>5
<1> QED
    BY <1>2, <1>3, <1>5 DEF GoodData, d

LEMMA ImageData ==
    ASSUME NEW i \in Images, NEW s \in Slot,
           \A n \in DOMAIN SlotImage(i) : Base(s) + n \in Addr
    PROVE  \E n \in Nat : SlotImage(i) \in [0 .. n -> Cells]
<1>1. /\ PadUp(Total(i)) \in Nat /\ Total(i) \in Nat /\ Total(i) > 0 /\ Total(i) <= PadUp(Total(i))
    BY ImageSize, Padded
<1> DEFINE n == PadUp(Total(i)) - 1
<1>2. n \in Nat /\ DOMAIN SlotImage(i) = 0 .. n
    BY <1>1 DEF SlotImage
<1>3. \A a \in 0 .. n : a \in 0 .. FlashSize
    BY <1>2, SlotBase DEF Addr
<1>4. \A a \in 0 .. n :
          (IF a < Total(i) THEN Of(i, a) ELSE IF a < SlotSize THEN Blank ELSE Junk) \in Cells
    BY <1>3, CellsDiffer, BlankCell
<1>5. SlotImage(i) \in [0 .. n -> Cells]
    BY <1>4 DEF SlotImage
<1> QED
    BY <1>2, <1>5

LEMMA FlashInitInv == FlashInit => FlashIInv
<1> SUFFICES ASSUME FlashInit PROVE FlashIInv
    OBVIOUS
<1>1. flash \in [Addr -> Cells] /\ AllGood(flash)
    BY FactoryIsGood DEF FlashInit
<1>2. jobs \in 0 .. MaxJobs
    BY FlashAssumption DEF FlashInit
<1>3. FlashTypeOK
    BY <1>1, <1>2 DEF FlashInit, FlashTypeOK
<1> QED
    BY <1>1, <1>3 DEF FlashInit, FlashIInv, JobInv, FileGood, LinkInv

\* A step that orders nothing, writes nothing and reads nothing.
LEMMA QuietStep ==
    ASSUME FlashIInv, UNCHANGED <<flash, version, jobs>>,
           job' = job \/ job' = Idle, file' = file \/ file' = NoFile,
           job' # Idle => (link' => link), prog' = "none" => job' = Idle, link' => plugged',
           plugged' \in BOOLEAN, link' \in BOOLEAN, card' \in BOOLEAN, nocard' \in BOOLEAN,
           prog' \in {"none", "updater", "chacocmd", "wx"}
    PROVE  FlashIInv'
BY DEF FlashIInv, FlashTypeOK, JobInv, FileGood, LinkInv, GoodData

LEMMA FlashStep ==
    ASSUME FlashIInv, [FlashNext]_cvars
    PROVE  FlashIInv'
<1> USE DEF chameleon, usb
<1>0. FlashTypeOK /\ LinkInv
    BY DEF FlashIInv
<1>1. CASE EraseSector
    BY <1>1, EraseStep
<1>2. CASE WriteBlock
    BY <1>2, WriteStep
<1>3. CASE JobEnds
    BY <1>3, ReturnsStep DEF JobEnds, FlashIInv, FlashTypeOK, FileGood, LinkInv
<1>4. CASE UpdaterEnds
    BY <1>4, ReturnsStep DEF UpdaterEnds, FlashIInv, FlashTypeOK, FileGood, LinkInv
<1>5. CASE UpdaterStart
    BY <1>0, <1>5, QuietStep DEF UpdaterStart, Open, FlashTypeOK, LinkInv
<1>6. CASE UpdaterCard
    BY <1>0, <1>6, QuietStep DEF UpdaterCard, FlashTypeOK, LinkInv
<1>7. ASSUME NEW i \in Images, UpdaterFlash(i)
      PROVE  FlashIInv'
    <2>1. Order({0}, Base(0), SlotImage(i), i) /\ flash' = flash
        BY <1>7, SlotBase DEF UpdaterFlash
    <2>2. PICK n \in Nat : SlotImage(i) \in [0 .. n -> Cells]
        BY <2>1, SlotBase, ImageData DEF Order
    <2>3. /\ job' # Idle /\ \E m \in Addr : job' \in Jobs(m)
          /\ JobInv' /\ jobs' \in 0 .. MaxJobs
        BY <1>0, <2>1, <2>2, ImageIsGood, OrderStep, SlotBase
    <2> QED
        BY <1>7, <2>3 DEF UpdaterFlash, FlashIInv, FlashTypeOK, FileGood, LinkInv, Option
<1>8. CASE CmdStart
    BY <1>0, <1>8, QuietStep DEF CmdStart, Open, FlashTypeOK, LinkInv
<1>9. ASSUME NEW s \in Slot, NEW i \in Images, FlashRbf(s, i)
      PROVE  FlashIInv'
    <2>1. Order({s}, Base(s), SlotImage(i), i) /\ flash' = flash
        BY <1>9 DEF FlashRbf, OptionOnly
    <2>2. PICK n \in Nat : SlotImage(i) \in [0 .. n -> Cells]
        BY <2>1, ImageData DEF Order
    <2>3. /\ job' # Idle /\ \E m \in Addr : job' \in Jobs(m)
          /\ JobInv' /\ jobs' \in 0 .. MaxJobs
        BY <1>0, <2>1, <2>2, ImageIsGood, OrderStep
    <2> QED
        BY <1>9, <2>3 DEF FlashRbf, OptionOnly, FlashIInv, FlashTypeOK, FileGood, LinkInv, Option
<1>10. ASSUME NEW slots \in SUBSET Slot, NEW s \in Slot, NEW max \in {SlotSize, FlashSize},
              FlashFile(slots, Base(s), max)
       PROVE  FlashIInv'
    <2> DEFINE data == [n \in {a \in DOMAIN file : a < max} |-> file[n]]
    <2>1. Order(slots, Base(s), data, NoFile) /\ flash' = flash /\ file # NoFile
        BY <1>10 DEF FlashFile, OptionOnly
    <2>2. PICK len \in {SlotSize, FlashSize} : file \in [0 .. len - 1 -> Cells] /\ GoodData(file)
        BY <2>1 DEF FlashIInv, FlashTypeOK, FileGood
    <2>3. PICK n \in Nat : data \in [0 .. n -> Cells] /\ GoodData(data)
        BY <2>2, FileIsGood
    <2> HIDE DEF data
    <2>4. /\ job' # Idle /\ \E m \in Addr : job' \in Jobs(m)
          /\ JobInv' /\ jobs' \in 0 .. MaxJobs
        BY <1>0, <2>1, <2>3, OrderStep
    <2> QED
        BY <1>10, <2>4 DEF FlashFile, OptionOnly, FlashIInv, FlashTypeOK, FileGood, LinkInv, Option
<1>11. ASSUME NEW s \in Slot, EraseSlot(s)
       PROVE  FlashIInv'
    <2> DEFINE data == [n \in 0 .. SlotSize - 1 |-> Blank]
    <2>1. Order({s}, Base(s), data, NoFile) /\ flash' = flash
        BY <1>11 DEF EraseSlot, OptionOnly
    <2>2. SlotSize - 1 \in Nat /\ data \in [0 .. SlotSize - 1 -> Cells] /\ GoodData(data)
        BY FlashAssumption, BlankCell, ErasureIsGood
    <2> HIDE DEF data
    <2>3. /\ job' # Idle /\ \E m \in Addr : job' \in Jobs(m)
          /\ JobInv' /\ jobs' \in 0 .. MaxJobs
        BY <1>0, <2>1, <2>2, OrderStep
    <2> QED
        BY <1>11, <2>3 DEF EraseSlot, OptionOnly, FlashIInv, FlashTypeOK, FileGood, LinkInv, Option
<1>12. ASSUME NEW s \in Slot, NEW len \in {SlotSize, FlashSize}, len = FlashSize => s = 0,
              ReadFlash(Base(s), len)
       PROVE  FlashIInv'
    <2>1. file' # NoFile => file' \in [0 .. len - 1 -> Cells] /\ GoodData(file')
        BY <1>0, <1>12, ReadIsGood DEF ReadFlash, FlashIInv, FlashTypeOK
    <2> QED
        BY <1>12, <2>1 DEF ReadFlash, FlashIInv, FlashTypeOK, FileGood, LinkInv, JobInv, GoodData
<1>13. CASE Exit
    BY <1>0, <1>13, QuietStep DEF Exit, FlashTypeOK, LinkInv
<1>14. CASE Unplug
    BY <1>0, <1>14, QuietStep DEF Unplug, FlashTypeOK, LinkInv
<1>15. CASE Plug
    <2>1. CASE UNCHANGED <<flash, version>>
        BY <1>0, <1>15, <2>1, QuietStep DEF Plug, FlashTypeOK, LinkInv
    <2>2. CASE version' \in Versions \ {version} /\ flash' \in Factory(version')
        BY <1>15, <2>2, FactoryIsGood
        DEF Plug, FlashIInv, FlashTypeOK, JobInv, FileGood, LinkInv, GoodData
    <2> QED
        BY <1>15, <2>1, <2>2 DEF Plug
<1>16. CASE SwapCard
    BY <1>0, <1>16, QuietStep DEF SwapCard, FlashTypeOK, LinkInv
<1>17. CASE UNCHANGED cvars
    BY <1>0, <1>17, QuietStep DEF cvars, FlashTypeOK, LinkInv
<1> QED
    <2>1. Base(0) = 0 /\ 0 \in Slot /\ Slot \in SUBSET Slot /\ \A s \in Slot : {s} \in SUBSET Slot
        BY SlotBase
    <2>2. Chacocmd => FlashIInv'
        <3>1. ASSUME NEW s \in Slot, FlashFile({s}, Base(s), SlotSize) PROVE FlashIInv'
            BY <1>10, <2>1, <3>1
        <3>2. ASSUME FlashFile(Slot, 0, FlashSize) PROVE FlashIInv'
            BY <1>10, <2>1, <3>2
        <3>3. ASSUME NEW s \in Slot, ReadFlash(Base(s), SlotSize) PROVE FlashIInv'
            <4>1. CASE SlotSize = FlashSize => s = 0
                BY <1>12, <3>3, <4>1
            <4>2. CASE SlotSize = FlashSize /\ s # 0
                BY <4>2, <2>1, SlotOrder, SlotBase, FlashAssumption
            <4> QED
                BY <4>1, <4>2
        <3>4. ASSUME ReadFlash(0, FlashSize) PROVE FlashIInv'
            BY <1>12, <2>1, <3>4
        <3> QED
            BY <1>8, <1>9, <1>11, <3>1, <3>2, <3>3, <3>4 DEF Chacocmd
    <2> QED
        BY <1>1, <1>2, <1>3, <1>4, <1>5, <1>6, <1>7, <1>13, <1>14, <1>15, <1>16, <1>17, <2>2
        DEF FlashNext, Writer, Updater, World

-----------------------------------------------------------------------------
(***************************************************************************)
(* Which slots an order touches.  It is for whole sectors, as they are     *)
(* erased; and the sectors are those of its slots, or one more.            *)
(***************************************************************************)
Reach(l) ==
    \/ \E s \in Slot : job.slots = {s} /\ job.base = Base(s) /\ l * Sector <= SlotSize
    \/ job.slots = Slot
    \/ /\ job.image \in Images
       /\ Total(job.image) \in SlotSize + 1 .. SlotSize + Info
       /\ \E s \in Slot : job.slots = {s} /\ job.base = Base(s)
       /\ l * Sector <= SlotSize + Sector

RangeInv ==
    job # Idle => \E l \in Nat :
        /\ DOMAIN job.data = 0 .. l * Sector - 1
        /\ job.act = "erase" => \E k \in Nat : k < l /\ job.pos = k * Sector
        /\ Reach(l)

LEMMA SlotOf ==
    /\ \A s \in Slot, n \in 0 .. SlotSize - 1 : (Base(s) + n) \div SlotSize = s
    /\ \A a \in Addr : a \div SlotSize \in Slot
<1>1. SlotSize \in Nat /\ SlotSize > 0 /\ Slots \in Nat
    BY FlashAssumption
<1>2. ASSUME NEW s \in Slot, NEW n \in 0 .. SlotSize - 1
      PROVE  (Base(s) + n) \div SlotSize = s
    <2>1. s \in Nat /\ n \in Nat
        BY <1>1 DEF Slot
    <2>2. (s * SlotSize + n) \div SlotSize = s
        BY <1>1, <2>1
    <2> QED
        BY <2>2 DEF Base
<1>3. ASSUME NEW a \in Addr PROVE a \div SlotSize \in Slot
    <2> DEFINE q == a \div SlotSize
    <2>1. a \in Nat /\ a < FlashSize
        BY SlotBase DEF Addr
    <2>2. q \in Nat /\ a % SlotSize \in Nat /\ a = SlotSize * q + (a % SlotSize)
        BY <1>1, <2>1
    <2> HIDE DEF q
    <2>3. SlotSize * q = q * SlotSize /\ q * SlotSize \in Nat
        BY <1>1, <2>2
    <2>4. q * SlotSize < Slots * SlotSize
        <3>1. q * SlotSize <= a
            BY <2>1, <2>2, <2>3
        <3>2. FlashSize = Slots * SlotSize
            BY DEF FlashSize
        <3>3. a < Slots * SlotSize /\ Slots * SlotSize \in Nat
            BY <1>1, <2>1, <3>2
        <3> QED
            BY <2>1, <2>3, <3>1, <3>3
    <2>5. q < Slots
        <3>1. SUFFICES ASSUME Slots < q PROVE FALSE
            BY <1>1, <2>2, <2>4
        <3>2. Slots * SlotSize + SlotSize <= q * SlotSize
            BY <1>1, <2>2, <3>1, Monotone
        <3>3. Slots * SlotSize \in Nat
            BY <1>1
        <3> QED
            BY <1>1, <2>3, <2>4, <3>2, <3>3
    <2> QED
        BY <1>1, <2>2, <2>5 DEF Slot, q
<1> QED
    BY <1>2, <1>3

\* Slots and the flash are whole sectors, and so is what is padded.
LEMMA WholeSectors ==
    /\ \E l \in Nat : l > 0 /\ l * Sector = SlotSize
    /\ \E l \in Nat : l > 0 /\ l * Sector = FlashSize
    /\ \A n \in Nat \ {0} : \E l \in Nat :
           /\ l > 0 /\ l * Sector = PadUp(n)
           /\ n <= SlotSize => l * Sector <= SlotSize
           /\ l * Sector <= n + Sector - 1
<1>1. /\ SlotSize \in Nat /\ SlotSize > 0 /\ Sector \in Nat /\ Sector > 0 /\ SlotSize % Sector = 0
      /\ Slots \in Nat /\ Slots > 0
    BY FlashAssumption
<1> DEFINE q == SlotSize \div Sector
<1>2. q \in Nat /\ SlotSize = Sector * q
    BY <1>1
<1> HIDE DEF q
<1>3. q * Sector = SlotSize /\ q > 0
    BY <1>1, <1>2
<1>4. (Slots * q) * Sector = FlashSize /\ Slots * q \in Nat /\ Slots * q > 0
    BY <1>1, <1>2, <1>3 DEF FlashSize
<1>5. ASSUME NEW n \in Nat \ {0}
      PROVE  \E l \in Nat : /\ l > 0 /\ l * Sector = PadUp(n)
                            /\ n <= SlotSize => l * Sector <= SlotSize
                            /\ l * Sector <= n + Sector - 1
    <2> DEFINE x == n + Sector - 1
               l == x \div Sector
    <2>1. x \in Nat /\ n \in Nat /\ n > 0
        BY <1>1
    <2>2. l \in Nat /\ x % Sector \in 0 .. Sector - 1 /\ x = Sector * l + (x % Sector)
        BY <1>1, <2>1
    <2>3. l * Sector = PadUp(n)
        BY DEF PadUp
    <2> HIDE DEF l
    <2>4. Sector * l = l * Sector /\ l * Sector \in Nat
        BY <1>1, <2>2
    <2>5. l * Sector <= x /\ l > 0
        BY <1>1, <2>1, <2>2, <2>4
    <2>6. ASSUME n <= SlotSize PROVE l * Sector <= SlotSize
        <3>1. l * Sector < q * Sector + Sector
            BY <1>1, <1>3, <2>1, <2>4, <2>5, <2>6
        <3>2. ~(q < l)
            <4>1. q < l => q * Sector + Sector <= l * Sector
                BY <1>1, <1>2, <2>2, Monotone
            <4> QED
                BY <1>1, <1>3, <2>4, <3>1, <4>1
        <3>3. l < q => l * Sector + Sector <= q * Sector
            BY <1>1, <1>2, <2>2, Monotone
        <3> QED
            BY <1>1, <1>2, <1>3, <2>2, <2>4, <3>2, <3>3
    <2> QED
        BY <2>2, <2>3, <2>5, <2>6
<1> QED
    BY <1>2, <1>3, <1>4, <1>5

\* The cells of an order lie in its slots, or the image is too long.
LEMMA Touched ==
    ASSUME FlashIInv, RangeInv, job # Idle, NEW n \in DOMAIN job.data
    PROVE  (job.base + n) \div SlotSize \in job.slots \/ SpillsInto(job.base + n)
<1>1. PICK l \in Nat : DOMAIN job.data = 0 .. l * Sector - 1 /\ Reach(l)
    BY DEF RangeInv
<1>2. /\ job.base + n \in Addr /\ n \in Nat /\ n < l * Sector /\ l * Sector \in Int
      /\ SlotSize \in Nat /\ Sector \in Nat
    BY <1>1, FlashAssumption DEF FlashIInv, JobInv
<1>3. CASE \E s \in Slot : job.slots = {s} /\ job.base = Base(s) /\ n < SlotSize
    BY <1>2, <1>3, SlotOf
<1>4. CASE job.slots = Slot
    BY <1>2, <1>4, SlotOf
<1>5. CASE /\ job.image \in Images
           /\ Total(job.image) \in SlotSize + 1 .. SlotSize + Info
           /\ \E s \in Slot : job.slots = {s} /\ job.base = Base(s)
           /\ l * Sector <= SlotSize + Sector
           /\ ~(n < SlotSize)
    <2>1. job.base \in Nat
        BY <1>5, SlotBase
    <2>2. job.base + n \in job.base + SlotSize .. job.base + SlotSize + Sector - 1
        BY <1>2, <1>5, <2>1
    <2> QED
        BY <1>5, <2>2 DEF SpillsInto
<1> QED
    BY <1>1, <1>2, <1>3, <1>4, <1>5 DEF Reach

\* Neither a step of the writer nor its end touches another cell.
LEMMA ChangesOwn ==
    ASSUME FlashIInv, RangeInv, job # Idle, EraseSector \/ WriteBlock \/ Returns,
           NEW a \in Addr, flash'[a] # flash[a]
    PROVE  a \div SlotSize \in job.slots \/ SpillsInto(a)
<1>1. flash \in [Addr -> Cells] /\ job.act \in {"erase", "write"} /\ job.pos \in Nat
    BY DEF FlashIInv, FlashTypeOK, Jobs
<1>2. PICK s \in Slot : job.base = Base(s)
    BY DEF FlashIInv, JobInv
<1>3. job.base \in Nat /\ Sector \in Nat /\ Sector > 0 /\ a \in Nat
    BY <1>2, SlotBase, FlashAssumption DEF Addr
<1>4. \E n \in DOMAIN job.data : a = job.base + n
    <2>1. CASE job.act = "erase" /\ flash' = Erased(job.pos)
        <3>1. a \in job.base + job.pos .. job.base + job.pos + Sector - 1
            BY <1>1, <2>1 DEF Erased
        <3>2. PICK l \in Nat, k \in Nat : /\ DOMAIN job.data = 0 .. l * Sector - 1
                                          /\ k < l /\ job.pos = k * Sector
            BY <2>1 DEF RangeInv
        <3>3. job.pos + Sector <= l * Sector /\ l * Sector \in Int
            BY <1>3, <3>2, Monotone
        <3>4. a - job.base \in 0 .. l * Sector - 1 /\ a = job.base + (a - job.base)
            BY <1>1, <1>3, <3>1, <3>3
        <3> QED
            BY <3>2, <3>4
    <2>2. CASE InJob(job.pos) /\ flash' = Written(job.pos)
        <3>1. a = job.base + job.pos
            BY <1>1, <2>2 DEF Written
        <3> QED
            BY <2>2, <3>1 DEF InJob
    <2> QED
        BY <1>1, <2>1, <2>2 DEF EraseSector, WriteBlock, Returns, Broken
<1> QED
    BY <1>4, Touched

LEMMA RangeOrder ==
    ASSUME NEW slots, NEW base, NEW data, NEW image, NEW l \in Nat, l > 0,
           Order(slots, base, data, image), DOMAIN data = 0 .. l * Sector - 1,
           \/ \E s \in Slot : slots = {s} /\ base = Base(s) /\ l * Sector <= SlotSize
           \/ slots = Slot
           \/ /\ image \in Images
              /\ Total(image) \in SlotSize + 1 .. SlotSize + Info
              /\ \E s \in Slot : slots = {s} /\ base = Base(s)
              /\ l * Sector <= SlotSize + Sector
    PROVE  RangeInv'
<1>1. job' = [act |-> "erase", slots |-> slots, base |-> base,
              data |-> data, image |-> image, pos |-> 0]
    BY DEF Order
<1>2. 0 = 0 * Sector /\ 0 \in Nat /\ 0 < l
    BY FlashAssumption
<1>3. Reach(l)'
    BY <1>1 DEF Reach
<1> QED
    BY <1>1, <1>2, <1>3 DEF RangeInv

LEMMA RangeImage ==
    ASSUME NEW s \in Slot, NEW i \in Images, Total(i) <= SlotSize + Info,
           Order({s}, Base(s), SlotImage(i), i)
    PROVE  RangeInv'
<1>1. Total(i) \in Nat \ {0} /\ SlotSize \in Nat /\ Sector \in Nat /\ Sector > 0
    BY ImageSize, FlashAssumption
<1>2. PICK l \in Nat : /\ l > 0 /\ l * Sector = PadUp(Total(i))
                       /\ Total(i) <= SlotSize => l * Sector <= SlotSize
                       /\ l * Sector <= Total(i) + Sector - 1
    BY <1>1, WholeSectors
<1>3. DOMAIN SlotImage(i) = 0 .. l * Sector - 1
    BY <1>2 DEF SlotImage
<1>4. \/ l * Sector <= SlotSize
      \/ Total(i) \in SlotSize + 1 .. SlotSize + Info /\ l * Sector <= SlotSize + Sector
    <2>1. l * Sector \in Nat
        BY <1>1
    <2> QED
        BY <1>1, <1>2, <2>1 DEF Info
<1> QED
    BY <1>2, <1>3, <1>4, RangeOrder

LEMMA RangeWriter ==
    ASSUME FlashIInv, RangeInv, EraseSector \/ WriteBlock
    PROVE  RangeInv'
<1>1. job # Idle /\ \E n \in Addr : job \in Jobs(n)
    BY DEF FlashIInv, FlashTypeOK, EraseSector, WriteBlock
<1>2. PICK l \in Nat :
          /\ DOMAIN job.data = 0 .. l * Sector - 1
          /\ job.act = "erase" => \E k \in Nat : k < l /\ job.pos = k * Sector
          /\ Reach(l)
    BY <1>1 DEF RangeInv
<1>3. Sector \in Nat /\ Sector > 0 /\ l * Sector \in Nat
    BY FlashAssumption
<1>4. CASE job' = [job EXCEPT !.pos = @ + Sector] /\ job.act = "erase" /\ InJob(job.pos + Sector)
    <2>1. PICK k \in Nat : k < l /\ job.pos = k * Sector
        BY <1>2, <1>4
    <2>2. job.pos + Sector = (k + 1) * Sector /\ k + 1 \in Nat
        BY <1>3, <2>1
    <2>3. k + 1 # l
        BY <1>2, <1>3, <1>4, <2>2 DEF InJob
    <2>4. k + 1 < l
        BY <2>1, <2>3
    <2>5. /\ job'.act = "erase" /\ job'.slots = job.slots /\ job'.base = job.base
          /\ job'.data = job.data /\ job'.image = job.image /\ job'.pos = job.pos + Sector
        BY <1>1, <1>4 DEF Jobs
    <2>6. Reach(l)'
        BY <1>2, <2>5 DEF Reach
    <2>7. job'.pos = (k + 1) * Sector
        BY <2>2, <2>5
    <2> QED
        BY <1>2, <2>2, <2>4, <2>5, <2>6, <2>7 DEF RangeInv
<1>5. CASE \/ job' = [job EXCEPT !.act = "write", !.pos = 0]
           \/ job' = [job EXCEPT !.pos = @ + 1] /\ job.act = "write"
    <2>1. /\ job'.act = "write" /\ job'.slots = job.slots /\ job'.base = job.base
          /\ job'.data = job.data /\ job'.image = job.image
        BY <1>1, <1>5 DEF Jobs
    <2>2. Reach(l)'
        BY <1>2, <2>1 DEF Reach
    <2> QED
        BY <1>2, <2>1, <2>2 DEF RangeInv
<1> QED
    BY <1>4, <1>5 DEF EraseSector, WriteBlock

LEMMA RangeSame ==
    ASSUME RangeInv, job' = job \/ job' = Idle
    PROVE  RangeInv'
BY DEF RangeInv, Reach

LEMMA RangeStep ==
    ASSUME FlashIInv, RangeInv, [FlashNext]_cvars
    PROVE  RangeInv'
<1>1. CASE EraseSector \/ WriteBlock
    BY <1>1, RangeWriter
<1>2. CASE job' = job \/ job' = Idle
    BY <1>2, RangeSame
<1>3. ASSUME NEW i \in Images, ~Exceeds(i) PROVE Total(i) <= SlotSize + Info
    BY <1>3, FlashAssumption DEF Exceeds, Total, RomAt, InfoAt, Header, Info
<1>4. ASSUME NEW i \in Images, UpdaterFlash(i) PROVE RangeInv'
    BY <1>3, <1>4, SlotBase, RangeImage DEF UpdaterFlash
<1>5. ASSUME NEW s \in Slot, NEW i \in Images, FlashRbf(s, i) PROVE RangeInv'
    BY <1>3, <1>5, RangeImage DEF FlashRbf
<1>6. ASSUME NEW max \in {SlotSize, FlashSize}, FlashFile(Slot, 0, max),
             max = FlashSize
      PROVE  RangeInv'
    <2> DEFINE data == [n \in {a \in DOMAIN file : a < max} |-> file[n]]
    <2>1. Order(Slot, 0, data, NoFile) /\ file # NoFile
        BY <1>6 DEF FlashFile
    <2>2. PICK len \in {SlotSize, FlashSize} : file \in [0 .. len - 1 -> Cells]
        BY <2>1 DEF FlashIInv, FlashTypeOK
    <2>3. PICK l \in Nat : l > 0 /\ l * Sector = len
        BY WholeSectors
    <2>4. DOMAIN data = 0 .. l * Sector - 1
        BY <1>6, <2>2, <2>3, SlotBase, FlashAssumption
    <2> HIDE DEF data
    <2> QED
        BY <2>1, <2>3, <2>4, RangeOrder
<1>7. ASSUME NEW s \in Slot, FlashFile({s}, Base(s), SlotSize) PROVE RangeInv'
    <2> DEFINE data == [n \in {a \in DOMAIN file : a < SlotSize} |-> file[n]]
    <2>1. Order({s}, Base(s), data, NoFile) /\ file # NoFile
        BY <1>7 DEF FlashFile
    <2>2. PICK len \in {SlotSize, FlashSize} : file \in [0 .. len - 1 -> Cells]
        BY <2>1 DEF FlashIInv, FlashTypeOK
    <2>3. PICK l \in Nat : l > 0 /\ l * Sector = SlotSize
        BY WholeSectors
    <2>4. DOMAIN data = 0 .. l * Sector - 1 /\ l * Sector <= SlotSize
        BY <2>2, <2>3, SlotBase, FlashAssumption
    <2> HIDE DEF data
    <2> QED
        BY <2>1, <2>3, <2>4, RangeOrder
<1>8. ASSUME NEW s \in Slot, EraseSlot(s) PROVE RangeInv'
    <2> DEFINE data == [n \in 0 .. SlotSize - 1 |-> Blank]
    <2>1. Order({s}, Base(s), data, NoFile)
        BY <1>8 DEF EraseSlot
    <2>2. PICK l \in Nat : l > 0 /\ l * Sector = SlotSize
        BY WholeSectors
    <2>3. DOMAIN data = 0 .. l * Sector - 1 /\ l * Sector <= SlotSize
        BY <2>2, FlashAssumption
    <2> HIDE DEF data
    <2> QED
        BY <2>1, <2>2, <2>3, RangeOrder
<1>9. Chacocmd => RangeInv'
    BY <1>2, <1>5, <1>6, <1>7, <1>8 DEF Chacocmd, CmdStart, Open, ReadFlash
<1>10. Updater => RangeInv'
    BY <1>2, <1>4 DEF Updater, UpdaterStart, Open, UpdaterCard
<1>11. JobEnds \/ UpdaterEnds \/ Exit \/ World \/ UNCHANGED cvars => job' = job \/ job' = Idle
    BY DEF JobEnds, UpdaterEnds, Returns, Exit, World, Unplug, Plug, SwapCard, cvars
<1> QED
    BY <1>1, <1>2, <1>9, <1>10, <1>11 DEF FlashNext, Writer

LEMMA FlashChanges ==
    ASSUME FlashIInv, RangeInv, [FlashNext]_cvars, job # Idle,
           NEW a \in Addr, flash'[a] # flash[a]
    PROVE  a \div SlotSize \in job.slots \/ SpillsInto(a) \/ ~plugged
<1>1. CASE EraseSector \/ WriteBlock \/ Returns
    BY <1>1, ChangesOwn
<1>2. CASE Plug
    BY <1>2 DEF Plug
<1>3. CASE flash' = flash
    BY <1>3
<1>4. Updater \/ Chacocmd => flash' = flash
    BY DEF Updater, UpdaterStart, UpdaterCard, UpdaterFlash, Open, Chacocmd, CmdStart, FlashRbf,
           FlashFile, EraseSlot, ReadFlash, OptionOnly, chameleon
<1>5. Exit \/ Unplug \/ SwapCard \/ UNCHANGED cvars => flash' = flash
    BY DEF Exit, Unplug, SwapCard, cvars, chameleon
<1> QED
    BY <1>1, <1>2, <1>3, <1>4, <1>5 DEF FlashNext, Writer, JobEnds, UpdaterEnds, World

(***************************************************************************)
(* With the programs of the command line alone (chacocmd.c, update.c):     *)
(* whatever they do and wherever they are cut off, chameleon_getcoreinfo   *)
(* finds only cores that are there up to the info block.                   *)
(***************************************************************************)
THEOREM CommandLineStatus == FlashSpec => []StatusIsTrue
<1>1. FlashInit => FlashIInv
    BY FlashInitInv
<1>2. FlashIInv /\ [FlashNext]_cvars => FlashIInv'
    BY FlashStep
<1>3. FlashIInv => StatusIsTrue
    BY GoodShowsTruth DEF FlashIInv
<1> QED
    BY <1>1, <1>2, <1>3, PTL DEF FlashSpec

-----------------------------------------------------------------------------
(***************************************************************************)
(* With the GUI among the programs.                                        *)
(***************************************************************************)
LockInv ==
    /\ prog = "wx" => (job # Idle <=> Locked)
    /\ prog # "wx" => stage = "none" /\ known = FALSE

VersionInv == known /\ link /\ prog = "wx" => chversion = version

WxIInv == FlashIInv /\ RangeInv /\ WxTypeOK /\ LockInv /\ VersionInv

LEMMA WxInitInv == WxInit => WxIInv
<1> SUFFICES ASSUME WxInit PROVE WxIInv
    OBVIOUS
<1>1. FlashIInv
    BY FlashInitInv DEF WxInit
<1> QED
    BY <1>1 DEF WxInit, FlashInit, WxIInv, RangeInv, WxTypeOK, LockInv, VersionInv, Locked

\* A step of the GUI thread, or of a task but FlashCore.
LEMMA WxQuiet ==
    ASSUME WxIInv, UNCHANGED <<flash, version, jobs, file, plugged, card, nocard>>,
           job' = job, prog' = prog \/ (prog = "none" /\ prog' = "wx"),
           link' = link \/ (~Locked /\ prog = "wx" /\ link' \in {plugged, FALSE})
    PROVE  FlashIInv' /\ RangeInv'
<1>1. FlashIInv /\ FlashTypeOK /\ LinkInv /\ RangeInv /\ LockInv
    BY DEF WxIInv, FlashIInv
<1>2. job # Idle => (link' => link)
    BY <1>1 DEF LockInv
<1>3. link' \in BOOLEAN /\ (link' => plugged') /\ (prog' = "none" => job' = Idle)
    <2>1. link' = link \/ link' = plugged \/ link' = FALSE
        OBVIOUS
    <2>2. plugged' = plugged /\ plugged \in BOOLEAN /\ link \in BOOLEAN /\ (link => plugged)
        BY <1>1 DEF FlashTypeOK, LinkInv
    <2>3. link' \in BOOLEAN /\ (link' => plugged')
        <3>1. CASE link' = link
            BY <2>2, <3>1
        <3>2. CASE link' = plugged
            BY <2>2, <3>2
        <3>3. CASE link' = FALSE
            BY <3>3
        <3> QED
            BY <2>1, <3>1, <3>2, <3>3
    <2>4. prog' = "none" => job' = Idle
        BY <1>1 DEF LinkInv
    <2> QED
        BY <2>3, <2>4
<1>4. FlashIInv'
    BY <1>1, <1>2, <1>3, QuietStep DEF FlashTypeOK
<1> QED
    BY <1>1, <1>4, RangeSame

LEMMA GuiStep ==
    ASSUME WxIInv, GuiThread
    PROVE  WxIInv'
<1> USE DEF chameleon, usb, tasks, widgets, Gui, GuiOnly
<1>0. WxTypeOK /\ FlashTypeOK /\ LinkInv /\ LockInv /\ VersionInv
    BY DEF WxIInv, FlashIInv
<1>1. CASE WxStart
    <2>1. FlashIInv' /\ RangeInv'
        BY <1>1, WxQuiet DEF WxStart
    <2>2. known' = FALSE /\ stage' = "none" /\ job' = Idle
        BY <1>0, <1>1 DEF WxStart, LockInv, LinkInv
    <2>3. WxTypeOK'
        BY <1>0, <1>1 DEF WxStart, WxTypeOK
    <2> QED
        BY <2>1, <2>2, <2>3 DEF WxIInv, LockInv, VersionInv, Locked
<1>2. CASE TickBusy
    <2>1. FlashIInv' /\ RangeInv'
        BY <1>2, WxQuiet DEF TickBusy
    <2> QED
        BY <1>0, <1>2, <2>1 DEF TickBusy, WxIInv, WxTypeOK, LockInv, VersionInv, Locked
<1>3. CASE TickIdle
    <2>1. FlashIInv' /\ RangeInv'
        BY <1>3, WxQuiet DEF TickIdle
    <2> QED
        BY <1>0, <1>3, <2>1 DEF TickIdle, WxIInv, WxTypeOK, LockInv, VersionInv, Locked
<1>4. CASE CheckChameleon
    <2>1. FlashIInv' /\ RangeInv'
        BY <1>4, WxQuiet DEF CheckChameleon
    <2> QED
        BY <1>0, <1>4, <2>1, ZenonT(60) DEF CheckChameleon, WxIInv, FlashTypeOK, WxTypeOK, LockInv, VersionInv, Locked
<1>5. CASE ChameleonInit
    <2>1. FlashIInv' /\ RangeInv'
        BY <1>5, WxQuiet DEF ChameleonInit
    <2> QED
        <3>1. CASE UNCHANGED <<present, link, known>> /\ found' = FALSE /\ gui' = "buttons"
            BY <1>0, <1>5, <2>1, <3>1
            DEF ChameleonInit, WxIInv, WxTypeOK, LockInv, VersionInv, Locked
        <3>2. CASE known' = FALSE /\ present' = link' /\ found' = (found /\ link')
                   /\ gui' \in {"version", "buttons"}
            <4>1. present' \in BOOLEAN /\ found' \in BOOLEAN
                BY <2>1, <3>2 DEF FlashIInv, FlashTypeOK
            <4>2. WxTypeOK'
                BY <1>0, <1>5, <3>2, <4>1 DEF ChameleonInit, WxTypeOK
            <4> QED
                BY <1>0, <1>5, <2>1, <3>2, <4>2 DEF ChameleonInit, WxIInv, LockInv, VersionInv, Locked
        <3> QED
            BY <1>5, <3>1, <3>2 DEF ChameleonInit
<1>6. CASE CheckVersion
    <2>1. FlashIInv' /\ RangeInv'
        BY <1>6, WxQuiet DEF CheckVersion
    <2> QED
        BY <1>0, <1>6, <2>1, ZenonT(60) DEF CheckVersion, WxIInv, WxTypeOK, LockInv, VersionInv, Locked
<1>7. CASE GetFlashID
    <2>1. FlashIInv' /\ RangeInv'
        BY <1>7, WxQuiet DEF GetFlashID
    <2> QED
        BY <1>0, <1>7, <2>1 DEF GetFlashID, WxIInv, FlashTypeOK, WxTypeOK, LockInv, VersionInv, Locked
<1>8. CASE Ready
    <2>1. FlashIInv' /\ RangeInv'
        BY <1>8, WxQuiet DEF Ready
    <2> QED
        BY <1>0, <1>8, <2>1 DEF Ready, WxIInv, WxTypeOK, LockInv, VersionInv, Locked
<1>9. CASE SetButtons
    <2>1. FlashIInv' /\ RangeInv'
        BY <1>9, WxQuiet DEF SetButtons
    <2> QED
        BY <1>0, <1>9, <2>1 DEF SetButtons, WxIInv, FlashTypeOK, WxTypeOK, LockInv, VersionInv, Locked
<1>10. CASE ClickUpdate
    <2>1. FlashIInv' /\ RangeInv'
        BY <1>10, WxQuiet DEF ClickUpdate, cvars
    <2> QED
        BY <1>0, <1>10, <2>1 DEF ClickUpdate, cvars, WxIInv, WxTypeOK, LockInv, VersionInv, Locked
<1>11. CASE Quit
    <2>1. FlashIInv'
        BY <1>0, <1>11, QuietStep DEF Quit, WxIInv, FlashTypeOK
    <2>2. RangeInv'
        BY <1>11, RangeSame DEF Quit, WxIInv
    <2> QED
        BY <1>0, <1>11, <2>1, <2>2 DEF Quit, WxIInv, WxTypeOK, LockInv, VersionInv
<1> QED
    BY <1>1, <1>2, <1>3, <1>4, <1>5, <1>6, <1>7, <1>8, <1>9, <1>10, <1>11 DEF GuiThread

LEMMA TaskStep ==
    ASSUME WxIInv, TaskThread
    PROVE  WxIInv'
<1> USE DEF chameleon, usb, tasks, widgets, Task, TaskOnly
<1>0. WxTypeOK /\ FlashIInv /\ FlashTypeOK /\ RangeInv /\ LinkInv /\ LockInv /\ VersionInv
    BY DEF WxIInv, FlashIInv
<1>1. ASSUME NEW t \in {"StartCH", "FlashCore"}, Take(t) PROVE WxIInv'
    <2>1. FlashIInv' /\ RangeInv'
        BY <1>1, WxQuiet DEF Take
    <2> QED
        BY <1>0, <1>1, <2>1 DEF Take, WxIInv, WxTypeOK, LockInv, VersionInv, Locked
<1>2. CASE StartCH
    <2>1. FlashIInv' /\ RangeInv'
        BY <1>2, WxQuiet DEF StartCH
    <2> QED
        BY <1>0, <1>2, <2>1 DEF StartCH, WxIInv, WxTypeOK, LockInv, VersionInv, Locked
<1>3. CASE CheckCard
    <2>1. FlashIInv' /\ RangeInv'
        BY <1>3, WxQuiet DEF CheckCard
    <2> QED
        BY <1>0, <1>3, <2>1 DEF CheckCard, WxIInv, WxTypeOK, LockInv, VersionInv, Locked
<1>4. CASE FlashNothing
    <2>1. FlashIInv' /\ RangeInv'
        BY <1>4, WxQuiet DEF FlashNothing
    <2> QED
        BY <1>0, <1>4, <2>1 DEF FlashNothing, WxIInv, WxTypeOK, LockInv, VersionInv, Locked
<1>5. CASE FlashEnds
    <2>1. flash' \in [Addr -> Cells] /\ AllGood(flash') /\ JobInv' /\ job' = Idle
        BY <1>0, <1>5, ReturnsStep DEF FlashEnds
    <2>2. FlashIInv'
        BY <1>0, <1>5, <2>1 DEF FlashEnds, FlashIInv, FlashTypeOK, FileGood, LinkInv
    <2>3. RangeInv'
        BY <1>0, <2>1, RangeSame
    <2> QED
        BY <1>0, <1>5, <2>1, <2>2, <2>3 DEF FlashEnds, WxIInv, WxTypeOK, LockInv, VersionInv, Locked
<1>6. ASSUME NEW i \in Images, FlashCore(i) PROVE WxIInv'
    <2>1. Order({0}, Base(0), SlotImage(i), i) /\ flash' = flash /\ 0 \in Slot /\ {0} \in SUBSET Slot
        BY <1>6, SlotBase DEF FlashCore
    <2>2. PICK n \in Nat : SlotImage(i) \in [0 .. n -> Cells]
        BY <2>1, ImageData DEF Order
    <2>3. /\ job' # Idle /\ \E m \in Addr : job' \in Jobs(m)
          /\ JobInv' /\ jobs' \in 0 .. MaxJobs
        BY <1>0, <2>1, <2>2, ImageIsGood, OrderStep
    <2>4. FlashIInv'
        BY <1>0, <1>6, <2>3 DEF FlashCore, FlashIInv, FlashTypeOK, FileGood, LinkInv
    <2>5. RangeInv'
        <3>1. Total(i) <= SlotSize + Info
            BY <1>6, ImageSize, FlashAssumption DEF FlashCore, Info
        <3> QED
            BY <2>1, <3>1, RangeImage
    <2> QED
        BY <1>0, <1>6, <2>3, <2>4, <2>5 DEF FlashCore, WxIInv, WxTypeOK, LockInv, VersionInv, Locked
<1> QED
    BY <1>1, <1>2, <1>3, <1>4, <1>5, <1>6 DEF TaskThread

LEMMA OtherStep ==
    ASSUME WxIInv, [FlashNext]_cvars, UNCHANGED wx
    PROVE  WxIInv'
<1> USE DEF chameleon, usb, tasks, widgets
<1>0. WxTypeOK /\ FlashIInv /\ FlashTypeOK /\ RangeInv /\ LinkInv /\ LockInv /\ VersionInv
    BY DEF WxIInv, FlashIInv
<1>1. FlashIInv' /\ RangeInv'
    BY <1>0, FlashStep, RangeStep
<1>2. WxTypeOK'
    BY <1>0 DEF wx, WxTypeOK
<1>3. stage' = stage /\ known' = known /\ chversion' = chversion
    BY DEF wx
<1>4. CASE prog = "wx"
    <2>1. EraseSector \/ WriteBlock \/ World \/ UNCHANGED cvars
        BY <1>4 DEF FlashNext, Writer, JobEnds, UpdaterEnds, Updater, UpdaterStart, UpdaterCard, Open,
                    UpdaterFlash, Chacocmd, CmdStart, FlashRbf, FlashFile, EraseSlot, ReadFlash,
                    Option, Exit
    <2>2. prog' = "wx" /\ (job' # Idle <=> job # Idle)
        <3>1. CASE EraseSector
            BY <1>0, <1>4, <3>1, EraseStep DEF EraseSector
        <3>2. CASE WriteBlock
            BY <1>0, <1>4, <3>2, WriteStep DEF WriteBlock
        <3>3. CASE World \/ UNCHANGED cvars
            BY <1>4, <3>3 DEF World, Unplug, Plug, SwapCard, cvars
        <3> QED
            BY <2>1, <3>1, <3>2, <3>3
    <2>3. link' => link /\ version' = version
        BY <1>0, <2>1 DEF EraseSector, WriteBlock, World, Unplug, Plug, SwapCard, cvars, LinkInv
    <2> QED
        BY <1>0, <1>1, <1>2, <1>3, <1>4, <2>2, <2>3 DEF WxIInv, LockInv, VersionInv, Locked
<1>5. CASE prog # "wx"
    <2>1. prog' # "wx"
        BY <1>5 DEF FlashNext, Writer, EraseSector, WriteBlock, JobEnds, UpdaterEnds, Updater,
                    UpdaterStart, UpdaterCard, Open, UpdaterFlash, Chacocmd, CmdStart, FlashRbf,
                    FlashFile, EraseSlot, ReadFlash, OptionOnly, Exit, World, Unplug, Plug, SwapCard, cvars
    <2> QED
        BY <1>0, <1>1, <1>2, <1>3, <1>5, <2>1 DEF WxIInv, LockInv, VersionInv
<1> QED
    BY <1>4, <1>5

LEMMA WxStep == WxIInv /\ [WxNext]_wvars => WxIInv'
<1>1. UNCHANGED wvars => UNCHANGED cvars /\ UNCHANGED wx
    BY DEF wvars
<1> QED
    BY <1>1, GuiStep, TaskStep, OtherStep DEF WxNext

(***************************************************************************)
(* Wherever flashing was cut off, by whatever program, chameleon_getcore-  *)
(* info finds only cores that are there up to their info block; and        *)
(* FlashCore writes under the lock.                                        *)
(***************************************************************************)
THEOREM WxInvariant == WxSpec => []WxInv
<1>1. WxIInv => WxInv
    BY GoodShowsTruth DEF WxIInv, FlashIInv, WxInv, FlashInv, LockInv
<1> QED
    BY <1>1, WxInitInv, WxStep, PTL DEF WxSpec

(***************************************************************************)
(* No program changes another slot than the one it was asked to, but for   *)
(* the images chacocmd.c and update.c let through without counting the     *)
(* info block.                                                             *)
(***************************************************************************)
THEOREM WxOthersKept == WxSpec => OthersKept
<1> DEFINE Kept == job # Idle => \A a \in Addr : flash'[a] # flash[a] =>
                       a \div SlotSize \in job.slots \/ SpillsInto(a) \/ ~plugged
<1>1. ASSUME WxIInv, [WxNext]_wvars, job # Idle, NEW a \in Addr, flash'[a] # flash[a]
      PROVE  a \div SlotSize \in job.slots \/ SpillsInto(a) \/ ~plugged
    <2>1. FlashIInv /\ RangeInv
        BY <1>1 DEF WxIInv
    <2>2. CASE [FlashNext]_cvars
        BY <1>1, <2>1, <2>2, FlashChanges
    <2>3. CASE FlashEnds
        BY <1>1, <2>1, <2>3, ChangesOwn DEF FlashEnds
    <2>4. GuiThread => flash' = flash
        BY DEF GuiThread, WxStart, TickBusy, TickIdle, CheckChameleon, ChameleonInit, CheckVersion,
               GetFlashID, Ready, SetButtons, ClickUpdate, Quit, GuiOnly, cvars, chameleon
    <2>5. TaskThread => flash' = flash \/ FlashEnds
        BY DEF TaskThread, Take, StartCH, CheckCard, FlashNothing, FlashCore, TaskOnly, chameleon
    <2> QED
        BY <1>1, <2>2, <2>3, <2>4, <2>5 DEF WxNext, wvars
<1>2. WxIInv /\ [WxNext]_wvars => Kept
    BY <1>1
<1>3. WxIInv /\ [WxNext]_wvars => [Kept]_cvars
    BY <1>2
<1> HIDE DEF Kept
<1>4. [][Kept]_cvars => OthersKept
    BY PTL DEF Kept, OthersKept
<1> QED
    BY <1>3, <1>4, WxInitInv, WxStep, PTL DEF WxSpec

(***************************************************************************)
(* The updaters write a core made for the Chameleon that is plugged in,    *)
(* and open no other while they write, as long as GetFlashID has answered  *)
(* since the updater with a GUI has opened the connection.                 *)
(***************************************************************************)
THEOREM WxRightCore == WxSpec => RightCore
<1> DEFINE Right == Updates => /\ job = Idle /\ link => ChosenRight
                               /\ job # Idle /\ link' => link
<1> USE DEF chameleon, usb, tasks, widgets
<1>1. ASSUME WxIInv, [WxNext]_wvars, Updates, job = Idle, link
      PROVE  ChosenRight
    <2>0. prog \in {"updater", "wx"} /\ job' # Idle /\ version \in {1, 2}
          /\ WxTypeOK /\ VersionInv /\ LockInv
        BY <1>1, FlashAssumption DEF Updates, WxIInv, FlashIInv, FlashTypeOK
    <2>1. ASSUME NEW i \in Images, UpdaterFlash(i) PROVE ChosenRight
        <3>1. job'.image = i
            BY <2>1 DEF UpdaterFlash, Order
        <3> QED
            BY <1>1, <2>1, <3>1 DEF UpdaterFlash, findcore, ChosenRight
    <2>2. ASSUME NEW i \in Images, FlashCore(i) PROVE ChosenRight
        <3>1. job'.image = i
            BY <2>2 DEF FlashCore, Order
        <3>2. Hardware[i] = version \/ known # TRUE
            <4>1. /\ prog = "wx"
                  /\ Hardware[i] = (IF chversion < 2 THEN 1 ELSE 2)
                BY <2>2 DEF FlashCore, Task
            <4>2. SUFFICES ASSUME known = TRUE PROVE Hardware[i] = version
                OBVIOUS
            <4>3. chversion = version
                BY <1>1, <2>0, <4>1, <4>2 DEF VersionInv
            <4> QED
                BY <2>0, <4>1, <4>3
        <3> QED
            BY <2>0, <2>2, <3>1, <3>2 DEF FlashCore, Task, ChosenRight, WxTypeOK
    <2>3. CASE [FlashNext]_cvars
        <3>1. \E i \in Images : UpdaterFlash(i)
            BY <1>1, <2>0, <2>3
            DEF FlashNext, Writer, EraseSector, WriteBlock, JobEnds, UpdaterEnds, Returns, Updater,
                UpdaterStart, UpdaterCard, Open, Chacocmd, CmdStart, FlashRbf, FlashFile, EraseSlot,
                ReadFlash, Option, Exit, World, Unplug, Plug, SwapCard, cvars
        <3> QED
            BY <2>1, <3>1
    <2>4. CASE GuiThread
        BY <1>1, <2>0, <2>4
        DEF GuiThread, WxStart, TickBusy, TickIdle, CheckChameleon, ChameleonInit, CheckVersion,
            GetFlashID, Ready, SetButtons, ClickUpdate, Quit, GuiOnly, cvars
    <2>5. CASE TaskThread
        <3>1. \E i \in Images : FlashCore(i)
            BY <1>1, <2>0, <2>5
            DEF TaskThread, Take, StartCH, CheckCard, FlashNothing, FlashEnds, Returns
        <3> QED
            BY <2>2, <3>1
    <2> QED
        BY <1>1, <2>3, <2>4, <2>5 DEF WxNext, wvars
<1>2. ASSUME WxIInv, [WxNext]_wvars, job # Idle, link'
      PROVE  link
    <2>0. FlashTypeOK /\ LinkInv /\ LockInv
        BY <1>2 DEF WxIInv, FlashIInv
    <2>1. CASE [FlashNext]_cvars
        BY <1>2, <2>0, <2>1
        DEF FlashNext, Writer, EraseSector, WriteBlock, JobEnds, UpdaterEnds, Updater, UpdaterStart,
            UpdaterCard, Open, UpdaterFlash, Chacocmd, CmdStart, FlashRbf, FlashFile, EraseSlot,
            ReadFlash, OptionOnly, Exit, World, Unplug, Plug, SwapCard, cvars, LinkInv
    <2>2. CASE ChameleonInit
        BY <1>2, <2>0, <2>2 DEF ChameleonInit, Gui, LockInv
    <2>3. CASE GuiThread /\ ~ChameleonInit
        BY <1>2, <2>3
        DEF GuiThread, WxStart, TickBusy, TickIdle, CheckChameleon, CheckVersion, GetFlashID,
            Ready, SetButtons, ClickUpdate, Quit, cvars
    <2>4. CASE TaskThread
        BY <1>2, <2>4 DEF TaskThread, Take, StartCH, CheckCard, FlashNothing, FlashEnds, FlashCore,
                          TaskOnly
    <2> QED
        BY <1>2, <2>1, <2>2, <2>3, <2>4 DEF WxNext, wvars
<1>3. WxIInv /\ [WxNext]_wvars => [Right]_wvars
    BY <1>1, <1>2
<1> HIDE DEF Right
<1>4. [][Right]_wvars => RightCore
    BY PTL DEF Right, RightCore
<1> QED
    BY <1>3, <1>4, WxInitInv, WxStep, PTL DEF WxSpec

=============================================================================
