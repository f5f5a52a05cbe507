--------------------------- MODULE ChacoLibProofs ---------------------------
(***************************************************************************)
(* Proofs about chacolib, for every size of block, sector, flash and RAM,  *)
(* all calls and any number of lost frames, late answers and pulled        *)
(* cables: fpgarunning is right as long as nobody could have noticed that  *)
(* it is not, what a call reports is so, and eraseflash and writeflash     *)
(* implement FlashStore.                                                   *)
(***************************************************************************)
EXTENDS ChacoLib, SequenceTheorems, TLAPS

\* Whole blocks; blocks divide a sector.
Whole(n) == \E m \in 0 .. n : n = m * Block

(***************************************************************************)
(* Where a call can be.                                                    *)
(***************************************************************************)
StepsOf(call) ==
    CASE call = "erase" -> {"reset", "pointer", "erase", "eraseAck"}
      [] call = "write" -> {"reset", "pointer", "erase", "eraseAck", "data", "dataAck"}
      [] call = "read" -> {"reset", "pointer", "fetch", "fetchAck"}
      [] call = "flashid" -> {"reset", "ask", "askAck"}
      [] call = "status" -> {"pointer", "ask", "askAck"}
      [] call = "readmem" -> {"mem", "memAck"}
      [] call = "writemem" -> {"start", "startAck", "poke", "pokeAck", "stop", "stopAck"}
      [] OTHER -> {"ask", "askAck"}

Place ==
    step # "idle" => job \in Jobs /\ step \in StepsOf(job.call) /\ ~BadArguments(job)

\* A handle that works is one of a Chameleon that is there.
Handle == handle = "good" => plugged

\* What a call that began with an empty endpoint finds there.
Endpoint ==
    clean /\ step # "idle" =>
        inbox = <<>> \/ (step \in Acks /\ Len(inbox) = 1)

\* How far a call is in its data.
Position ==
    /\ step \in {"reset", "pointer", "ask", "askAck", "erase", "eraseAck", "start", "startAck"} =>
          pos = 0
    /\ step \in {"reset", "pointer"} => sec = 0
    /\ step = "erase" => sec <= Sectors
    /\ step = "eraseAck" => sec < Sectors
    /\ step \in {"data", "dataAck", "fetch", "fetchAck"} => Whole(pos)
    /\ step \in {"data", "mem", "poke"} => pos <= job.size
    /\ step = "fetch" => pos < job.size + Block
    /\ step \in {"dataAck", "fetchAck", "memAck", "pokeAck"} => pos < job.size
    /\ step \in {"stop", "stopAck"} => pos = job.size
    /\ step \in {"reset", "pointer", "fetch", "fetchAck", "mem", "memAck"} => Len(buf) = pos

Bases == Place /\ Handle /\ Endpoint /\ Position

(***************************************************************************)
(* What has come of it, if it is clean.                                    *)
(***************************************************************************)
FlashCalls == FlashJobs \cup {"read"}

\* A flash command does not meet a running FPGA.
Stopped ==
    clean /\ handle = "good" /\ job.call \in FlashCalls /\ step \notin {"idle", "reset"} => ~dev.fpga

ErasedTo(n) == \A k \in 0 .. n - 1 : dev.flash[job.base + k] = FF

Erasing ==
    /\ clean /\ step = "erase" => dev.wptr = job.base /\ ErasedTo(Sector * sec)
    /\ clean /\ step = "eraseAck" =>
          /\ dev.wptr = job.base /\ ErasedTo(Sector * sec)
          /\ inbox # <<>> /\ inbox[1][0] # FF => ErasedTo(Sector * (sec + 1))

WrittenTo(n) ==
    \A k \in 0 .. job.size - 1 : dev.flash[job.base + k] = IF k < n THEN job.data[k] ELSE FF

Writing ==
    /\ clean /\ step = "data" => dev.wptr = job.base + pos /\ WrittenTo(pos)
    /\ clean /\ step = "dataAck" /\ inbox # <<>> =>
          dev.wptr = job.base + pos + Block /\ WrittenTo(pos + Block)

FetchedTo(n) ==
    \A k \in 1 .. n : job.base + k - 1 \in Addr => buf[k] = dev.flash[job.base + k - 1]

Fetching ==
    /\ clean /\ step \in {"fetch", "fetchAck"} => FetchedTo(pos)
    /\ clean /\ step = "fetch" => dev.rptr = job.base + pos
    /\ clean /\ step = "fetchAck" /\ inbox # <<>> =>
          /\ dev.rptr = job.base + pos + Block
          /\ \A k \in Frame : job.base + pos + k \in Addr =>
                inbox[1][k] = dev.flash[job.base + pos + k]

LoadedTo(n) ==
    \A k \in 1 .. n : job.base + k - 1 \in MemAddr => buf[k] = dev.ram[job.base + k - 1]

Loading ==
    /\ clean /\ step \in {"mem", "memAck"} => LoadedTo(pos)
    /\ clean /\ step = "memAck" /\ inbox # <<>> =>
          \A k \in Frame : job.base + pos + k \in MemAddr =>
                inbox[1][k] = dev.ram[job.base + pos + k]

PokedTo(n) ==
    \A k \in 0 .. n - 1 : job.base + k \in MemAddr => dev.ram[job.base + k] = job.data[k]

Poking ==
    /\ clean /\ step = "startAck" /\ inbox # <<>> => dev.mptr = job.base
    /\ clean /\ step = "poke" => dev.mptr = job.base + pos /\ PokedTo(pos)
    /\ clean /\ step = "pokeAck" /\ inbox # <<>> =>
          dev.mptr = job.base + pos + Size /\ PokedTo(pos + Size)
    /\ clean /\ step \in {"stop", "stopAck"} => PokedTo(job.size)

Outcome == Stopped /\ Erasing /\ Writing /\ Fetching /\ Loading /\ Poking /\ DataArrives

IInv == LibInv /\ Bases /\ Outcome

-----------------------------------------------------------------------------
(***************************************************************************)
(* Blocks and sectors.                                                     *)
(***************************************************************************)
LEMMA Sizes ==
    /\ Block \in Nat /\ Block >= 2
    /\ Sector \in Nat /\ Sector > 0
    /\ FlashSize \in Nat /\ MemSize \in Nat
    /\ FF \in Values /\ Junk \in Values /\ Bytes \subseteq Values /\ FF # Junk
    /\ 0 \in Frame /\ 1 \in Frame
BY ChacoLibAssumption DEF FlashSize, Values, Frame

LEMMA WholeStart == Whole(0)
<1>1. 0 = 0 * Block /\ 0 \in 0 .. 0
    BY Sizes
<1> QED
    BY <1>1 DEF Whole

LEMMA WholeNext ==
    ASSUME NEW m \in Nat, NEW n \in Nat, Whole(m), Whole(n)
    PROVE  Whole(m + n)
<1>1. PICK i \in 0 .. m : m = i * Block
    BY DEF Whole
<1>2. PICK j \in 0 .. n : n = j * Block
    BY DEF Whole
<1>3. (i + j) * Block = i * Block + j * Block
    BY Sizes
<1>4. i + j \in 0 .. m + n /\ m + n = (i + j) * Block
    BY <1>1, <1>2, <1>3
<1> QED
    BY <1>4 DEF Whole

LEMMA WholeBlock == Whole(Block)
<1>1. Block = 1 * Block /\ 1 \in 0 .. Block
    BY Sizes
<1> QED
    BY <1>1 DEF Whole

\* Between whole blocks there is room for one.
LEMMA WholeRoom ==
    ASSUME NEW m \in Nat, NEW n \in Nat, Whole(m), Whole(n), m < n
    PROVE  m + Block <= n
<1>1. PICK i \in 0 .. m : m = i * Block
    BY DEF Whole
<1>2. PICK j \in 0 .. n : n = j * Block
    BY DEF Whole
<1>3. i \in Nat /\ j \in Nat /\ Block \in Nat
    BY Sizes
<1>4. i < j
    <2>1. SUFFICES ASSUME j <= i PROVE FALSE
        BY <1>3
    <2>2. i = j + (i - j) /\ i - j \in Nat
        BY <1>3, <2>1
    <2>3. i * Block = j * Block + (i - j) * Block /\ (i - j) * Block >= 0
        BY <1>3, <2>2
    <2> QED
        BY <1>1, <1>2, <1>3, <2>3
<1>5. j = i + 1 + (j - i - 1) /\ j - i - 1 \in Nat
    BY <1>3, <1>4
<1>6. j * Block = i * Block + Block + (j - i - 1) * Block /\ (j - i - 1) * Block >= 0
    BY <1>3, <1>5
<1> QED
    BY <1>1, <1>2, <1>3, <1>6

\* What is left of a run when it is cut to whole blocks.
LEMMA WholeCut ==
    ASSUME NEW n \in Nat
    PROVE  n - (n % Block) \in 0 .. n /\ Whole(n - (n % Block))
<1>1. /\ n \div Block \in Nat /\ n % Block \in 0 .. Block - 1
      /\ n = Block * (n \div Block) + (n % Block)
    BY Sizes
<1> DEFINE q == n \div Block
<1>2. n - (n % Block) = q * Block /\ q * Block \in Nat /\ q \in Nat
    BY <1>1, Sizes
<1>3. q <= q * Block
    <2>0. q \in Nat
        BY <1>2
    <2> HIDE DEF q
    <2>1. q * Block = q + q * (Block - 1) /\ q * (Block - 1) >= 0
        BY <2>0, Sizes
    <2> QED
        BY <2>0, <2>1, Sizes
<1> HIDE DEF q
<1>4. n - (n % Block) \in 0 .. n
    BY <1>1, <1>2
<1> QED
    BY <1>2, <1>3, <1>4 DEF Whole

\* A flash job lies in the flash, and consists of whole sectors and blocks.
LEMMA JobSectors ==
    ASSUME NEW n \in Nat, n % Sector = 0
    PROVE  /\ n \div Sector \in Nat /\ n = Sector * (n \div Sector)
           /\ Whole(n)
<1>1. /\ n \div Sector \in Nat /\ n % Sector \in 0 .. Sector - 1
      /\ n = Sector * (n \div Sector) + (n % Sector)
    BY Sizes
<1> DEFINE q == n \div Sector
<1>2. q \in Nat /\ n = Sector * q
    BY <1>1, Sizes
<1>3. PICK i \in 0 .. Sector : Sector = i * Block
    BY ChacoLibAssumption
<1> HIDE DEF q
<1>4. i \in Nat /\ Block \in Nat /\ Sector \in Nat /\ Block >= 2
    BY <1>3, Sizes
<1>5. n = (i * q) * Block /\ i * q \in Nat
    BY <1>2, <1>3, <1>4
<1>6. i * q <= (i * q) * Block
    <2> DEFINE r == i * q
    <2>0. r \in Nat
        BY <1>5
    <2> HIDE DEF r
    <2>1. r * Block = r + r * (Block - 1) /\ r * (Block - 1) >= 0
        BY <2>0, <1>4
    <2>2. r <= r * Block
        BY <2>0, <2>1, <1>4
    <2> QED
        BY <2>2 DEF r
<1>7. Whole(n)
    BY <1>5, <1>6 DEF Whole
<1> QED
    BY <1>2, <1>7 DEF q

LEMMA SectorRoom ==
    ASSUME NEW s \in Nat, NEW t \in Nat, s < t
    PROVE  /\ Sector * s \in Nat /\ Sector * (s + 1) = Sector * s + Sector
           /\ Sector * s + Sector <= Sector * t
<1>1. t = s + 1 + (t - s - 1) /\ t - s - 1 \in Nat
    OBVIOUS
<1>2. Sector * t = Sector * s + Sector + Sector * (t - s - 1) /\ Sector * (t - s - 1) >= 0
    BY <1>1, Sizes
<1> QED
    BY <1>2, Sizes

-----------------------------------------------------------------------------
(***************************************************************************)
(* Calls and the Chameleon.                                                *)
(***************************************************************************)
Devices == [fpga : BOOLEAN, rptr : Nat, wptr : Nat, mptr : Nat,
            flash : [Addr -> Values], ram : [MemAddr -> Values]]
Answers == [Frame -> Values \cup {Echo}]

LEMMA JobFacts ==
    ASSUME job \in Jobs
    PROVE  /\ job.call \in Calls /\ job.base \in Nat /\ job.size \in Nat
           /\ job.call \in {"write", "writemem"} => job.data \in [0 .. job.size - 1 -> Bytes]
           /\ job.call \in FlashJobs => job.base + job.size <= FlashSize
BY JobsAssumption

LEMMA FlashJob ==
    ASSUME Place, step # "idle", job.call \in FlashJobs
    PROVE  /\ job.base \in Nat /\ job.size \in Nat /\ job.size > 0
           /\ job.base + job.size <= FlashSize
           /\ Sectors \in Nat /\ Sectors > 0 /\ job.size = Sector * Sectors
           /\ job.base \div Sector \in Nat /\ job.base = Sector * (job.base \div Sector)
           /\ Whole(job.size)
<1>1. /\ job.base \in Nat /\ job.size \in Nat /\ job.base + job.size <= FlashSize
    BY JobFacts DEF Place
<1>2. job.base % Sector = 0 /\ job.size % Sector = 0 /\ ~(job.size < Sector)
    BY DEF Place, BadArguments
<1>3. job.size > 0
    BY <1>1, <1>2, Sizes
<1>4. job.size \div Sector \in Nat /\ job.size = Sector * (job.size \div Sector) /\ Whole(job.size)
    BY <1>1, <1>2, JobSectors
<1>5. job.base \div Sector \in Nat /\ job.base = Sector * (job.base \div Sector)
    BY <1>1, <1>2, JobSectors
<1> DEFINE q == job.size \div Sector
<1>6. q \in Nat /\ job.size = Sector * q
    BY <1>4
<1>7. q > 0
    <2> HIDE DEF q
    <2>1. q = 0 => Sector * q = 0
        BY Sizes
    <2> QED
        BY <1>3, <1>6, <2>1
<1> QED
    BY <1>1, <1>3, <1>4, <1>5, <1>7 DEF Sectors

\* What the commands do to the Chameleon.
LEMMA EraseEffect ==
    ASSUME NEW d \in Devices, NEW s \in Nat
    PROVE  /\ EraseSector(d, s) \in Devices
           /\ EraseSector(d, s).fpga = d.fpga /\ EraseSector(d, s).wptr = d.wptr
           /\ \A a \in Addr : EraseSector(d, s).flash[a] =
                 IF ~d.fpga /\ Sector * s <= a /\ a < Sector * s + Sector THEN FF ELSE d.flash[a]
BY Sizes DEF EraseSector, Devices

LEMMA ProgramEffect ==
    ASSUME NEW d \in Devices, NEW b \in [Frame -> Values]
    PROVE  /\ Program(d, b) \in Devices
           /\ Program(d, b).fpga = d.fpga /\ Program(d, b).wptr = d.wptr + Block
           /\ \A a \in Addr : Program(d, b).flash[a] =
                 IF ~d.fpga /\ d.wptr <= a /\ a < d.wptr + Block
                 THEN Burn(d.flash[a], b[a - d.wptr]) ELSE d.flash[a]
<1> DEFINE F == [a \in Addr |-> IF ~d.fpga /\ d.wptr <= a /\ a < d.wptr + Block
                               THEN Burn(d.flash[a], b[a - d.wptr]) ELSE d.flash[a]]
<1>1. \A v, w \in Values : Burn(v, w) \in Values
    BY Sizes DEF Burn
<1>2. F \in [Addr -> Values]
    <2> SUFFICES ASSUME NEW a \in Addr PROVE F[a] \in Values
        OBVIOUS
    <2>1. d.flash[a] \in Values /\ d.wptr \in Nat /\ a \in Int
        BY Sizes DEF Devices, Addr
    <2>2. CASE ~d.fpga /\ d.wptr <= a /\ a < d.wptr + Block
        <3>1. b[a - d.wptr] \in Values
            BY <2>1, <2>2, Sizes DEF Frame
        <3> QED
            BY <1>1, <2>1, <2>2, <3>1
    <2> QED
        BY <2>1, <2>2
<1>3. Program(d, b) = [d EXCEPT !.wptr = d.wptr + Block, !.flash = F]
    BY DEF Program
<1> HIDE DEF F
<1>4. d.wptr + Block \in Nat
    BY Sizes DEF Devices
<1>5. /\ Program(d, b) \in Devices /\ Program(d, b).fpga = d.fpga
      /\ Program(d, b).wptr = d.wptr + Block /\ Program(d, b).flash = F
    BY <1>2, <1>3, <1>4 DEF Devices
<1> QED
    BY <1>5 DEF F

LEMMA PokeEffect ==
    ASSUME NEW d \in Devices, NEW n \in 0 .. Block, NEW b \in [Frame -> Values]
    PROVE  /\ Poke(d, n, b) \in Devices
           /\ Poke(d, n, b).fpga = d.fpga /\ Poke(d, n, b).mptr = d.mptr + n
           /\ Poke(d, n, b).flash = d.flash
           /\ \A a \in MemAddr : Poke(d, n, b).ram[a] =
                 IF d.mptr <= a /\ a < d.mptr + n THEN b[a - d.mptr] ELSE d.ram[a]
<1> DEFINE F == [a \in MemAddr |-> IF d.mptr <= a /\ a < d.mptr + n
                                  THEN b[a - d.mptr] ELSE d.ram[a]]
<1>2. F \in [MemAddr -> Values]
    <2> SUFFICES ASSUME NEW a \in MemAddr PROVE F[a] \in Values
        OBVIOUS
    <2>1. d.ram[a] \in Values /\ d.mptr \in Nat /\ a \in Int
        BY Sizes DEF Devices, MemAddr
    <2>2. CASE d.mptr <= a /\ a < d.mptr + n
        <3>1. b[a - d.mptr] \in Values
            BY <2>1, <2>2, Sizes DEF Frame
        <3> QED
            BY <2>1, <2>2, <3>1
    <2> QED
        BY <2>1, <2>2
<1>3. Poke(d, n, b) = [d EXCEPT !.mptr = d.mptr + n, !.ram = F]
    BY DEF Poke
<1> HIDE DEF F
<1>4. d.mptr + n \in Nat
    BY Sizes DEF Devices
<1>5. /\ Poke(d, n, b) \in Devices /\ Poke(d, n, b).fpga = d.fpga
      /\ Poke(d, n, b).mptr = d.mptr + n /\ Poke(d, n, b).flash = d.flash /\ Poke(d, n, b).ram = F
    BY <1>2, <1>3, <1>4 DEF Devices
<1> QED
    BY <1>5 DEF F

-----------------------------------------------------------------------------
(***************************************************************************)
(* Frames.                                                                 *)
(***************************************************************************)
\* A step of a call to where it waits for an answer.
LEMMA Requests ==
    ASSUME TypeOK, Endpoint, step \notin Acks, step # "idle",
           NEW after \in Devices, NEW answer \in Answers, NEW next, Request(after, answer, next)
    PROVE  /\ step' = next /\ UNCHANGED <<handle, job, pos, sec, buf, result, plugged, used>>
           /\ faults' \in Nat /\ own' \in BOOLEAN /\ inbox' \in Seq(Answers)
           /\ \/ handle = "good" /\ plugged /\ dev' = after
              \/ dev' = dev
           /\ clean /\ inbox' # <<>> =>
                 handle = "good" /\ dev' = after /\ inbox' = <<answer>>
           /\ clean => inbox' = <<>> \/ Len(inbox') = 1
<1>1. PICK arrives \in BOOLEAN :
        /\ Writes(arrives)
        /\ IF arrives THEN dev' = after /\ inbox' = Append(inbox, answer)
                      ELSE UNCHANGED <<dev, inbox>>
        /\ own' = arrives
        /\ step' = next
        /\ UNCHANGED <<handle, job, pos, sec, buf, result, plugged, used>>
    BY DEF Request
<1>2. faults' \in Nat /\ (arrives => handle = "good" /\ plugged)
    BY <1>1 DEF Writes, Linked, TypeOK
<1>3. inbox' \in Seq(Answers)
    <2>1. inbox \in Seq(Answers)
        BY DEF TypeOK, Answers
    <2>2. Append(inbox, answer) \in Seq(Answers)
        BY <2>1
    <2> QED
        BY <1>1, <2>1, <2>2
<1>4. clean => inbox = <<>>
    BY DEF Endpoint
<1>5. clean => inbox' = IF arrives THEN <<answer>> ELSE <<>>
    BY <1>1, <1>4
<1>6. CASE arrives
    BY <1>1, <1>2, <1>3, <1>5, <1>6
<1>7. CASE ~arrives
    BY <1>1, <1>2, <1>3, <1>5, <1>7
<1> QED
    BY <1>6, <1>7

\* One that is not answered.
LEMMA Tells ==
    ASSUME TypeOK, NEW after, NEW next, Tell(after, next)
    PROVE  /\ step' = next
           /\ UNCHANGED <<handle, cache, job, sec, buf, result, inbox, own, plugged, used, told>>
           /\ faults' \in Nat /\ clean' \in BOOLEAN
           /\ \/ handle = "good" /\ plugged /\ dev' = after /\ clean' = clean
              \/ dev' = dev /\ ~clean'
<1>1. PICK arrives \in BOOLEAN :
        /\ Writes(arrives)
        /\ dev' = IF arrives THEN after ELSE dev
        /\ clean' = (clean /\ arrives)
        /\ step' = next
        /\ UNCHANGED <<handle, cache, job, sec, buf, result, inbox, own, plugged, used, told>>
    BY DEF Tell
<1>2. faults' \in Nat /\ (arrives => handle = "good" /\ plugged)
    BY <1>1 DEF Writes, Linked, TypeOK
<1>3. CASE arrives
    BY <1>1, <1>2, <1>3 DEF TypeOK
<1>4. CASE ~arrives
    BY <1>1, <1>2, <1>4 DEF TypeOK
<1> QED
    BY <1>3, <1>4

\* An answer is taken.
LEMMA Takes ==
    ASSUME TypeOK, Endpoint, step # "idle", Take
    PROVE  /\ inbox # <<>> /\ Answer = inbox[1] /\ inbox[1] \in Answers
           /\ inbox' \in Seq(Answers)
           /\ clean => inbox' = <<>>
<1>1. inbox \in Seq(Answers) /\ inbox # <<>> /\ inbox' = Tail(inbox)
    BY DEF TypeOK, Answers, Take
<1>2. Head(inbox) = inbox[1] /\ inbox[1] \in Answers /\ inbox' \in Seq(Answers)
    BY <1>1
<1>3. clean => Len(inbox) = 1
    BY <1>1 DEF Endpoint
<1>4. ASSUME clean PROVE inbox' = <<>>
    <2>1. Len(inbox) = 1
        BY <1>3, <1>4
    <2>2. Tail(inbox) = <<>>
        BY <1>1, <2>1, EmptySeq, HeadTailProperties
    <2> QED
        BY <1>1, <2>2
<1>5. clean => inbox' = <<>>
    BY <1>4
<1> QED
    BY <1>1, <1>2, <1>5 DEF Answer

(***************************************************************************)
(* Steps that end a call, and those at the edge of calls.                  *)
(***************************************************************************)
LEMMA Ends ==
    ASSUME IInv, step' = "idle", TypeOK', CacheTells', Handle', DataArrives'
    PROVE  IInv'
BY DEF IInv, LibInv, Bases, Place, Handle, Endpoint, Position, Outcome, Stopped, Erasing, Writing,
       Fetching, Loading, Poking, Acks

LEMMA Errors ==
    ASSUME IInv, step' = "idle", result' = "error", TypeOK',
           UNCHANGED <<handle, cache, dev, told, plugged>>
    PROVE  IInv'
<1>1. CacheTells' /\ Handle'
    BY DEF IInv, LibInv, Bases, CacheTells, Handle
<1>2. DataArrives'
    BY DEF DataArrives, Reported
<1> QED
    BY <1>1, <1>2, Ends

LEMMA TimesOutStep ==
    ASSUME IInv, ReadTimesOut
    PROVE  IInv'
<1>1. step' = "idle" /\ result' = "error"
      /\ UNCHANGED <<handle, cache, job, pos, sec, buf, inbox, own, plugged, dev, used, told, clean>>
    BY DEF ReadTimesOut, Return
<1>2. faults' \in Nat
    BY DEF ReadTimesOut, IInv, LibInv, TypeOK
<1>3. TypeOK'
    BY <1>1, <1>2 DEF IInv, LibInv, TypeOK, Steps
<1> QED
    BY <1>1, <1>3, Errors

LEMMA CallStep ==
    ASSUME IInv, NEW j \in Jobs, Call(j)
    PROVE  IInv'
<1>1. /\ job' = j /\ pos' = 0 /\ sec' = 0 /\ buf' = <<>> /\ clean' = (inbox = <<>>)
      /\ used' = used + 1 /\ step = "idle"
      /\ UNCHANGED <<handle, cache, inbox, own, plugged, dev, faults, told>>
      /\ IF BadArguments(j) THEN step' = "idle" /\ result' = "error"
                            ELSE step' = First(j.call) /\ result' = result
    BY DEF Call, Return, Goto, link
<1>2. j.call \in Calls /\ j.size \in Nat
    BY JobsAssumption
<1>3. step' \in Steps
    BY <1>1, <1>2 DEF First, Calls, Single, FlashJobs, Steps
<1>4. TypeOK'
    BY <1>1, <1>3 DEF IInv, LibInv, TypeOK
<1>5. CASE BadArguments(j)
    BY <1>1, <1>4, <1>5, Errors
<1>6. CASE ~BadArguments(j)
    <2>1. /\ step' = First(j.call) /\ result' = result
          /\ step' \in {"reset", "pointer", "ask", "mem", "start"} /\ step' \in StepsOf(j.call)
        BY <1>1, <1>2, <1>6 DEF First, Calls, Single, FlashJobs, StepsOf
    <2>2. Bases'
        <3>1. Place'
            BY <1>1, <1>6, <2>1 DEF Place, BadArguments
        <3>2. Handle' /\ Endpoint'
            BY <1>1, <1>4 DEF IInv, Bases, Handle, Endpoint
        <3>3. Position'
            BY <1>1, <1>2, <2>1 DEF Position
        <3> QED
            BY <3>1, <3>2, <3>3 DEF Bases
    <2>3. LibInv'
        BY <1>1, <1>4 DEF IInv, LibInv, CacheTells
    <2>4. CASE j.call \in FlashJobs \cup {"read"}
        BY <1>1, <2>1, <2>2, <2>3, <2>4 DEF IInv, Outcome, Stopped, Erasing, Writing, Fetching, Loading,
           Poking, DataArrives, Reported, StepsOf, First, FlashJobs
    <2>5. CASE j.call \notin FlashJobs \cup {"read"}
        BY <1>1, <2>1, <2>2, <2>3, <2>5 DEF IInv, Outcome, Stopped, Erasing, Writing, Fetching, Loading,
           Poking, DataArrives, Reported, FlashCalls, LoadedTo
    <2> QED
        BY <2>4, <2>5
<1> QED
    BY <1>5, <1>6

-----------------------------------------------------------------------------
(***************************************************************************)
(* What all requests, all answers and all announcements have in common.    *)
(***************************************************************************)
LEMMA CallOf ==
    ASSUME Place, step # "idle"
    PROVE  /\ step \in {"erase", "eraseAck"} => job.call \in FlashJobs
           /\ step \in {"data", "dataAck"} => job.call = "write"
           /\ step \in {"fetch", "fetchAck"} => job.call = "read"
           /\ step \in {"mem", "memAck"} => job.call = "readmem"
           /\ step \in {"start", "startAck", "poke", "pokeAck", "stop", "stopAck"} => job.call = "writemem"
           /\ step \in {"ask", "askAck"} => job.call \notin FlashCalls \cup {"readmem", "writemem"}
           /\ step = "reset" => job.call \in FlashCalls \cup {"flashid"}
           /\ step = "pointer" => job.call \in FlashCalls \cup {"status"}
<1>1. job.call \in Calls /\ step \in StepsOf(job.call)
    BY JobFacts DEF Place
<1> QED
    BY <1>1 DEF StepsOf, Calls, Single, FlashCalls, FlashJobs

LEMMA StepsOfSteps == \A call : StepsOf(call) \subseteq Steps
BY DEF StepsOf, Steps, Acks

LEMMA SendsStep ==
    ASSUME IInv, step \notin Acks \cup {"idle", "reset"},
           NEW after \in Devices, after.fpga = dev.fpga, NEW answer \in Answers,
           NEW next \in Acks, next \in StepsOf(job.call), Sends(after, answer, next)
    PROVE  /\ LibInv' /\ Place' /\ Handle' /\ Endpoint' /\ Stopped'
           /\ step' = next /\ UNCHANGED <<handle, job, pos, sec, buf, result, clean>>
           /\ dev' \in {dev, after}
           /\ clean' /\ inbox' # <<>> => handle = "good" /\ dev' = after /\ inbox' = <<answer>>
<1>1. TypeOK /\ Endpoint /\ CacheTells /\ Place /\ Handle /\ Stopped
    BY DEF IInv, LibInv, Bases, Outcome
<1>2. Request(after, answer, next) /\ UNCHANGED <<cache, told, clean>>
    BY DEF Sends
<1>3. /\ step' = next /\ UNCHANGED <<handle, job, pos, sec, buf, result, plugged, used>>
      /\ faults' \in Nat /\ own' \in BOOLEAN /\ inbox' \in Seq(Answers)
      /\ dev' \in {dev, after}
      /\ clean /\ inbox' # <<>> => handle = "good" /\ dev' = after /\ inbox' = <<answer>>
      /\ clean => inbox' = <<>> \/ Len(inbox') = 1
    BY <1>1, <1>2, Requests
<1>4. dev' \in Devices /\ dev'.fpga = dev.fpga
    BY <1>1, <1>3 DEF TypeOK, Devices
<1>5. TypeOK'
    BY <1>1, <1>2, <1>3, <1>4 DEF TypeOK, Devices, Answers, Steps
<1>6. CacheTells'
    BY <1>1, <1>2, <1>4 DEF CacheTells
<1>7. Place'
    BY <1>1, <1>3 DEF Place, BadArguments
<1>8. Handle' /\ Endpoint'
    BY <1>1, <1>2, <1>3 DEF Handle, Endpoint
<1>9. Stopped'
    BY <1>1, <1>2, <1>3, <1>4 DEF Stopped
<1> QED
    BY <1>2, <1>3, <1>5, <1>6, <1>7, <1>8, <1>9 DEF LibInv

LEMMA TakesStep ==
    ASSUME IInv, step \notin {"idle", "reset"}, Take, step' \in StepsOf(job.call),
           UNCHANGED <<handle, cache, job, own, plugged, dev, faults, used, told, clean>>,
           result' \in {"ok", "error"}, pos' \in Nat, sec' \in Nat,
           buf' \in Seq(Values \cup {Echo})
    PROVE  LibInv' /\ Place' /\ Handle' /\ Endpoint' /\ Stopped'
<1>1. TypeOK /\ Endpoint /\ CacheTells /\ Place /\ Handle /\ Stopped
    BY DEF IInv, LibInv, Bases, Outcome
<1>2. inbox' \in Seq(Answers) /\ (clean => inbox' = <<>>)
    BY <1>1, Takes
<1>3. step' \in Steps
    BY StepsOfSteps
<1>4. TypeOK'
    BY <1>1, <1>2, <1>3 DEF TypeOK, Answers
<1>5. CacheTells' /\ Handle' /\ Endpoint' /\ Stopped'
    BY <1>1, <1>2 DEF CacheTells, Handle, Endpoint, Stopped
<1>6. Place'
    BY <1>1 DEF Place, BadArguments
<1> QED
    BY <1>4, <1>5, <1>6 DEF LibInv

LEMMA TellsStep ==
    ASSUME IInv, step \notin Acks \cup {"idle", "reset"},
           NEW after \in Devices, after.fpga = dev.fpga,
           NEW next, next \in StepsOf(job.call), Tell(after, next), pos' \in Nat
    PROVE  /\ LibInv' /\ Place' /\ Handle' /\ Endpoint' /\ Stopped'
           /\ step' = next /\ UNCHANGED <<handle, job, sec, buf, inbox, result>>
           /\ clean' => clean /\ dev' = after
<1>1. TypeOK /\ Endpoint /\ CacheTells /\ Place /\ Handle /\ Stopped
    BY DEF IInv, LibInv, Bases, Outcome
<1>2. /\ step' = next
      /\ UNCHANGED <<handle, cache, job, sec, buf, result, inbox, own, plugged, used, told>>
      /\ faults' \in Nat /\ clean' \in BOOLEAN
      /\ dev' \in {dev, after} /\ (clean' => clean /\ dev' = after)
    BY <1>1, Tells DEF TypeOK
<1>3. dev' \in Devices /\ dev'.fpga = dev.fpga
    BY <1>1, <1>2 DEF TypeOK, Devices
<1>4. step' \in Steps
    BY <1>2, StepsOfSteps
<1>5. TypeOK'
    BY <1>1, <1>2, <1>3, <1>4 DEF TypeOK, Devices
<1>6. CacheTells' /\ Handle' /\ Stopped'
    BY <1>1, <1>2, <1>3 DEF CacheTells, Handle, Stopped
<1>7. Endpoint'
    BY <1>1, <1>2 DEF Endpoint
<1>8. Place'
    BY <1>1, <1>2 DEF Place, BadArguments
<1> QED
    BY <1>2, <1>5, <1>6, <1>7, <1>8 DEF LibInv

-----------------------------------------------------------------------------
(***************************************************************************)
(* The steps, one by one.                                                  *)
(***************************************************************************)
LEMMA FpgaResetStep ==
    ASSUME IInv, FpgaReset
    PROVE  IInv'
<1>1. /\ step = "reset" /\ cache' = "stopped" /\ clean' = (clean /\ told')
      /\ step' = IF job.call = "flashid" THEN "ask" ELSE "pointer"
      /\ UNCHANGED <<handle, job, pos, sec, buf, result, inbox, own, plugged, used>>
    BY DEF FpgaReset
<1>2. TypeOK /\ CacheTells /\ Place /\ Handle /\ Endpoint /\ Position
    BY DEF IInv, LibInv, Bases
<1>3. \/ cache = "stopped" /\ UNCHANGED <<dev, faults, told>>
      \/ \E arrives \in BOOLEAN :
            /\ Writes(arrives)
            /\ dev' = IF arrives THEN [dev EXCEPT !.fpga = FALSE] ELSE dev
            /\ told' = arrives
    BY DEF FpgaReset
<1>4. dev' \in Devices /\ faults' \in Nat /\ told' \in BOOLEAN /\ (told' => ~dev'.fpga)
    <2>1. CASE cache = "stopped" /\ UNCHANGED <<dev, faults, told>>
        BY <1>2, <2>1 DEF TypeOK, Devices, CacheTells
    <2>2. CASE ~(cache = "stopped" /\ UNCHANGED <<dev, faults, told>>)
        <3>1. PICK arrives \in BOOLEAN :
                /\ Writes(arrives)
                /\ dev' = IF arrives THEN [dev EXCEPT !.fpga = FALSE] ELSE dev
                /\ told' = arrives
            BY <1>3, <2>2
        <3>2. faults' \in Nat
            BY <1>2, <3>1 DEF TypeOK, Writes
        <3>3. CASE arrives
            BY <1>2, <3>1, <3>2, <3>3 DEF TypeOK, Devices
        <3>4. CASE ~arrives
            BY <1>2, <3>1, <3>2, <3>4 DEF TypeOK, Devices
        <3> QED
            BY <3>3, <3>4
    <2> QED
        BY <2>1, <2>2
<1>5. job.call \in FlashCalls \cup {"flashid"} /\ job \in Jobs
    BY <1>1, <1>2, CallOf DEF Place
<1>6. LibInv'
    BY <1>1, <1>2, <1>4 DEF LibInv, TypeOK, Devices, CacheTells, Steps
<1>7. Place'
    BY <1>1, <1>2, <1>5 DEF Place, BadArguments, StepsOf, FlashCalls, FlashJobs
<1>8. Handle' /\ Endpoint' /\ Position'
    BY <1>1, <1>2 DEF Handle, Endpoint, Position, Acks
<1>9. Stopped'
    BY <1>1, <1>4 DEF Stopped
<1>10. Erasing' /\ Writing' /\ Fetching' /\ Loading' /\ Poking' /\ DataArrives'
    BY <1>1 DEF Erasing, Writing, Fetching, Loading, Poking, DataArrives, Reported
<1> QED
    BY <1>6, <1>7, <1>8, <1>9, <1>10 DEF IInv, Bases, Outcome

LEMMA SetPointerStep ==
    ASSUME IInv, SetPointer
    PROVE  IInv'
<1>1. step = "pointer" /\ pos' = pos /\ pos = 0 /\ sec = 0 /\ Len(buf) = 0 /\ pos \in Nat
    BY DEF SetPointer, IInv, LibInv, TypeOK, Bases, Position
<1>2. job \in Jobs /\ job.call \in FlashCalls \cup {"status"} /\ job.base \in Nat /\ job.size \in Nat
    BY <1>1, CallOf, JobFacts DEF IInv, Bases, Place
<1>3. dev \in Devices
    BY DEF IInv, LibInv, TypeOK, Devices
<1>4. CASE job.call \in FlashJobs
    <2> DEFINE after == [dev EXCEPT !.wptr = job.base]
    <2>1. Tell(after, "erase")
        BY <1>1, <1>4 DEF SetPointer, FlashJobs
    <2>2. after \in Devices /\ after.fpga = dev.fpga /\ after.wptr = job.base
        BY <1>2, <1>3 DEF Devices
    <2>3. "erase" \in StepsOf(job.call)
        BY <1>4 DEF FlashJobs, StepsOf
    <2> HIDE DEF after
    <2>4. /\ LibInv' /\ Place' /\ Handle' /\ Endpoint' /\ Stopped'
          /\ step' = "erase" /\ UNCHANGED <<handle, job, sec, buf, inbox, result>>
          /\ clean' => clean /\ dev' = after
        BY <1>1, <2>1, <2>2, <2>3, TellsStep DEF Acks
    <2>5. Position'
        BY <1>1, <1>2, <2>4, FlashJob, <1>4 DEF Position, IInv, Bases, Sectors
    <2>6. Erasing'
        BY <1>1, <1>2, <2>2, <2>4, Sizes DEF Erasing, ErasedTo
    <2>7. Writing' /\ Fetching' /\ Loading' /\ Poking' /\ DataArrives'
        BY <2>4 DEF Writing, Fetching, Loading, Poking, DataArrives, Reported
    <2> QED
        BY <2>4, <2>5, <2>6, <2>7 DEF IInv, Bases, Outcome
<1>5. CASE job.call = "read"
    <2> DEFINE after == [dev EXCEPT !.rptr = job.base]
    <2>1. Tell(after, "fetch")
        BY <1>1, <1>5 DEF SetPointer, FlashJobs
    <2>2. after \in Devices /\ after.fpga = dev.fpga /\ after.rptr = job.base
        BY <1>2, <1>3 DEF Devices
    <2>3. "fetch" \in StepsOf(job.call)
        BY <1>5 DEF StepsOf
    <2> HIDE DEF after
    <2>4. /\ LibInv' /\ Place' /\ Handle' /\ Endpoint' /\ Stopped'
          /\ step' = "fetch" /\ UNCHANGED <<handle, job, sec, buf, inbox, result>>
          /\ clean' => clean /\ dev' = after
        BY <1>1, <2>1, <2>2, <2>3, TellsStep DEF Acks
    <2>5. Position'
        BY <1>1, <1>2, <2>4, WholeStart, Sizes DEF Position, Whole
    <2>6. Fetching'
        BY <1>1, <1>2, <2>2, <2>4 DEF Fetching, FetchedTo
    <2>7. Erasing' /\ Writing' /\ Loading' /\ Poking' /\ DataArrives'
        BY <2>4 DEF Erasing, Writing, Loading, Poking, DataArrives, Reported
    <2> QED
        BY <2>4, <2>5, <2>6, <2>7 DEF IInv, Bases, Outcome
<1>6. CASE job.call = "status"
    <2> DEFINE after == [dev EXCEPT !.rptr = 0, !.wptr = 0]
    <2>1. Tell(after, "ask")
        BY <1>1, <1>6 DEF SetPointer, FlashJobs
    <2>2. "ask" \in StepsOf(job.call)
        BY <1>6 DEF StepsOf
    <2>6. after \in Devices /\ after.fpga = dev.fpga
        BY <1>3 DEF Devices
    <2> HIDE DEF after
    <2>3. /\ LibInv' /\ Place' /\ Handle' /\ Endpoint' /\ Stopped'
          /\ step' = "ask" /\ UNCHANGED <<handle, job, sec, buf, inbox, result>>
        BY <1>1, <2>1, <2>2, <2>6, TellsStep DEF Acks
    <2>4. Position'
        BY <1>1, <2>3 DEF Position
    <2>5. Erasing' /\ Writing' /\ Fetching' /\ Loading' /\ Poking' /\ DataArrives'
        BY <2>3 DEF Erasing, Writing, Fetching, Loading, Poking, DataArrives, Reported
    <2> QED
        BY <2>3, <2>4, <2>5 DEF IInv, Bases, Outcome
<1> QED
    BY <1>2, <1>4, <1>5, <1>6 DEF FlashCalls

LEMMA AskStep ==
    ASSUME IInv, Ask
    PROVE  IInv'
<1> DEFINE after == IF job.call = "startcore" THEN [dev EXCEPT !.fpga = TRUE] ELSE dev
           answer == Same(IF job.call = "jtagslot" THEN Echo ELSE Junk)
<1>1. /\ step = "ask" /\ Request(after, answer, "askAck") /\ UNCHANGED <<told, clean>>
      /\ cache' = IF job.call = "startcore" THEN "running" ELSE cache
    BY DEF Ask
<1>2. TypeOK /\ CacheTells /\ Place /\ Handle /\ Endpoint /\ Position /\ dev \in Devices
    BY DEF IInv, LibInv, Bases, TypeOK, Devices
<1>3. after \in Devices /\ (job.call # "startcore" => after = dev)
    BY <1>2 DEF Devices
<1>4. answer \in Answers
    BY Sizes DEF Answers, Same
<1> HIDE DEF after, answer
<1>5. /\ step' = "askAck" /\ UNCHANGED <<handle, job, pos, sec, buf, result, plugged, used>>
      /\ faults' \in Nat /\ own' \in BOOLEAN /\ inbox' \in Seq(Answers)
      /\ dev' \in {dev, after}
      /\ clean => inbox' = <<>> \/ Len(inbox') = 1
    BY <1>1, <1>2, <1>3, <1>4, Requests DEF Acks
<1>6. job.call \notin FlashCalls \cup {"readmem", "writemem"}
    BY <1>1, <1>2, CallOf
<1>7. LibInv'
    <2>1. TypeOK'
        BY <1>1, <1>2, <1>3, <1>5 DEF TypeOK, Devices, Answers, Steps, Acks
    <2>2. CacheTells'
        BY <1>1, <1>2, <1>3, <1>5 DEF CacheTells
    <2> QED
        BY <2>1, <2>2 DEF LibInv
<1>8. Place'
    BY <1>1, <1>2, <1>5, <1>6 DEF Place, BadArguments, StepsOf, FlashCalls, FlashJobs
<1>9. Handle' /\ Endpoint' /\ Position'
    BY <1>1, <1>2, <1>5 DEF Handle, Endpoint, Position, Acks
<1>10. Outcome'
    BY <1>1, <1>5, <1>6 DEF Outcome, Stopped, Erasing, Writing, Fetching, Loading, Poking, DataArrives,
       Reported, FlashCalls
<1> QED
    BY <1>7, <1>8, <1>9, <1>10 DEF IInv, Bases

LEMMA AskAckStep ==
    ASSUME IInv, AskAck
    PROVE  IInv'
<1>1. /\ step = "askAck" /\ Take /\ step' = "idle" /\ result' \in {"ok", "error"}
      /\ UNCHANGED <<handle, cache, job, pos, sec, buf, own, plugged, dev, faults, used, told, clean>>
    BY DEF AskAck, Return
<1>2. TypeOK /\ CacheTells /\ Place /\ Handle /\ Endpoint
    BY DEF IInv, LibInv, Bases
<1>3. inbox' \in Seq(Answers)
    BY <1>1, <1>2, Takes
<1>4. TypeOK'
    BY <1>1, <1>2, <1>3 DEF TypeOK, Answers, Steps
<1>5. CacheTells' /\ Handle'
    BY <1>1, <1>2 DEF CacheTells, Handle
<1>6. job.call \notin FlashCalls \cup {"readmem", "writemem"}
    BY <1>1, <1>2, CallOf
<1>7. DataArrives'
    BY <1>1, <1>6 DEF DataArrives, Reported, FlashCalls
<1> QED
    BY <1>1, <1>4, <1>5, <1>7, Ends

LEMMA BootloaderStep ==
    ASSUME IInv, Bootloader
    PROVE  IInv'
<1>1. /\ step = "ask" /\ job.call = "bootloader" /\ step' = "idle" /\ result' \in {"ok", "error"}
      /\ UNCHANGED <<cache, job, pos, sec, buf, own, dev, used, told, clean>>
      /\ \/ plugged' = FALSE /\ inbox' = <<>> /\ handle' = "stale"
         \/ UNCHANGED <<plugged, inbox, handle>>
    BY DEF Bootloader, Return
<1>2. TypeOK /\ CacheTells /\ Handle
    BY DEF IInv, LibInv, Bases
<1>3. faults' \in Nat
    BY <1>2 DEF Bootloader, Writes, TypeOK
<1>4. inbox' \in Seq(Answers) /\ handle' \in {"none", "good", "unclaimed", "stale", "held"} /\ plugged' \in BOOLEAN
    <2>1. inbox \in Seq(Answers) /\ <<>> \in Seq(Answers)
        BY <1>2, EmptySeq DEF TypeOK, Answers
    <2> QED
        BY <1>1, <1>2, <2>1 DEF TypeOK
<1>5. CacheTells' /\ Handle'
    BY <1>1, <1>2 DEF CacheTells, Handle
<1>6. DataArrives'
    BY <1>1 DEF DataArrives, Reported
<1>7. TypeOK'
    BY <1>1, <1>2, <1>3, <1>4 DEF TypeOK, Answers, Steps
<1> QED
    BY <1>1, <1>5, <1>6, <1>7, Ends

-----------------------------------------------------------------------------
LEMMA EraseStep ==
    ASSUME IInv, Erase
    PROVE  IInv'
<1> DEFINE erased == EraseSector(dev, job.base \div Sector + sec)
<1>1. step = "erase" /\ sec < Sectors
    BY DEF Erase
<1>2. dev \in Devices /\ Position /\ Place /\ Stopped /\ Erasing /\ pos = 0 /\ sec \in Nat
    BY <1>1 DEF IInv, LibInv, Bases, Outcome, TypeOK, Devices, Position
<1>3. /\ job.call \in FlashJobs /\ job.base \in Nat /\ job.size \in Nat
      /\ job.base + job.size <= FlashSize
      /\ Sectors \in Nat /\ job.size = Sector * Sectors
      /\ job.base \div Sector \in Nat /\ job.base = Sector * (job.base \div Sector)
    BY <1>1, <1>2, CallOf, FlashJob
<1>4. PICK after \in {dev, erased}, answer \in {Same(Junk), Same(FF)} :
        /\ Sends(after, answer, "eraseAck")
        /\ after = dev => answer = Same(FF) \/ dev = erased
    BY DEF Erase
<1>5. "eraseAck" \in StepsOf(job.call)
    BY <1>3 DEF FlashJobs, StepsOf
<1>6. job.base \div Sector + sec \in Nat
    BY <1>2, <1>3
<1>7. /\ erased \in Devices /\ erased.fpga = dev.fpga /\ erased.wptr = dev.wptr
      /\ \A a \in Addr : erased.flash[a] =
            IF ~dev.fpga /\ Sector * (job.base \div Sector + sec) <= a
                /\ a < Sector * (job.base \div Sector + sec) + Sector THEN FF ELSE dev.flash[a]
    BY <1>2, <1>6, EraseEffect
<1> HIDE DEF erased
<1>8. answer \in Answers
    BY Sizes DEF Answers, Same
<1>9. /\ LibInv' /\ Place' /\ Handle' /\ Endpoint' /\ Stopped'
      /\ step' = "eraseAck" /\ UNCHANGED <<handle, job, pos, sec, buf, result, clean>>
      /\ dev' \in {dev, after}
      /\ clean' /\ inbox' # <<>> => handle = "good" /\ dev' = after /\ inbox' = <<answer>>
    BY <1>1, <1>2, <1>4, <1>5, <1>7, <1>8, SendsStep DEF Acks
<1>10. Position'
    BY <1>1, <1>2, <1>9 DEF Position, Sectors
<1>11. /\ Sector * sec \in Nat /\ Sector * (sec + 1) = Sector * sec + Sector
       /\ Sector * sec + Sector <= job.size
       /\ Sector * (job.base \div Sector + sec) = job.base + Sector * sec
    <2>1. /\ Sector * sec \in Nat /\ Sector * (sec + 1) = Sector * sec + Sector
          /\ Sector * sec + Sector <= job.size
        BY <1>1, <1>2, <1>3, SectorRoom
    <2>2. Sector * (job.base \div Sector + sec) = Sector * (job.base \div Sector) + Sector * sec
        BY <1>2, <1>3, Sizes
    <2> QED
        BY <1>3, <2>1, <2>2
<1>12. \A k \in 0 .. Sector * (sec + 1) - 1 : job.base + k \in Addr
    BY <1>3, <1>11, Sizes DEF Addr
<1>13. Erasing'
    <2>1. ASSUME clean' PROVE dev'.wptr = job.base /\ ErasedTo(Sector * sec)'
        <3>1. clean /\ dev.wptr = job.base /\ ErasedTo(Sector * sec)
            BY <1>1, <1>2, <1>9, <2>1 DEF Erasing
        <3>2. \A k \in 0 .. Sector * sec - 1 : dev'.flash[job.base + k] = FF
            BY <1>4, <1>7, <1>9, <1>11, <1>12, <3>1, Sizes DEF ErasedTo
        <3> QED
            BY <1>4, <1>7, <1>9, <3>1, <3>2 DEF ErasedTo
    <2>2. ASSUME clean', inbox' # <<>>, inbox'[1][0] # FF PROVE ErasedTo(Sector * (sec + 1))'
        <3>1. clean /\ handle = "good" /\ dev' = after /\ answer[0] # FF
            BY <1>9, <2>2
        <3>2. answer # Same(FF)
            BY <3>1, Sizes DEF Same
        <3>3. dev' = erased
            BY <1>4, <3>1, <3>2
        <3>4. ErasedTo(Sector * sec) /\ ~dev.fpga
            BY <1>1, <1>2, <1>3, <3>1 DEF Erasing, Stopped, FlashCalls
        <3>5. \A k \in 0 .. Sector * (sec + 1) - 1 : dev'.flash[job.base + k] = FF
            <4> SUFFICES ASSUME NEW k \in 0 .. Sector * (sec + 1) - 1
                         PROVE  dev'.flash[job.base + k] = FF
                OBVIOUS
            <4>1. CASE k < Sector * sec
                BY <1>7, <1>11, <1>12, <3>3, <3>4, <4>1, Sizes DEF ErasedTo
            <4>2. CASE k >= Sector * sec
                BY <1>3, <1>7, <1>11, <1>12, <3>3, <3>4, <4>2, Sizes
            <4> QED
                BY <1>11, <4>1, <4>2, Sizes
        <3> QED
            BY <1>9, <3>5 DEF ErasedTo
    <2> QED
        BY <1>9, <2>1, <2>2 DEF Erasing
<1>14. Writing' /\ Fetching' /\ Loading' /\ Poking' /\ DataArrives'
    BY <1>9 DEF Writing, Fetching, Loading, Poking, DataArrives, Reported
<1> QED
    BY <1>9, <1>10, <1>13, <1>14 DEF IInv, Bases, Outcome

LEMMA EraseAckStep ==
    ASSUME IInv, EraseAck
    PROVE  IInv'
<1>1. /\ step = "eraseAck" /\ Take
      /\ UNCHANGED <<handle, cache, job, pos, buf, own, plugged, dev, faults, used, told, clean>>
      /\ IF Answer[0] = FF THEN step' = "idle" /\ result' = "error" /\ sec' = sec
                           ELSE step' = "erase" /\ result' = result /\ sec' = sec + 1
    BY DEF EraseAck, Return, Goto
<1>2. /\ TypeOK /\ Position /\ Place /\ Endpoint /\ Erasing /\ CacheTells /\ Handle
      /\ pos = 0 /\ sec < Sectors /\ sec \in Nat
    BY <1>1 DEF IInv, LibInv, Bases, Outcome, TypeOK, Position
<1>3. job.call \in FlashJobs /\ job \in Jobs /\ Sectors \in Nat
    BY <1>1, <1>2, CallOf, FlashJob DEF Place
<1>4. inbox # <<>> /\ Answer = inbox[1] /\ inbox' \in Seq(Answers)
    BY <1>1, <1>2, Takes
<1>5. CASE Answer[0] = FF
    <2>1. TypeOK'
        BY <1>1, <1>2, <1>4, <1>5 DEF TypeOK, Answers, Steps
    <2> QED
        BY <1>1, <1>5, <2>1, Errors
<1>6. CASE Answer[0] # FF
    <2>1. step' = "erase" /\ result' = result /\ sec' = sec + 1
        BY <1>1, <1>6
    <2>2. "erase" \in StepsOf(job.call)
        BY <1>3 DEF FlashJobs, StepsOf
    <2>3. LibInv' /\ Place' /\ Handle' /\ Endpoint' /\ Stopped'
        <3>1. /\ result' \in {"ok", "error"} /\ pos' \in Nat /\ sec' \in Nat
              /\ buf' \in Seq(Values \cup {Echo})
            BY <1>1, <1>2, <2>1 DEF TypeOK
        <3> QED
            BY <1>1, <2>1, <2>2, <3>1, TakesStep
    <2>4. Position'
        BY <1>1, <1>2, <1>3, <2>1 DEF Position, Sectors
    <2>5. Erasing'
        BY <1>1, <1>2, <1>4, <1>6, <2>1 DEF Erasing, ErasedTo
    <2>6. Writing' /\ Fetching' /\ Loading' /\ Poking' /\ DataArrives'
        BY <2>1 DEF Writing, Fetching, Loading, Poking, DataArrives, Reported
    <2> QED
        BY <2>3, <2>4, <2>5, <2>6 DEF IInv, Bases, Outcome
<1> QED
    BY <1>5, <1>6

\* The loop is through, another begins.
LEMMA FinishesStep ==
    ASSUME IInv, step \notin Acks \cup {"idle", "reset"}, NEW next \in StepsOf(job.call), next # "idle",
           Finishes(next)
    PROVE  /\ LibInv' /\ Place' /\ Handle' /\ Endpoint' /\ Stopped' /\ step' = next
           /\ UNCHANGED <<job, pos, sec, buf, inbox, dev, clean>>
<1>1. step' = next /\ UNCHANGED <<handle, cache, job, pos, sec, buf, link, used, told, clean, result>>
    BY DEF Finishes, Goto
<1>2. /\ TypeOK /\ CacheTells /\ Place /\ Handle /\ Endpoint /\ Stopped
      /\ UNCHANGED <<inbox, own, plugged, dev, faults>>
    BY <1>1 DEF IInv, LibInv, Bases, Outcome, link
<1>3. step' \in Steps
    BY <1>1, StepsOfSteps
<1>4. TypeOK' /\ CacheTells'
    BY <1>1, <1>2, <1>3 DEF TypeOK, CacheTells
<1>5. Place' /\ Handle' /\ Endpoint' /\ Stopped'
    BY <1>1, <1>2 DEF Place, BadArguments, Handle, Endpoint, Stopped
<1> QED
    BY <1>1, <1>2, <1>4, <1>5 DEF LibInv

\* The last loop is through, the call returns.
LEMMA ReturnsStep ==
    ASSUME IInv, Finishes("idle"), DataArrives'
    PROVE  IInv'
<1>1. /\ step' = "idle" /\ result' = "ok"
      /\ UNCHANGED <<handle, cache, job, pos, sec, buf, inbox, own, plugged, dev, faults, used, told, clean>>
    BY DEF Finishes, Return, link
<1>2. TypeOK /\ CacheTells /\ Handle
    BY DEF IInv, LibInv, Bases
<1>3. TypeOK' /\ CacheTells' /\ Handle'
    BY <1>1, <1>2 DEF TypeOK, CacheTells, Handle, Steps
<1> QED
    BY <1>1, <1>3, Ends

LEMMA EraseDoneStep ==
    ASSUME IInv, EraseDone
    PROVE  IInv'
<1>1. step = "erase" /\ sec >= Sectors /\ Finishes(IF job.call = "write" THEN "data" ELSE "idle")
    BY DEF EraseDone
<1>2. Position /\ Place /\ Erasing /\ pos = 0 /\ sec \in Nat /\ sec <= Sectors
    BY <1>1 DEF IInv, LibInv, Bases, Outcome, TypeOK, Position
<1>3. /\ job.call \in FlashJobs /\ job.base \in Nat /\ job.size \in Nat
      /\ Sectors \in Nat /\ job.size = Sector * Sectors
    BY <1>1, <1>2, CallOf, FlashJob
<1>4. CASE job.call = "write"
    <2>1. Finishes("data") /\ "data" \in StepsOf(job.call)
        BY <1>1, <1>4 DEF StepsOf
    <2>2. /\ LibInv' /\ Place' /\ Handle' /\ Endpoint' /\ Stopped' /\ step' = "data"
          /\ UNCHANGED <<job, pos, sec, buf, inbox, dev, clean>>
        BY <1>1, <2>1, FinishesStep DEF Acks
    <2>3. Position'
        BY <1>2, <1>3, <2>2, WholeStart DEF Position, Whole
    <2>4. sec = Sectors
        BY <1>1, <1>2, <1>3
    <2>5. Writing'
        BY <1>1, <1>2, <1>3, <2>2, <2>4 DEF Writing, WrittenTo, Erasing, ErasedTo
    <2>6. Erasing' /\ Fetching' /\ Loading' /\ Poking' /\ DataArrives'
        BY <2>2 DEF Erasing, Fetching, Loading, Poking, DataArrives, Reported
    <2> QED
        BY <2>2, <2>3, <2>5, <2>6 DEF IInv, Bases, Outcome
<1>5. CASE job.call = "erase"
    <2>1. Finishes("idle") /\ job' = job
        BY <1>1, <1>5 DEF Finishes
    <2>2. DataArrives'
        BY <1>5, <2>1 DEF DataArrives, Reported
    <2> QED
        BY <2>1, <2>2, ReturnsStep
<1> QED
    BY <1>3, <1>4, <1>5 DEF FlashJobs

LEMMA WriteJob ==
    ASSUME IInv, step \in {"data", "dataAck"}
    PROVE  /\ job.call = "write" /\ job.base \in Nat /\ job.size \in Nat
           /\ job.base + job.size <= FlashSize /\ Whole(job.size)
           /\ job.data \in [0 .. job.size - 1 -> Bytes]
           /\ pos \in Nat /\ pos <= job.size /\ Whole(pos) /\ dev \in Devices
<1>1. Place /\ Position /\ TypeOK
    BY DEF IInv, LibInv, Bases
<1>2. job.call = "write" /\ job \in Jobs
    BY <1>1, CallOf DEF Place
<1>3. pos \in Nat /\ Whole(pos) /\ pos <= job.size /\ dev \in Devices
    BY <1>1, <1>2, JobFacts DEF TypeOK, Position, Devices
<1> QED
    BY <1>1, <1>2, <1>3, JobFacts, FlashJob DEF FlashJobs

LEMMA SkipRunStep ==
    ASSUME IInv, SkipRun
    PROVE  IInv'
<1>1. step = "data" /\ pos < job.size
    BY DEF SkipRun
<1>2. PICK n \in 1 .. RunMax : IsRun(pos, n) /\ Skippable(n) /\ pos' = pos + (n - (n % Block))
    BY DEF SkipRun
<1> DEFINE after == [dev EXCEPT !.wptr = job.base + pos']
<1>3. Tell(after, "data")
    BY DEF SkipRun
<1>4. /\ job.call = "write" /\ job.base \in Nat /\ job.size \in Nat
      /\ job.data \in [0 .. job.size - 1 -> Bytes]
      /\ pos \in Nat /\ Whole(pos) /\ dev \in Devices /\ Writing
    BY <1>1, WriteJob DEF IInv, Outcome
<1>5. n \in Nat /\ n - (n % Block) \in 0 .. n /\ Whole(n - (n % Block))
    <2>1. n \in Nat
        BY ChacoLibAssumption
    <2> QED
        BY <2>1, WholeCut
<1>6. pos + n <= job.size /\ (\A k \in 0 .. n - 1 : job.data[pos + k] = FF)
    BY <1>2 DEF IsRun, Skippable
<1>7. pos' \in Nat /\ pos <= pos' /\ pos' <= pos + n /\ Whole(pos')
    <2> DEFINE m == n - (n % Block)
    <2>1. m \in Nat /\ m <= n /\ Whole(m) /\ pos' = pos + m
        BY <1>2, <1>5
    <2> HIDE DEF m
    <2>2. Whole(pos + m)
        BY <1>4, <2>1, WholeNext
    <2> QED
        BY <1>4, <1>5, <2>1, <2>2
<1>8. after \in Devices /\ after.fpga = dev.fpga /\ after.wptr = job.base + pos'
      /\ after.flash = dev.flash
    BY <1>4, <1>7, SMTT(60) DEF Devices
<1>9. "data" \in StepsOf(job.call)
    BY <1>4 DEF StepsOf
<1> HIDE DEF after
<1>10. /\ LibInv' /\ Place' /\ Handle' /\ Endpoint' /\ Stopped'
       /\ step' = "data" /\ UNCHANGED <<handle, job, sec, buf, inbox, result>>
       /\ clean' => clean /\ dev' = after
    BY <1>1, <1>3, <1>7, <1>8, <1>9, TellsStep DEF Acks
<1>11. Position'
    BY <1>4, <1>5, <1>6, <1>7, <1>10 DEF Position, Whole
<1>12. Writing'
    <2>1. ASSUME clean' PROVE (dev.wptr = job.base + pos)' /\ WrittenTo(pos)'
        <3>1. dev' = after /\ WrittenTo(pos)
            BY <1>1, <1>4, <1>10, <2>1 DEF Writing
        <3>2. \A k \in 0 .. job.size - 1 :
                 dev'.flash[job.base + k] = IF k < pos' THEN job.data[k] ELSE FF
            <4> SUFFICES ASSUME NEW k \in 0 .. job.size - 1
                         PROVE  dev'.flash[job.base + k] = IF k < pos' THEN job.data[k] ELSE FF
                OBVIOUS
            <4>1. dev'.flash[job.base + k] = IF k < pos THEN job.data[k] ELSE FF
                BY <1>8, <3>1 DEF WrittenTo
            <4>2. CASE k < pos \/ k >= pos'
                BY <1>4, <1>7, <4>1, <4>2
            <4>3. CASE pos <= k /\ k < pos'
                <5>1. k - pos \in 0 .. n - 1 /\ pos + (k - pos) = k
                    BY <1>4, <1>5, <1>7, <4>3
                <5>2. job.data[k] = FF
                    BY <1>6, <5>1
                <5> QED
                    BY <1>4, <1>7, <4>1, <4>3, <5>2
            <4> QED
                BY <1>4, <1>7, <4>2, <4>3
        <3> QED
            BY <1>8, <1>10, <3>1, <3>2 DEF WrittenTo
    <2> QED
        BY <1>10, <2>1 DEF Writing
<1>13. Erasing' /\ Fetching' /\ Loading' /\ Poking' /\ DataArrives'
    BY <1>10 DEF Erasing, Fetching, Loading, Poking, DataArrives, Reported
<1> QED
    BY <1>10, <1>11, <1>12, <1>13 DEF IInv, Bases, Outcome

LEMMA WriteBlockStep ==
    ASSUME IInv, WriteBlock
    PROVE  IInv'
<1> DEFINE after == Program(dev, Literal)
<1>1. step = "data" /\ pos < job.size /\ Sends(after, Same(Junk), "dataAck")
    BY DEF WriteBlock
<1>2. /\ job.call = "write" /\ job.base \in Nat /\ job.size \in Nat
      /\ job.base + job.size <= FlashSize /\ Whole(job.size)
      /\ job.data \in [0 .. job.size - 1 -> Bytes]
      /\ pos \in Nat /\ Whole(pos) /\ dev \in Devices /\ Writing /\ Stopped
    BY <1>1, WriteJob DEF IInv, Outcome
<1>3. pos + Block <= job.size
    BY <1>1, <1>2, WholeRoom
<1>4. MaxBlockLen = Block
    BY <1>2, <1>3, Sizes DEF MaxBlockLen
<1>5. Literal = [k \in Frame |-> job.data[pos + k]]
    BY <1>4, Sizes DEF Literal, Frame
<1>6. Literal \in [Frame -> Values]
    <2>1. \A k \in Frame : job.data[pos + k] \in Values
        BY <1>2, <1>3, Sizes DEF Frame
    <2> QED
        BY <1>5, <2>1
<1>7. /\ after \in Devices
      /\ after.fpga = dev.fpga /\ after.wptr = dev.wptr + Block
      /\ \A a \in Addr : after.flash[a] =
            IF ~dev.fpga /\ dev.wptr <= a /\ a < dev.wptr + Block
            THEN Burn(dev.flash[a], Literal[a - dev.wptr]) ELSE dev.flash[a]
    BY <1>2, <1>6, ProgramEffect
<1> HIDE DEF after
<1>8. Same(Junk) \in Answers /\ "dataAck" \in StepsOf(job.call)
    BY <1>2, Sizes DEF Answers, Same, StepsOf
<1>9. /\ LibInv' /\ Place' /\ Handle' /\ Endpoint' /\ Stopped'
      /\ step' = "dataAck" /\ UNCHANGED <<handle, job, pos, sec, buf, result, clean>>
      /\ clean' /\ inbox' # <<>> => handle = "good" /\ dev' = after /\ inbox' = <<Same(Junk)>>
    BY <1>1, <1>7, <1>8, SendsStep DEF Acks
<1>10. Position'
    BY <1>1, <1>2, <1>9 DEF Position, Whole
<1>11. Writing'
    <2>1. ASSUME clean', inbox' # <<>>
          PROVE  dev'.wptr = job.base + pos + Block /\ WrittenTo(pos + Block)'
        <3>1. clean /\ dev' = after /\ WrittenTo(pos) /\ dev.wptr = job.base + pos /\ ~dev.fpga
            BY <1>1, <1>2, <1>9, <2>1 DEF Writing, Stopped, FlashCalls, FlashJobs
        <3>2. \A k \in 0 .. job.size - 1 :
                 dev'.flash[job.base + k] = IF k < pos + Block THEN job.data[k] ELSE FF
            <4> SUFFICES ASSUME NEW k \in 0 .. job.size - 1
                         PROVE  dev'.flash[job.base + k] = IF k < pos + Block THEN job.data[k] ELSE FF
                OBVIOUS
            <4>1. job.base + k \in Addr
                BY <1>2, Sizes DEF Addr
            <4>2. dev.flash[job.base + k] = IF k < pos THEN job.data[k] ELSE FF
                BY <3>1 DEF WrittenTo
            <4>3. CASE k < pos \/ k >= pos + Block
                <5>1. dev'.flash[job.base + k] = dev.flash[job.base + k]
                    BY <1>2, <1>7, <3>1, <4>1, <4>3, Sizes
                <5> QED
                    BY <1>2, <4>2, <4>3, <5>1, Sizes
            <4>4. CASE pos <= k /\ k < pos + Block
                <5>1. dev.flash[job.base + k] = FF
                    BY <1>2, <4>2, <4>4
                <5>2. dev'.flash[job.base + k] = Burn(FF, Literal[k - pos])
                    <6>1. PICK a \in Addr : a = job.base + k
                        BY <4>1
                    <6>2. a - dev.wptr = k - pos /\ dev.wptr <= a /\ a < dev.wptr + Block
                        BY <1>2, <3>1, <4>4, <6>1, Sizes
                    <6>3. after.flash[a] = Burn(dev.flash[a], Literal[a - dev.wptr])
                        BY <1>7, <3>1, <6>2
                    <6> QED
                        BY <3>1, <5>1, <6>1, <6>2, <6>3
                <5>3. k - pos \in Frame /\ pos + (k - pos) = k
                    BY <1>2, <4>4, Sizes DEF Frame
                <5>4. Literal[k - pos] = job.data[k]
                    BY <1>5, <5>3
                <5> QED
                    BY <4>4, <5>2, <5>4 DEF Burn
            <4> QED
                BY <1>2, <4>3, <4>4, Sizes
        <3> QED
            BY <1>7, <1>9, <3>1, <3>2 DEF WrittenTo
    <2> QED
        BY <1>9, <2>1 DEF Writing
<1>12. Erasing' /\ Fetching' /\ Loading' /\ Poking' /\ DataArrives'
    BY <1>9 DEF Erasing, Fetching, Loading, Poking, DataArrives, Reported
<1> QED
    BY <1>9, <1>10, <1>11, <1>12 DEF IInv, Bases, Outcome

LEMMA WriteAckStep ==
    ASSUME IInv, WriteAck
    PROVE  IInv'
<1>1. /\ step = "dataAck" /\ Take /\ pos' = pos + MaxBlockLen /\ step' = "data"
      /\ UNCHANGED <<handle, cache, job, sec, buf, own, plugged, dev, faults, used, told, clean, result>>
    BY DEF WriteAck, Acknowledged, Goto
<1>2. /\ job.call = "write" /\ job.base \in Nat /\ job.size \in Nat /\ Whole(job.size)
      /\ pos \in Nat /\ Whole(pos) /\ pos < job.size /\ Writing /\ TypeOK /\ Endpoint
    BY <1>1, WriteJob DEF IInv, LibInv, Bases, Outcome, Position
<1>3. pos + Block <= job.size
    BY <1>2, WholeRoom
<1>4. pos' = pos + Block /\ pos' \in Nat /\ Whole(pos')
    BY <1>1, <1>2, <1>3, Sizes, WholeNext, WholeBlock, SMTT(60) DEF MaxBlockLen
<1>5. inbox # <<>>
    BY <1>1 DEF Take
<1>6. LibInv' /\ Place' /\ Handle' /\ Endpoint' /\ Stopped'
    <2>1. "data" \in StepsOf(job.call)
        BY <1>2 DEF StepsOf
    <2>2. result' \in {"ok", "error"} /\ sec' \in Nat /\ buf' \in Seq(Values \cup {Echo})
        BY <1>1, <1>2 DEF TypeOK
    <2> QED
        BY <1>1, <1>4, <2>1, <2>2, TakesStep
<1>7. Position'
    BY <1>1, <1>3, <1>4 DEF Position, Whole
<1>8. Writing'
    BY <1>1, <1>2, <1>4, <1>5, Sizes DEF Writing, WrittenTo
<1>9. Erasing' /\ Fetching' /\ Loading' /\ Poking' /\ DataArrives'
    BY <1>1 DEF Erasing, Fetching, Loading, Poking, DataArrives, Reported
<1> QED
    BY <1>6, <1>7, <1>8, <1>9 DEF IInv, Bases, Outcome

LEMMA WriteDoneStep ==
    ASSUME IInv, WriteDone
    PROVE  IInv'
<1>1. step = "data" /\ Finishes("idle") /\ job' = job
    BY DEF WriteDone, Finishes
<1>2. job.call = "write"
    BY <1>1, WriteJob
<1>3. DataArrives'
    BY <1>1, <1>2 DEF DataArrives, Reported
<1> QED
    BY <1>1, <1>3, ReturnsStep

-----------------------------------------------------------------------------
\* An answer goes to the end of what was read already.
LEMMA Reads ==
    ASSUME TypeOK, Endpoint, step # "idle", Take, NEW n \in 0 .. Block, Len(buf) = pos,
           buf' = buf \o [k \in 1 .. n |-> Answer[k - 1]]
    PROVE  /\ buf' \in Seq(Values \cup {Echo}) /\ Len(buf') = pos + n
           /\ \A k \in 1 .. pos : buf'[k] = buf[k]
           /\ \A k \in pos + 1 .. pos + n : buf'[k] = inbox[1][k - pos - 1]
<1> DEFINE new == [k \in 1 .. n |-> Answer[k - 1]]
<1>1. Answer = inbox[1] /\ inbox[1] \in Answers
    BY Takes
<1>2. n \in Nat /\ \A k \in 1 .. n : k - 1 \in Frame
    BY Sizes DEF Frame
<1>3. \A k \in 1 .. n : Answer[k - 1] \in Values \cup {Echo}
    BY <1>1, <1>2 DEF Answers
<1>4. new \in Seq(Values \cup {Echo}) /\ Len(new) = n
    <2>1. new \in [1 .. n -> Values \cup {Echo}]
        BY <1>3
    <2> HIDE DEF new
    <2> QED
        BY <1>2, <2>1, IsASeq, LenProperties
<1>5. \A k \in 1 .. n : new[k] = inbox[1][k - 1]
    BY <1>1
<1> HIDE DEF new
<1>6. buf \in Seq(Values \cup {Echo}) /\ buf' = buf \o new
    BY DEF TypeOK, new
<1>7. /\ buf' \in Seq(Values \cup {Echo}) /\ Len(buf') = pos + n
      /\ \A k \in 1 .. pos + n : buf'[k] = IF k <= pos THEN buf[k] ELSE new[k - pos]
    <2> DEFINE S == Values \cup {Echo}
    <2>1. buf \in Seq(S) /\ new \in Seq(S)
        BY <1>4, <1>6
    <2> HIDE DEF S
    <2>2. /\ buf \o new \in Seq(S) /\ Len(buf \o new) = Len(buf) + Len(new)
          /\ \A k \in 1 .. Len(buf) + Len(new) :
                (buf \o new)[k] = IF k <= Len(buf) THEN buf[k] ELSE new[k - Len(buf)]
        BY <2>1, ConcatProperties
    <2> QED
        BY <1>4, <1>6, <2>2 DEF S
<1>8. pos \in Nat
    BY DEF TypeOK
<1>9. \A k \in 1 .. pos : buf'[k] = buf[k]
    BY <1>2, <1>7, <1>8
<1>10. ASSUME NEW k \in pos + 1 .. pos + n PROVE buf'[k] = inbox[1][k - pos - 1]
    <2>1. k - pos \in 1 .. n /\ k \in 1 .. pos + n /\ ~(k <= pos)
        BY <1>2, <1>8
    <2> QED
        BY <1>5, <1>7, <2>1
<1> QED
    BY <1>7, <1>9, <1>10

LEMMA ReadJob ==
    ASSUME IInv, step \in {"fetch", "fetchAck"}
    PROVE  /\ job.call = "read" /\ job.base \in Nat /\ job.size \in Nat
           /\ pos \in Nat /\ pos < job.size + Block /\ Whole(pos) /\ Len(buf) = pos
           /\ dev \in Devices
<1>1. Place /\ Position /\ TypeOK
    BY DEF IInv, LibInv, Bases
<1>2. job.call = "read" /\ job \in Jobs
    BY <1>1, CallOf DEF Place
<1>3. /\ pos \in Nat /\ Whole(pos) /\ pos < job.size + Block /\ Len(buf) = pos /\ dev \in Devices
    BY <1>1, <1>2, JobFacts, Sizes DEF TypeOK, Position, Devices
<1> QED
    BY <1>2, <1>3, JobFacts

LEMMA ReadBlockStep ==
    ASSUME IInv, ReadBlock
    PROVE  IInv'
<1> DEFINE after == [dev EXCEPT !.rptr = dev.rptr + Block]
           answer == FlashAt(dev, dev.rptr)
<1>1. step = "fetch" /\ pos < job.size /\ Sends(after, answer, "fetchAck")
    BY DEF ReadBlock
<1>2. /\ job.call = "read" /\ job.base \in Nat /\ job.size \in Nat
      /\ pos \in Nat /\ Whole(pos) /\ Len(buf) = pos /\ dev \in Devices /\ Fetching /\ Stopped
    BY <1>1, ReadJob DEF IInv, Outcome
<1>3. /\ after \in Devices /\ after.fpga = dev.fpga /\ after.rptr = dev.rptr + Block
      /\ after.flash = dev.flash
    BY <1>2, Sizes DEF Devices
<1>4. answer \in Answers
    BY <1>2, Sizes DEF FlashAt, Answers, Devices
<1>5. ~dev.fpga => \A k \in Frame : dev.rptr + k \in Addr => answer[k] = dev.flash[dev.rptr + k]
    BY DEF FlashAt
<1> HIDE DEF after, answer
<1>6. "fetchAck" \in StepsOf(job.call)
    BY <1>2 DEF StepsOf
<1>7. /\ LibInv' /\ Place' /\ Handle' /\ Endpoint' /\ Stopped'
      /\ step' = "fetchAck" /\ UNCHANGED <<handle, job, pos, sec, buf, result, clean>>
      /\ dev' \in {dev, after}
      /\ clean' /\ inbox' # <<>> => handle = "good" /\ dev' = after /\ inbox' = <<answer>>
    BY <1>1, <1>3, <1>4, <1>6, SendsStep DEF Acks
<1>8. Position'
    BY <1>1, <1>2, <1>7 DEF Position, Whole
<1>9. Fetching'
    <2>1. ASSUME clean' PROVE FetchedTo(pos)'
        BY <1>1, <1>2, <1>3, <1>7, <2>1 DEF Fetching, FetchedTo
    <2>2. ASSUME clean', inbox' # <<>>
          PROVE  /\ (dev.rptr = job.base + pos + Block)'
                 /\ (\A k \in Frame : job.base + pos + k \in Addr =>
                        inbox[1][k] = dev.flash[job.base + pos + k])'
        <3>1. clean /\ dev.rptr = job.base + pos /\ ~dev.fpga /\ dev' = after /\ inbox' = <<answer>>
            BY <1>1, <1>2, <1>7, <2>2 DEF Fetching, Stopped, FlashCalls
        <3>2. inbox'[1] = answer /\ dev'.flash = dev.flash
            BY <1>3, <3>1
        <3>3. \A k \in Frame : job.base + pos + k \in Addr => answer[k] = dev.flash[job.base + pos + k]
            BY <1>5, <3>1
        <3> QED
            BY <1>3, <1>7, <3>1, <3>2, <3>3
    <2> QED
        BY <1>7, <2>1, <2>2 DEF Fetching
<1>10. Erasing' /\ Writing' /\ Loading' /\ Poking' /\ DataArrives'
    BY <1>7 DEF Erasing, Writing, Loading, Poking, DataArrives, Reported
<1> QED
    BY <1>7, <1>8, <1>9, <1>10 DEF IInv, Bases, Outcome

LEMMA ReadAckStep ==
    ASSUME IInv, ReadAck
    PROVE  IInv'
<1>1. /\ step = "fetchAck" /\ Take /\ pos' = pos + Block /\ step' = "fetch"
      /\ buf' = buf \o [k \in 1 .. Block |-> Answer[k - 1]]
      /\ UNCHANGED <<handle, cache, job, sec, own, plugged, dev, faults, used, told, clean, result>>
    BY DEF ReadAck, Acknowledged, Goto
<1>2. /\ job.call = "read" /\ job.base \in Nat /\ job.size \in Nat
      /\ pos \in Nat /\ Whole(pos) /\ pos < job.size /\ Len(buf) = pos
      /\ Fetching /\ TypeOK /\ Endpoint
    BY <1>1, ReadJob DEF IInv, LibInv, Bases, Outcome, Position
<1>3. pos + Block < job.size + Block
    BY <1>2, Sizes
<1>4. pos' \in Nat /\ Whole(pos')
    BY <1>1, <1>2, Sizes, WholeNext, WholeBlock
<1>5. inbox # <<>>
    BY <1>1 DEF Take
<1>6. /\ buf' \in Seq(Values \cup {Echo}) /\ Len(buf') = pos + Block
      /\ \A k \in 1 .. pos : buf'[k] = buf[k]
      /\ \A k \in pos + 1 .. pos + Block : buf'[k] = inbox[1][k - pos - 1]
    <2>1. Block \in 0 .. Block /\ step # "idle"
        BY <1>1, Sizes
    <2> QED
        BY <1>1, <1>2, <2>1, Reads
<1>7. LibInv' /\ Place' /\ Handle' /\ Endpoint' /\ Stopped'
    <2>1. "fetch" \in StepsOf(job.call)
        BY <1>2 DEF StepsOf
    <2>2. result' \in {"ok", "error"} /\ sec' \in Nat
        BY <1>1, <1>2 DEF TypeOK
    <2> QED
        BY <1>1, <1>4, <1>6, <2>1, <2>2, TakesStep
<1>8. Position'
    BY <1>1, <1>3, <1>4, <1>6 DEF Position, Whole
<1>9. Fetching'
    <2> SUFFICES ASSUME clean' PROVE FetchedTo(pos)' /\ (dev.rptr = job.base + pos)'
        BY <1>1 DEF Fetching
    <2>1. /\ FetchedTo(pos) /\ dev.rptr = job.base + pos + Block
          /\ \A k \in Frame : job.base + pos + k \in Addr => inbox[1][k] = dev.flash[job.base + pos + k]
        BY <1>1, <1>2, <1>5 DEF Fetching
    <2>2. ASSUME NEW k \in 1 .. pos + Block, job.base + k - 1 \in Addr
          PROVE  buf'[k] = dev.flash[job.base + k - 1]
        <3>1. CASE k <= pos
            BY <1>2, <1>6, <2>1, <2>2, <3>1 DEF FetchedTo
        <3>2. CASE k > pos
            <4>1. PICK i \in Frame : i = k - pos - 1
                BY <1>2, <3>2, Sizes DEF Frame
            <4>2. job.base + pos + i = job.base + k - 1 /\ k \in pos + 1 .. pos + Block
                BY <1>2, <3>2, <4>1, Sizes
            <4>3. inbox[1][i] = dev.flash[job.base + k - 1]
                BY <2>1, <2>2, <4>2
            <4> QED
                BY <1>6, <4>1, <4>2, <4>3
        <3> QED
            BY <1>2, <3>1, <3>2
    <2>3. FetchedTo(pos)'
        BY <1>1, <2>2 DEF FetchedTo
    <2> QED
        BY <1>1, <1>2, <2>1, <2>3, Sizes
<1>10. Erasing' /\ Writing' /\ Loading' /\ Poking' /\ DataArrives'
    BY <1>1 DEF Erasing, Writing, Loading, Poking, DataArrives, Reported
<1> QED
    BY <1>7, <1>8, <1>9, <1>10 DEF IInv, Bases, Outcome

LEMMA ReadDoneStep ==
    ASSUME IInv, ReadDone
    PROVE  IInv'
<1>1. step = "fetch" /\ pos >= job.size /\ Finishes("idle")
      /\ UNCHANGED <<job, buf, dev, clean>>
    BY DEF ReadDone, Finishes, link
<1>2. /\ job.call = "read" /\ job.size \in Nat /\ pos \in Nat /\ job.base \in Nat
      /\ pos \in job.size .. job.size + Block - 1 /\ Len(buf) = pos
    BY <1>1, ReadJob, Sizes
<1>3. clean => FetchedTo(job.size)
    BY <1>1, <1>2 DEF IInv, Outcome, Fetching, FetchedTo
<1>4. DataArrives'
    BY <1>1, <1>2, <1>3 DEF DataArrives, Reported, Region, FetchedTo
<1> QED
    BY <1>1, <1>4, ReturnsStep

-----------------------------------------------------------------------------
LEMMA MemJob ==
    ASSUME IInv, step \in {"mem", "memAck", "start", "startAck", "poke", "pokeAck", "stop", "stopAck"}
    PROVE  /\ job.base \in Nat /\ job.size \in Nat /\ pos \in Nat /\ dev \in Devices
           /\ step \in {"mem", "memAck"} => job.call = "readmem"
           /\ step \notin {"mem", "memAck"} =>
                 job.call = "writemem" /\ job.data \in [0 .. job.size - 1 -> Bytes]
           /\ pos < job.size =>
                 /\ Size \in 0 .. Block /\ pos + Size <= job.size
                 /\ \A k \in Frame : k < Size => pos + k \in 0 .. job.size - 1
<1>1. Place /\ Position /\ TypeOK
    BY DEF IInv, LibInv, Bases
<1>2. /\ step \in {"mem", "memAck"} => job.call = "readmem"
      /\ step \notin {"mem", "memAck"} => job.call = "writemem"
      /\ job \in Jobs /\ pos \in Nat /\ dev \in Devices
    BY <1>1, CallOf DEF Place, TypeOK, Devices
<1>3. /\ job.base \in Nat /\ job.size \in Nat
      /\ job.call = "writemem" => job.data \in [0 .. job.size - 1 -> Bytes]
    BY <1>2, JobFacts
<1>4. pos < job.size =>
        /\ Size \in 0 .. Block /\ pos + Size <= job.size
        /\ \A k \in Frame : k < Size => pos + k \in 0 .. job.size - 1
    BY <1>2, <1>3, Sizes DEF Size, Frame
<1> QED
    BY <1>2, <1>3, <1>4

LEMMA ReadMemStep ==
    ASSUME IInv, ReadMem
    PROVE  IInv'
<1> DEFINE answer == MemAt(dev, job.base + pos)
<1>1. step = "mem" /\ pos < job.size /\ Sends(dev, answer, "memAck")
    BY DEF ReadMem
<1>2. /\ job.call = "readmem" /\ job.base \in Nat /\ job.size \in Nat
      /\ pos \in Nat /\ dev \in Devices /\ Loading /\ Position
    BY <1>1, MemJob DEF IInv, Bases, Outcome
<1>3. answer \in Answers
    BY <1>2, Sizes DEF MemAt, Answers, Devices
<1>4. \A k \in Frame : job.base + pos + k \in MemAddr => answer[k] = dev.ram[job.base + pos + k]
    BY DEF MemAt
<1> HIDE DEF answer
<1>5. "memAck" \in StepsOf(job.call)
    BY <1>2 DEF StepsOf
<1>6. /\ LibInv' /\ Place' /\ Handle' /\ Endpoint' /\ Stopped'
      /\ step' = "memAck" /\ UNCHANGED <<handle, job, pos, sec, buf, result, clean>>
      /\ dev' = dev
      /\ clean' /\ inbox' # <<>> => inbox' = <<answer>>
    BY <1>1, <1>2, <1>3, <1>5, SendsStep DEF Acks
<1>7. Position'
    BY <1>1, <1>2, <1>6 DEF Position
<1>8. Loading'
    <2>1. clean' => LoadedTo(pos)'
        BY <1>1, <1>2, <1>6 DEF Loading, LoadedTo
    <2>2. ASSUME clean', inbox' # <<>>
          PROVE  (\A k \in Frame : job.base + pos + k \in MemAddr =>
                     inbox[1][k] = dev.ram[job.base + pos + k])'
        <3>1. inbox'[1] = answer
            BY <1>6, <2>2
        <3> QED
            BY <1>4, <1>6, <3>1
    <2> QED
        BY <1>6, <2>1, <2>2 DEF Loading
<1>9. Erasing' /\ Writing' /\ Fetching' /\ Poking' /\ DataArrives'
    BY <1>6 DEF Erasing, Writing, Fetching, Poking, DataArrives, Reported
<1> QED
    BY <1>6, <1>7, <1>8, <1>9 DEF IInv, Bases, Outcome

LEMMA ReadMemAckStep ==
    ASSUME IInv, ReadMemAck
    PROVE  IInv'
<1>1. /\ step = "memAck" /\ Take /\ pos' = pos + Size /\ step' = "mem"
      /\ buf' = buf \o [k \in 1 .. Size |-> Answer[k - 1]]
      /\ UNCHANGED <<handle, cache, job, sec, own, plugged, dev, faults, used, told, clean, result>>
    BY DEF ReadMemAck, Acknowledged, Goto
<1>2. /\ job.call = "readmem" /\ job.base \in Nat /\ job.size \in Nat
      /\ pos \in Nat /\ pos < job.size /\ Len(buf) = pos
      /\ Size \in 0 .. Block /\ pos + Size <= job.size
      /\ Loading /\ TypeOK /\ Endpoint /\ Place
    BY <1>1, MemJob DEF IInv, LibInv, Bases, Outcome, Position
<1>3. Size \in Nat /\ pos' \in Nat /\ inbox # <<>>
    BY <1>1, <1>2, Sizes DEF Take
<1>4. /\ buf' \in Seq(Values \cup {Echo}) /\ Len(buf') = pos + Size
      /\ \A k \in 1 .. pos : buf'[k] = buf[k]
      /\ \A k \in pos + 1 .. pos + Size : buf'[k] = inbox[1][k - pos - 1]
    BY <1>1, <1>2, Reads
<1>5. LibInv' /\ Place' /\ Handle' /\ Endpoint' /\ Stopped'
    <2>1. "mem" \in StepsOf(job.call)
        BY <1>2 DEF StepsOf
    <2>2. result' \in {"ok", "error"} /\ sec' \in Nat
        BY <1>1, <1>2 DEF TypeOK
    <2> QED
        BY <1>1, <1>3, <1>4, <2>1, <2>2, TakesStep
<1>6. Position'
    BY <1>1, <1>2, <1>3, <1>4 DEF Position
<1>7. Loading'
    <2> SUFFICES ASSUME clean' PROVE LoadedTo(pos)'
        BY <1>1 DEF Loading
    <2>1. /\ LoadedTo(pos)
          /\ \A k \in Frame : job.base + pos + k \in MemAddr => inbox[1][k] = dev.ram[job.base + pos + k]
        BY <1>1, <1>2, <1>3 DEF Loading
    <2>2. ASSUME NEW k \in 1 .. pos + Size, job.base + k - 1 \in MemAddr
          PROVE  buf'[k] = dev.ram[job.base + k - 1]
        <3>1. CASE k <= pos
            BY <1>2, <1>4, <2>1, <2>2, <3>1 DEF LoadedTo
        <3>2. CASE k > pos
            <4>1. PICK i \in Frame : i = k - pos - 1
                BY <1>2, <1>3, <3>2, Sizes DEF Frame
            <4>2. job.base + pos + i = job.base + k - 1 /\ k \in pos + 1 .. pos + Size
                BY <1>2, <1>3, <3>2, <4>1, Sizes
            <4>3. inbox[1][i] = dev.ram[job.base + k - 1]
                BY <2>1, <2>2, <4>2
            <4> QED
                BY <1>4, <4>1, <4>2, <4>3
        <3> QED
            BY <1>2, <1>3, <3>1, <3>2
    <2> QED
        BY <1>1, <2>2 DEF LoadedTo
<1>8. Erasing' /\ Writing' /\ Fetching' /\ Poking' /\ DataArrives'
    BY <1>1 DEF Erasing, Writing, Fetching, Poking, DataArrives, Reported
<1> QED
    BY <1>5, <1>6, <1>7, <1>8 DEF IInv, Bases, Outcome

LEMMA ReadMemDoneStep ==
    ASSUME IInv, ReadMemDone
    PROVE  IInv'
<1>1. step = "mem" /\ pos >= job.size /\ Finishes("idle")
      /\ UNCHANGED <<job, buf, dev, clean>>
    BY DEF ReadMemDone, Finishes, link
<1>2. /\ job.call = "readmem" /\ job.size \in Nat /\ pos \in Nat /\ job.base \in Nat
      /\ pos = job.size /\ Len(buf) = pos
    BY <1>1, MemJob DEF IInv, Bases, Position
<1>3. clean => LoadedTo(job.size)
    BY <1>1, <1>2 DEF IInv, Outcome, Loading
<1>4. DataArrives'
    BY <1>1, <1>2, <1>3 DEF DataArrives, Reported, Region, LoadedTo
<1> QED
    BY <1>1, <1>4, ReturnsStep

LEMMA WriteMemStartStep ==
    ASSUME IInv, WriteMemStart
    PROVE  IInv'
<1> DEFINE after == [dev EXCEPT !.mptr = job.base]
<1>1. step = "start" /\ Sends(after, Same(Junk), "startAck")
    BY DEF WriteMemStart
<1>2. job.call = "writemem" /\ job.base \in Nat /\ job.size \in Nat /\ dev \in Devices /\ Position
    BY <1>1, MemJob DEF IInv, Bases
<1>3. after \in Devices /\ after.fpga = dev.fpga /\ after.mptr = job.base
    BY <1>2 DEF Devices
<1> HIDE DEF after
<1>4. "startAck" \in StepsOf(job.call) /\ Same(Junk) \in Answers
    BY <1>2, Sizes DEF StepsOf, Answers, Same
<1>5. /\ LibInv' /\ Place' /\ Handle' /\ Endpoint' /\ Stopped'
      /\ step' = "startAck" /\ UNCHANGED <<handle, job, pos, sec, buf, result, clean>>
      /\ clean' /\ inbox' # <<>> => dev' = after
    BY <1>1, <1>3, <1>4, SendsStep DEF Acks
<1>6. Position'
    BY <1>1, <1>2, <1>5 DEF Position
<1>7. Poking'
    BY <1>3, <1>5 DEF Poking
<1>8. Erasing' /\ Writing' /\ Fetching' /\ Loading' /\ DataArrives'
    BY <1>5 DEF Erasing, Writing, Fetching, Loading, DataArrives, Reported
<1> QED
    BY <1>5, <1>6, <1>7, <1>8 DEF IInv, Bases, Outcome

LEMMA WriteMemStartAckStep ==
    ASSUME IInv, WriteMemStartAck
    PROVE  IInv'
<1>1. /\ step = "startAck" /\ Take /\ pos' = pos + 0 /\ step' = "poke"
      /\ UNCHANGED <<handle, cache, job, sec, buf, own, plugged, dev, faults, used, told, clean, result>>
    BY DEF WriteMemStartAck, Acknowledged, Goto
<1>2. /\ job.call = "writemem" /\ job.base \in Nat /\ job.size \in Nat /\ pos = 0
      /\ Poking /\ TypeOK /\ inbox # <<>>
    BY <1>1, MemJob DEF IInv, LibInv, Bases, Outcome, Position, Take
<1>3. LibInv' /\ Place' /\ Handle' /\ Endpoint' /\ Stopped'
    <2>1. "poke" \in StepsOf(job.call)
        BY <1>2 DEF StepsOf
    <2>2. /\ result' \in {"ok", "error"} /\ sec' \in Nat /\ pos' \in Nat
          /\ buf' \in Seq(Values \cup {Echo})
        BY <1>1, <1>2 DEF TypeOK
    <2> QED
        BY <1>1, <2>1, <2>2, TakesStep
<1>4. Position'
    BY <1>1, <1>2 DEF Position
<1>5. Poking'
    BY <1>1, <1>2 DEF Poking, PokedTo
<1>6. Erasing' /\ Writing' /\ Fetching' /\ Loading' /\ DataArrives'
    BY <1>1 DEF Erasing, Writing, Fetching, Loading, DataArrives, Reported
<1> QED
    BY <1>3, <1>4, <1>5, <1>6 DEF IInv, Bases, Outcome

LEMMA WriteMemStep ==
    ASSUME IInv, WriteMem
    PROVE  IInv'
<1> DEFINE bytes == [k \in Frame |-> IF k < Size THEN job.data[pos + k] ELSE Junk]
           after == Poke(dev, Size, bytes)
<1>1. step = "poke" /\ pos < job.size /\ Sends(after, Same(Junk), "pokeAck")
    BY DEF WriteMem
<1>2. /\ job.call = "writemem" /\ job.base \in Nat /\ job.size \in Nat
      /\ job.data \in [0 .. job.size - 1 -> Bytes]
      /\ pos \in Nat /\ dev \in Devices /\ Poking /\ Position
      /\ Size \in 0 .. Block /\ pos + Size <= job.size
      /\ \A k \in Frame : k < Size => pos + k \in 0 .. job.size - 1
    BY <1>1, MemJob DEF IInv, Bases, Outcome
<1>3. Size \in Nat /\ Size <= Block
    BY <1>2, Sizes
<1>4. bytes \in [Frame -> Values]
    BY <1>2, Sizes
<1>5. \A k \in Frame : k < Size => bytes[k] = job.data[pos + k]
    OBVIOUS
<1> HIDE DEF bytes
<1>6. /\ after \in Devices /\ after.fpga = dev.fpga /\ after.mptr = dev.mptr + Size
      /\ \A a \in MemAddr : after.ram[a] =
            IF dev.mptr <= a /\ a < dev.mptr + Size THEN bytes[a - dev.mptr] ELSE dev.ram[a]
    BY <1>2, <1>4, PokeEffect
<1> HIDE DEF after
<1>7. "pokeAck" \in StepsOf(job.call) /\ Same(Junk) \in Answers
    BY <1>2, Sizes DEF StepsOf, Answers, Same
<1>8. /\ LibInv' /\ Place' /\ Handle' /\ Endpoint' /\ Stopped'
      /\ step' = "pokeAck" /\ UNCHANGED <<handle, job, pos, sec, buf, result, clean>>
      /\ clean' /\ inbox' # <<>> => dev' = after
    BY <1>1, <1>6, <1>7, SendsStep DEF Acks
<1>9. Position'
    BY <1>1, <1>2, <1>8 DEF Position
<1>10. Poking'
    <2> SUFFICES ASSUME clean', inbox' # <<>>
                 PROVE  (dev.mptr = job.base + pos + Size)' /\ PokedTo(pos + Size)'
        BY <1>8 DEF Poking
    <2>1. clean /\ dev' = after /\ dev.mptr = job.base + pos /\ PokedTo(pos)
        BY <1>1, <1>2, <1>8 DEF Poking
    <2>2. Size' = Size
        BY <1>8 DEF Size
    <2>3. ASSUME NEW k \in 0 .. pos + Size - 1, job.base + k \in MemAddr
          PROVE  dev'.ram[job.base + k] = job.data[k]
        <3>1. PICK a \in MemAddr : a = job.base + k
            BY <2>3
        <3>2. dev'.ram[a] = IF dev.mptr <= a /\ a < dev.mptr + Size THEN bytes[a - dev.mptr] ELSE dev.ram[a]
            BY <1>6, <2>1
        <3>3. CASE k < pos
            <4>1. dev'.ram[a] = dev.ram[a]
                BY <1>2, <1>3, <2>1, <3>1, <3>2, <3>3
            <4> QED
                BY <1>2, <2>1, <2>3, <3>1, <3>3, <4>1 DEF PokedTo
        <3>4. CASE k >= pos
            <4>1. PICK i \in Frame : i = k - pos
                BY <1>2, <1>3, <3>4, Sizes DEF Frame
            <4>2. a - dev.mptr = i /\ dev.mptr <= a /\ a < dev.mptr + Size /\ pos + i = k /\ i < Size
                BY <1>2, <1>3, <2>1, <3>1, <3>4, <4>1
            <4>3. dev'.ram[a] = bytes[i]
                BY <3>2, <4>2
            <4> QED
                BY <1>5, <3>1, <4>2, <4>3
        <3> QED
            BY <1>2, <1>3, <3>3, <3>4
    <2>4. PokedTo(pos + Size)'
        <3>1. PICK n \in Nat : n = pos + Size
            BY <1>2, <1>3
        <3>2. (pos + Size)' = n
            BY <1>8, <2>2, <3>1
        <3>3. \A k \in 0 .. n - 1 : job.base + k \in MemAddr => dev'.ram[job.base + k] = job.data[k]
            BY <1>2, <1>3, <2>3, <3>1
        <3>4. \A k \in 0 .. n - 1 : job'.base + k \in MemAddr => dev'.ram[job'.base + k] = job'.data[k]
            BY <1>8, <3>3
        <3> QED
            BY <3>2, <3>4 DEF PokedTo
    <2> QED
        BY <1>6, <1>8, <2>1, <2>2, <2>4
<1>11. Erasing' /\ Writing' /\ Fetching' /\ Loading' /\ DataArrives'
    BY <1>8 DEF Erasing, Writing, Fetching, Loading, DataArrives, Reported
<1> QED
    BY <1>8, <1>9, <1>10, <1>11 DEF IInv, Bases, Outcome

LEMMA WriteMemAckStep ==
    ASSUME IInv, WriteMemAck
    PROVE  IInv'
<1>1. /\ step = "pokeAck" /\ Take /\ pos' = pos + Size /\ step' = "poke"
      /\ UNCHANGED <<handle, cache, job, sec, buf, own, plugged, dev, faults, used, told, clean, result>>
    BY DEF WriteMemAck, Acknowledged, Goto
<1>2. /\ job.call = "writemem" /\ job.base \in Nat /\ job.size \in Nat /\ pos \in Nat /\ pos < job.size
      /\ Size \in 0 .. Block /\ pos + Size <= job.size /\ Poking /\ TypeOK /\ inbox # <<>>
    BY <1>1, MemJob DEF IInv, LibInv, Bases, Outcome, Position, Take
<1>3. Size \in Nat /\ pos' \in Nat
    BY <1>1, <1>2, Sizes
<1>4. LibInv' /\ Place' /\ Handle' /\ Endpoint' /\ Stopped'
    <2>1. "poke" \in StepsOf(job.call)
        BY <1>2 DEF StepsOf
    <2>2. result' \in {"ok", "error"} /\ sec' \in Nat /\ buf' \in Seq(Values \cup {Echo})
        BY <1>1, <1>2 DEF TypeOK
    <2> QED
        BY <1>1, <1>3, <2>1, <2>2, TakesStep
<1>5. Position'
    BY <1>1, <1>2, <1>3 DEF Position
<1>6. Poking'
    BY <1>1, <1>2, <1>3 DEF Poking, PokedTo
<1>7. Erasing' /\ Writing' /\ Fetching' /\ Loading' /\ DataArrives'
    BY <1>1 DEF Erasing, Writing, Fetching, Loading, DataArrives, Reported
<1> QED
    BY <1>4, <1>5, <1>6, <1>7 DEF IInv, Bases, Outcome

LEMMA WriteMemDoneStep ==
    ASSUME IInv, WriteMemDone
    PROVE  IInv'
<1>1. step = "poke" /\ pos >= job.size /\ Finishes("stop")
    BY DEF WriteMemDone
<1>2. /\ job.call = "writemem" /\ job.size \in Nat /\ pos \in Nat /\ pos = job.size /\ Poking
    BY <1>1, MemJob DEF IInv, Bases, Outcome, Position
<1>3. "stop" \in StepsOf(job.call)
    BY <1>2 DEF StepsOf
<1>4. /\ LibInv' /\ Place' /\ Handle' /\ Endpoint' /\ Stopped' /\ step' = "stop"
      /\ UNCHANGED <<job, pos, sec, buf, inbox, dev, clean>>
    BY <1>1, <1>3, FinishesStep DEF Acks
<1>5. Position' /\ Poking'
    BY <1>1, <1>2, <1>4 DEF Position, Poking, PokedTo
<1>6. Erasing' /\ Writing' /\ Fetching' /\ Loading' /\ DataArrives'
    BY <1>4 DEF Erasing, Writing, Fetching, Loading, DataArrives, Reported
<1> QED
    BY <1>4, <1>5, <1>6 DEF IInv, Bases, Outcome

LEMMA WriteMemStopStep ==
    ASSUME IInv, WriteMemStop
    PROVE  IInv'
<1>1. step = "stop" /\ Sends(dev, Same(Junk), "stopAck")
    BY DEF WriteMemStop
<1>2. job.call = "writemem" /\ dev \in Devices /\ Position /\ Poking
    BY <1>1, MemJob DEF IInv, Bases, Outcome
<1>3. "stopAck" \in StepsOf(job.call) /\ Same(Junk) \in Answers
    BY <1>2, Sizes DEF StepsOf, Answers, Same
<1>4. /\ LibInv' /\ Place' /\ Handle' /\ Endpoint' /\ Stopped'
      /\ step' = "stopAck" /\ UNCHANGED <<handle, job, pos, sec, buf, result, clean>>
      /\ dev' = dev
    BY <1>1, <1>2, <1>3, SendsStep DEF Acks
<1>5. Position' /\ Poking'
    BY <1>1, <1>2, <1>4 DEF Position, Poking, PokedTo
<1>6. Erasing' /\ Writing' /\ Fetching' /\ Loading' /\ DataArrives'
    BY <1>4 DEF Erasing, Writing, Fetching, Loading, DataArrives, Reported
<1> QED
    BY <1>4, <1>5, <1>6 DEF IInv, Bases, Outcome

LEMMA WriteMemStopAckStep ==
    ASSUME IInv, WriteMemStopAck
    PROVE  IInv'
<1>1. /\ step = "stopAck" /\ Take /\ step' = "idle" /\ result' = "ok"
      /\ UNCHANGED <<handle, cache, job, pos, sec, buf, own, plugged, dev, faults, used, told, clean>>
    BY DEF WriteMemStopAck, Return
<1>2. /\ job.call = "writemem" /\ job.base \in Nat /\ job.size \in Nat
      /\ TypeOK /\ CacheTells /\ Handle /\ Endpoint /\ Poking
    BY <1>1, MemJob DEF IInv, LibInv, Bases, Outcome
<1>3. inbox' \in Seq(Answers)
    BY <1>1, <1>2, Takes
<1>4. TypeOK'
    BY <1>1, <1>2, <1>3 DEF TypeOK, Answers, Steps
<1>5. CacheTells' /\ Handle'
    BY <1>1, <1>2 DEF CacheTells, Handle
<1>6. DataArrives'
    <2> SUFFICES ASSUME clean
                 PROVE  \A k \in DOMAIN Region :
                           Region[k] \in MemAddr => dev.ram[Region[k]] = job.data[k - 1]
        BY <1>1, <1>2 DEF DataArrives, Reported, Region
    <2>1. PokedTo(job.size)
        BY <1>1, <1>2 DEF Poking
    <2>2. ASSUME NEW k \in 1 .. job.size, job.base + k - 1 \in MemAddr
          PROVE  dev.ram[job.base + k - 1] = job.data[k - 1]
        <3>1. PICK i \in 0 .. job.size - 1 : i = k - 1
            BY <1>2
        <3>2. job.base + i = job.base + k - 1
            BY <1>2, <3>1
        <3> QED
            BY <2>1, <2>2, <3>1, <3>2 DEF PokedTo
    <2> QED
        BY <2>2 DEF Region
<1> QED
    BY <1>1, <1>4, <1>5, <1>6, Ends

-----------------------------------------------------------------------------
\* Between calls, and around them.
LEMMA OpenStep ==
    ASSUME IInv, Open
    PROVE  IInv'
<1>1. /\ step = "idle" /\ handle' = IF ~plugged THEN "none" ELSE IF Claimed THEN "unclaimed" ELSE "good"
      /\ UNCHANGED <<cache, job, step, pos, sec, buf, result, inbox, own, plugged, dev, faults,
                     used, told, clean>>
    BY DEF Open, link
<1>2. TypeOK /\ CacheTells /\ DataArrives
    BY DEF IInv, LibInv, Outcome
<1>3. TypeOK' /\ CacheTells' /\ Handle'
    BY <1>1, <1>2 DEF TypeOK, CacheTells, Handle
<1>4. DataArrives'
    BY <1>1, <1>2 DEF DataArrives, Reported, Region
<1> QED
    BY <1>1, <1>3, <1>4, Ends

LEMMA CloseStep ==
    ASSUME IInv, Close
    PROVE  IInv'
<1>1. /\ step = "idle" /\ handle' \in {"none", "held"}
      /\ UNCHANGED <<cache, job, step, pos, sec, buf, result, inbox, own, plugged, dev, faults,
                     used, told, clean>>
    BY DEF Close, link
<1>2. TypeOK /\ CacheTells /\ DataArrives
    BY DEF IInv, LibInv, Outcome
<1>3. TypeOK' /\ CacheTells' /\ Handle'
    BY <1>1, <1>2 DEF TypeOK, CacheTells, Handle
<1>4. DataArrives'
    BY <1>1, <1>2 DEF DataArrives, Reported, Region
<1> QED
    BY <1>1, <1>3, <1>4, Ends

\* The Chameleon goes away: there is nothing in the endpoint any more.
LEMMA UnplugStep ==
    ASSUME IInv, Unplug
    PROVE  IInv'
<1>1. /\ plugged' = FALSE /\ faults' = faults + 1 /\ inbox' = <<>>
      /\ handle' \in {"none", "stale"}
      /\ UNCHANGED <<cache, job, step, pos, sec, buf, result, own, dev, used, told, clean>>
    BY DEF Unplug
<1>2. TypeOK /\ CacheTells /\ Place /\ Endpoint /\ Position /\ Outcome
    BY DEF IInv, LibInv, Bases
<1>3. inbox' \in Seq(Answers)
    BY <1>1, EmptySeq
<1>4. TypeOK'
    <2>1. handle' \in {"none", "good", "unclaimed", "stale", "held"} /\ faults' \in Nat
        BY <1>1, <1>2 DEF TypeOK
    <2> QED
        BY <1>1, <1>2, <1>3, <2>1 DEF TypeOK, Answers
<1>5. CacheTells' /\ Place' /\ Handle' /\ Endpoint'
    BY <1>1, <1>2 DEF TypeOK, CacheTells, Place, BadArguments, Handle, Endpoint
<1>6. Position'
    BY <1>1, <1>2 DEF Position, Sectors, Whole
<1>7. Stopped'
    BY <1>1, <1>2 DEF Stopped, TypeOK
<1>8. Erasing' /\ Writing'
    BY <1>1, <1>2 DEF Outcome, Erasing, ErasedTo, Writing, WrittenTo
<1>9. Fetching' /\ Loading'
    BY <1>1, <1>2 DEF Outcome, Fetching, FetchedTo, Loading, LoadedTo
<1>10. Poking'
    BY <1>1, <1>2 DEF Outcome, Poking, PokedTo
<1>11. DataArrives'
    BY <1>1, <1>2 DEF Outcome, DataArrives, Reported, Region
<1> QED
    BY <1>4, <1>5, <1>6, <1>7, <1>8, <1>9, <1>10, <1>11 DEF IInv, LibInv, Bases, Outcome

\* It comes back, perhaps with a running FPGA; no handle works then.
LEMMA ReplugStep ==
    ASSUME IInv, Replug
    PROVE  IInv'
<1>1. /\ ~plugged /\ plugged' = TRUE /\ told' = FALSE
      /\ dev' \in {dev, [dev EXCEPT !.fpga = TRUE]}
      /\ UNCHANGED <<handle, cache, job, step, pos, sec, buf, result, inbox, own, faults, used, clean>>
    BY DEF Replug, host
<1>2. TypeOK /\ Place /\ Handle /\ Endpoint /\ Position /\ Outcome
    BY DEF IInv, LibInv, Bases
<1>3. /\ dev' \in Devices /\ dev'.rptr = dev.rptr /\ dev'.wptr = dev.wptr /\ dev'.mptr = dev.mptr
      /\ dev'.flash = dev.flash /\ dev'.ram = dev.ram
    BY <1>1, <1>2 DEF TypeOK, Devices
<1>4. TypeOK'
    BY <1>1, <1>2, <1>3 DEF TypeOK, Devices
<1>5. CacheTells' /\ Place' /\ Handle' /\ Endpoint'
    BY <1>1, <1>2 DEF CacheTells, Place, BadArguments, Handle, Endpoint
<1>6. Position'
    BY <1>1, <1>2 DEF Position, Sectors, Whole
<1>7. Stopped'
    BY <1>1, <1>2 DEF Stopped, Handle
<1>8. Erasing' /\ Writing'
    BY <1>1, <1>2, <1>3 DEF Outcome, Erasing, ErasedTo, Writing, WrittenTo
<1>9. Fetching' /\ Loading'
    BY <1>1, <1>2, <1>3 DEF Outcome, Fetching, FetchedTo, Loading, LoadedTo
<1>10. Poking'
    <2>1. Size' = Size
        BY <1>1 DEF Size
    <2> QED
        BY <1>1, <1>2, <1>3, <2>1 DEF Outcome, Poking, PokedTo
<1>11. DataArrives'
    BY <1>1, <1>2, <1>3, ZenonT(60) DEF Outcome, DataArrives, Reported, Region
<1> QED
    BY <1>4, <1>5, <1>6, <1>7, <1>8, <1>9, <1>10, <1>11 DEF IInv, LibInv, Bases, Outcome

LEMMA StutterStep ==
    ASSUME IInv, UNCHANGED vars
    PROVE  IInv'
<1>1. UNCHANGED <<handle, cache, job, step, pos, sec, buf, result, inbox, own, plugged, dev, faults,
                  used, told, clean>>
    BY DEF vars, host, link
<1>2. LibInv /\ Bases /\ Outcome
    BY DEF IInv
<1>3. LibInv'
    BY <1>1, <1>2 DEF LibInv, TypeOK, CacheTells
<1>4. Bases'
    BY <1>1, <1>2 DEF Bases, Place, BadArguments, Handle, Endpoint, Position, Sectors, Whole
<1>5. Stopped' /\ Erasing' /\ Writing'
    BY <1>1, <1>2 DEF Outcome, Stopped, Erasing, ErasedTo, Writing, WrittenTo
<1>6. Fetching' /\ Loading'
    BY <1>1, <1>2 DEF Outcome, Fetching, FetchedTo, Loading, LoadedTo
<1>7. Poking'
    BY <1>1, <1>2 DEF Outcome, Poking, PokedTo, Size
<1>8. DataArrives'
    BY <1>1, <1>2 DEF Outcome, DataArrives, Reported, Region
<1> QED
    BY <1>3, <1>4, <1>5, <1>6, <1>7, <1>8 DEF IInv, Outcome

-----------------------------------------------------------------------------
LEMMA StartsInvariant ==
    ASSUME Init
    PROVE  IInv
<1>1. dev \in Devices
    BY Sizes DEF Init, Devices
<1>2. inbox \in Seq(Answers) /\ buf \in Seq(Values \cup {Echo})
    BY EmptySeq DEF Init
<1>3. TypeOK
    BY <1>1, <1>2 DEF Init, TypeOK, Devices, Answers, Steps
<1>4. CacheTells /\ Bases
    BY DEF Init, CacheTells, Bases, Place, Handle, Endpoint, Position
<1>5. Outcome
    BY DEF Init, Outcome, Stopped, Erasing, Writing, Fetching, Loading, Poking, DataArrives, Reported, Acks
<1> QED
    BY <1>3, <1>4, <1>5 DEF IInv, LibInv

LEMMA KeepsInvariant ==
    ASSUME IInv, [Next]_vars
    PROVE  IInv'
<1>1. ASSUME NEW j \in Jobs, Call(j) PROVE IInv'
    BY <1>1, CallStep
<1>2. CASE ReadTimesOut
    BY <1>2, TimesOutStep
<1>3. CASE FpgaReset
    BY <1>3, FpgaResetStep
<1>4. CASE SetPointer
    BY <1>4, SetPointerStep
<1>5. CASE Ask
    BY <1>5, AskStep
<1>6. CASE AskAck
    BY <1>6, AskAckStep
<1>7. CASE Bootloader
    BY <1>7, BootloaderStep
<1>8. CASE FlashSteps
    BY <1>8, EraseStep, EraseAckStep, EraseDoneStep, SkipRunStep, WriteBlockStep, WriteAckStep,
       WriteDoneStep, ReadBlockStep, ReadAckStep, ReadDoneStep DEF FlashSteps
<1>9. CASE MemorySteps
    BY <1>9, ReadMemStep, ReadMemAckStep, ReadMemDoneStep, WriteMemStartStep, WriteMemStartAckStep,
       WriteMemStep, WriteMemAckStep, WriteMemDoneStep, WriteMemStopStep, WriteMemStopAckStep
    DEF MemorySteps
<1>10. CASE Open
    BY <1>10, OpenStep
<1>11. CASE Close
    BY <1>11, CloseStep
<1>12. CASE Unplug
    BY <1>12, UnplugStep
<1>13. CASE Replug
    BY <1>13, ReplugStep
<1>14. CASE UNCHANGED vars
    BY <1>14, StutterStep
<1> QED
    BY <1>1, <1>2, <1>3, <1>4, <1>5, <1>6, <1>7, <1>8, <1>9, <1>10, <1>11, <1>12, <1>13, <1>14
    DEF Next, Library

LEMMA AlwaysInvariant == Spec => []IInv
BY StartsInvariant, KeepsInvariant, PTL DEF Spec

(***************************************************************************)
(* fpgarunning: the library never takes a running FPGA for a stopped one,  *)
(* unless a reset got lost or the Chameleon was unplugged since; and its   *)
(* variables hold what they are declared to hold.                          *)
(***************************************************************************)
THEOREM FpgaKnown == Spec => []LibInv
<1>1. IInv => LibInv
    BY DEF IInv
<1> QED
    BY <1>1, AlwaysInvariant, PTL

(***************************************************************************)
(* chameleon_readflash, readmemory and writememory: what they report as    *)
(* read is there, what they report as written is there too.                *)
(***************************************************************************)
THEOREM ReportedDataArrived == Spec => []DataArrives
<1>1. IInv => DataArrives
    BY DEF IInv, Outcome
<1> QED
    BY <1>1, AlwaysInvariant, PTL

-----------------------------------------------------------------------------
(***************************************************************************)
(* eraseflash and writeflash implement FlashStore.                         *)
(***************************************************************************)
OrderOf(j) == [a \in j.base .. j.base + j.size - 1 |->
                  IF j.call = "write" THEN j.data[a - j.base] ELSE FF]

Order == IF Working THEN Ordered ELSE <<>>

LEMMA Orders ==
    ASSUME NEW j \in Jobs, j.call \in FlashJobs, ~BadArguments(j)
    PROVE  /\ DOMAIN OrderOf(j) = j.base .. j.base + j.size - 1
           /\ j.base .. j.base + j.size - 1 \subseteq Addr
           /\ OrderOf(j) \in [DOMAIN OrderOf(j) -> Values]
           /\ OrderOf(j) # <<>>
<1>1. /\ j.base \in Nat /\ j.size \in Nat /\ j.base + j.size <= FlashSize
      /\ j.call = "write" => j.data \in [0 .. j.size - 1 -> Bytes]
    BY JobsAssumption
<1>2. j.size > 0
    BY <1>1, Sizes DEF BadArguments
<1>3. DOMAIN OrderOf(j) = j.base .. j.base + j.size - 1
    BY DEF OrderOf
<1>4. j.base .. j.base + j.size - 1 \subseteq Addr
    BY <1>1, Sizes DEF Addr
<1>5. \A a \in j.base .. j.base + j.size - 1 :
         (IF j.call = "write" THEN j.data[a - j.base] ELSE FF) \in Values
    <2> SUFFICES ASSUME NEW a \in j.base .. j.base + j.size - 1
                 PROVE  (IF j.call = "write" THEN j.data[a - j.base] ELSE FF) \in Values
        OBVIOUS
    <2>1. a - j.base \in 0 .. j.size - 1
        BY <1>1
    <2> QED
        BY <1>1, <2>1, Sizes
<1>6. OrderOf(j) \in [DOMAIN OrderOf(j) -> Values]
    BY <1>3, <1>5 DEF OrderOf
<1>7. OrderOf(j) # <<>>
    <2>1. j.base \in DOMAIN OrderOf(j)
        BY <1>1, <1>2, <1>3
    <2>2. DOMAIN <<>> = {}
        OBVIOUS
    <2> QED
        BY <2>1, <2>2
<1> QED
    BY <1>3, <1>4, <1>6, <1>7

LEMMA WorkingOrder ==
    ASSUME Place, Working
    PROVE  /\ Order = OrderOf(job) /\ Order # <<>> /\ Order \in [DOMAIN Order -> Values]
           /\ DOMAIN Order = job.base .. job.base + job.size - 1 /\ DOMAIN Order \subseteq Addr
<1>1. job \in Jobs /\ job.call \in FlashJobs /\ ~BadArguments(job)
    BY DEF Place, Working
<1>2. Order = OrderOf(job)
    BY DEF Order, Ordered, OrderOf
<1> QED
    BY <1>1, <1>2, Orders

\* Nobody else touches the flash.
LEMMA OthersKeepFlash ==
    ASSUME IInv, Next, ~Working
    PROVE  dev'.flash = dev.flash
<1>1. dev \in Devices /\ Place
    BY DEF IInv, LibInv, Bases, TypeOK, Devices
<1>2. ASSUME NEW j \in Jobs, Call(j) PROVE dev'.flash = dev.flash
    BY <1>2 DEF Call, link
<1>3. CASE ReadTimesOut \/ AskAck \/ Bootloader
    BY <1>3 DEF ReadTimesOut, AskAck, Bootloader
<1>4. CASE FpgaReset
    BY <1>1, <1>4 DEF FpgaReset, Devices
<1>5. CASE SetPointer
    <2>1. job.call \in {"read", "status"} /\ step = "pointer"
        BY <1>1, <1>5, CallOf DEF SetPointer, FlashCalls, Working
    <2>2. \E next : Tell([dev EXCEPT !.wptr = job.base], next) \/ Tell([dev EXCEPT !.rptr = job.base], next)
              \/ Tell([dev EXCEPT !.rptr = 0, !.wptr = 0], next)
        BY <1>5, <2>1 DEF SetPointer, FlashJobs
    <2> QED
        BY <1>1, <2>2 DEF Tell, Devices
<1>6. CASE Ask
    BY <1>1, <1>6 DEF Ask, Request, Devices
<1>7. CASE FlashSteps
    <2>1. ~(Erase \/ EraseAck \/ EraseDone \/ SkipRun \/ WriteBlock \/ WriteAck \/ WriteDone)
        BY <1>1, CallOf DEF Working, FlashJobs, Erase, EraseAck, EraseDone, SkipRun, WriteBlock, WriteAck,
           WriteDone
    <2>2. CASE ReadBlock
        BY <1>1, <2>2 DEF ReadBlock, Sends, Request, Devices
    <2>3. CASE ReadAck \/ ReadDone
        BY <2>3 DEF ReadAck, ReadDone, Acknowledged, Finishes, link
    <2> QED
        BY <1>7, <2>1, <2>2, <2>3 DEF FlashSteps
<1>8. CASE MemorySteps
    <2>1. CASE WriteMem
        BY <1>1, <2>1 DEF WriteMem, Sends, Request, Poke, Devices
    <2>2. CASE WriteMemStart \/ ReadMem \/ WriteMemStop
        BY <1>1, <2>2 DEF WriteMemStart, ReadMem, WriteMemStop, Sends, Request, Devices
    <2>3. CASE \/ ReadMemAck \/ ReadMemDone \/ WriteMemStartAck \/ WriteMemAck \/ WriteMemDone
               \/ WriteMemStopAck
        BY <2>3 DEF ReadMemAck, ReadMemDone, WriteMemStartAck, WriteMemAck, WriteMemDone,
           WriteMemStopAck, Acknowledged, Finishes, link
    <2> QED
        BY <1>8, <2>1, <2>2, <2>3 DEF MemorySteps
<1>9. CASE Open \/ Close \/ Unplug
    BY <1>9 DEF Open, Close, Unplug, link
<1>10. CASE Replug
    BY <1>1, <1>10 DEF Replug, Devices
<1> QED
    BY <1>2, <1>3, <1>4, <1>5, <1>6, <1>7, <1>8, <1>9, <1>10 DEF Next, Library

\* What a step does to the flash in the course of an order, and to what is reported of it.
Outside == \A a \in Addr : ~(job.base <= a /\ a < job.base + job.size) => dev'.flash[a] = dev.flash[a]

Wanted(k) == IF job.call = "write" THEN job.data[k] ELSE FF

Progress ==
    /\ job' = job
    /\ clean' => clean /\ Outside
    /\ step' # "idle" => result' = result
    /\ step' = "idle" /\ result' = "ok" /\ clean' =>
          \A k \in 0 .. job.size - 1 : dev'.flash[job.base + k] = Wanted(k)

LEMMA EraseProgress ==
    ASSUME IInv, Erase
    PROVE  Progress
<1> DEFINE s == job.base \div Sector + sec
<1>1. step = "erase" /\ sec < Sectors
    BY DEF Erase
<1>2. dev \in Devices /\ Place /\ sec \in Nat
    BY DEF IInv, LibInv, Bases, TypeOK, Devices
<1>3. /\ job.base \in Nat /\ job.size \in Nat
      /\ Sectors \in Nat /\ job.size = Sector * Sectors
      /\ job.base \div Sector \in Nat /\ job.base = Sector * (job.base \div Sector)
    BY <1>1, <1>2, CallOf, FlashJob
<1>4. /\ step' = "eraseAck" /\ job' = job /\ result' = result /\ clean' = clean
      /\ dev' = dev \/ dev' = EraseSector(dev, s)
    BY DEF Erase, Sends, Request
<1>5. /\ Sector * sec \in Nat /\ Sector * sec + Sector <= job.size
      /\ Sector * s = job.base + Sector * sec
    <2>1. Sector * sec \in Nat /\ Sector * sec + Sector <= job.size
        BY <1>1, <1>2, <1>3, SectorRoom
    <2>2. Sector * s = Sector * (job.base \div Sector) + Sector * sec
        BY <1>2, <1>3, Sizes
    <2> QED
        BY <1>3, <2>1, <2>2
<1>6. s \in Nat
    BY <1>2, <1>3
<1>7. \A a \in Addr : EraseSector(dev, s).flash[a] =
         IF ~dev.fpga /\ Sector * s <= a /\ a < Sector * s + Sector THEN FF ELSE dev.flash[a]
    BY <1>2, <1>6, EraseEffect
<1> HIDE DEF s
<1>8. ASSUME NEW a \in Addr, ~(job.base <= a /\ a < job.base + job.size)
      PROVE  dev'.flash[a] = dev.flash[a]
    <2>1. ~(Sector * s <= a /\ a < Sector * s + Sector)
        BY <1>3, <1>5, <1>8, Sizes DEF Addr
    <2> QED
        BY <1>4, <1>7, <2>1
<1> QED
    BY <1>4, <1>8 DEF Progress, Outside

LEMMA WriteBlockProgress ==
    ASSUME IInv, WriteBlock
    PROVE  Progress
<1>1. step = "data" /\ pos < job.size
    BY DEF WriteBlock
<1>2. /\ job.base \in Nat /\ job.size \in Nat /\ Whole(job.size) /\ pos \in Nat /\ Whole(pos)
      /\ dev \in Devices /\ Writing
    BY <1>1, WriteJob DEF IInv, Outcome
<1>3. pos + Block <= job.size
    BY <1>1, <1>2, WholeRoom
<1>4. /\ step' = "dataAck" /\ job' = job /\ result' = result /\ clean' = clean
      /\ dev' = dev \/ dev' = Program(dev, Literal)
    BY DEF WriteBlock, Sends, Request
<1>5. clean => dev.wptr = job.base + pos
    BY <1>1 , <1>2 DEF Writing
<1>6. ASSUME clean, NEW a \in Addr, ~(job.base <= a /\ a < job.base + job.size)
      PROVE  dev'.flash[a] = dev.flash[a]
    <2>1. ~(dev.wptr <= a /\ a < dev.wptr + Block)
        BY <1>2, <1>3, <1>5, <1>6, Sizes DEF Addr
    <2>2. Program(dev, Literal).flash[a] = dev.flash[a]
        BY <1>2, <2>1 DEF Program, Devices
    <2> QED
        BY <1>4, <2>2
<1> QED
    BY <1>4, <1>6 DEF Progress, Outside

LEMMA WorkProgress ==
    ASSUME IInv, Next, Working
    PROVE  Progress
<1>1. /\ Place /\ dev \in Devices /\ step # "idle" /\ job.call \in FlashJobs
      /\ job.base \in Nat /\ job.size \in Nat
    BY JobFacts DEF IInv, LibInv, Bases, TypeOK, Devices, Working, Place
<1>2. CASE ReadTimesOut
    BY <1>2 DEF ReadTimesOut, Return, Progress, Outside
<1>3. CASE FpgaReset
    BY <1>1, <1>3 DEF FpgaReset, Progress, Outside, Devices
<1>4. CASE SetPointer
    <2>1. Tell([dev EXCEPT !.wptr = job.base], "erase")
        BY <1>1, <1>4 DEF SetPointer, FlashJobs
    <2> QED
        BY <1>1, <2>1 DEF Tell, Progress, Outside, Devices
<1>5. CASE Erase
    BY <1>5, EraseProgress
<1>6. CASE EraseAck
    BY <1>6 DEF EraseAck, Return, Goto, Progress, Outside
<1>7. CASE EraseDone
    <2>1. /\ step = "erase" /\ sec >= Sectors /\ UNCHANGED <<job, dev, clean>>
          /\ IF job.call = "write" THEN step' = "data" /\ result' = result
                                   ELSE step' = "idle" /\ result' = "ok"
        BY <1>7 DEF EraseDone, Finishes, Return, Goto, link
    <2>2. Sectors \in Nat /\ job.size = Sector * Sectors /\ sec = Sectors /\ Erasing
        BY <1>1, <2>1, FlashJob DEF IInv, LibInv, TypeOK, Bases, Position, Outcome
    <2>3. clean => ErasedTo(job.size)
        BY <2>1, <2>2 DEF Erasing
    <2>4. job.call # "write" /\ clean =>
             \A k \in 0 .. job.size - 1 : dev'.flash[job.base + k] = Wanted(k)
        BY <2>1, <2>3 DEF ErasedTo, Wanted
    <2> QED
        BY <2>1, <2>4 DEF Progress, Outside
<1>8. CASE SkipRun
    <2>1. Tell([dev EXCEPT !.wptr = job.base + pos'], "data")
        BY <1>8 DEF SkipRun
    <2> QED
        BY <1>1, <2>1 DEF Tell, Progress, Outside, Devices
<1>9. CASE WriteBlock
    BY <1>9, WriteBlockProgress
<1>10. CASE WriteAck
    BY <1>10 DEF WriteAck, Acknowledged, Goto, Progress, Outside
<1>11. CASE WriteDone
    <2>1. /\ step = "data" /\ pos >= job.size /\ UNCHANGED <<job, dev, clean>>
          /\ step' = "idle" /\ result' = "ok"
        BY <1>11 DEF WriteDone, Finishes, Return, link
    <2>2. job.call = "write" /\ pos \in Nat /\ pos = job.size /\ Writing
        BY <1>1, <2>1, WriteJob DEF IInv, Outcome
    <2>3. clean => WrittenTo(job.size)
        BY <2>1, <2>2 DEF Writing
    <2>4. clean => \A k \in 0 .. job.size - 1 : dev'.flash[job.base + k] = Wanted(k)
        BY <1>1, <2>1, <2>2, <2>3 DEF WrittenTo, Wanted
    <2> QED
        BY <2>1, <2>4 DEF Progress, Outside
<1>12. CASE Unplug
    BY <1>1, <1>12 DEF Unplug, Progress, Outside
<1>13. CASE Replug
    BY <1>1, <1>13 DEF Replug, host, Progress, Outside, Devices
<1>14. ~(\E j \in Jobs : Call(j)) /\ ~Open /\ ~Close
    BY <1>1 DEF Call, Open, Close
<1>15. step \notin {"ask", "askAck", "fetch", "fetchAck", "mem", "memAck", "start", "startAck",
                    "poke", "pokeAck", "stop", "stopAck"}
    BY <1>1, CallOf DEF FlashJobs, FlashCalls
<1>16. ~Ask /\ ~AskAck /\ ~Bootloader /\ ~ReadBlock /\ ~ReadAck /\ ~ReadDone /\ ~MemorySteps
    BY <1>15 DEF Ask, AskAck, Bootloader, ReadBlock, ReadAck, ReadDone, MemorySteps, ReadMem, ReadMemAck,
       ReadMemDone, WriteMemStart, WriteMemStartAck, WriteMem, WriteMemAck, WriteMemDone, WriteMemStop,
       WriteMemStopAck
<1> QED
    BY <1>2, <1>3, <1>4, <1>5, <1>6, <1>7, <1>8, <1>9, <1>10, <1>11, <1>12, <1>13, <1>14, <1>16
    DEF Next, Library, FlashSteps

\* A step of the library is a step of the store, or none.
LEMMA StoreStep ==
    ASSUME IInv, IInv', [Next]_vars
    PROVE  [Store!Next]_(Store!fvars)
<1>1. /\ clean' \in BOOLEAN /\ result' \in {"ok", "error"} /\ dev'.flash \in [Addr -> Values]
      /\ Place /\ Place'
    BY DEF IInv, LibInv, TypeOK, Bases
<1>2. Order' = <<>> \/ Store!IsOrder(Order')
    <2>1. CASE Working'
        <3>1. job' \in Jobs /\ job'.call \in FlashJobs /\ ~BadArguments(job')
            BY <1>1, <2>1 DEF Place, Working, BadArguments
        <3>2. Order' = OrderOf(job')
            BY <2>1 DEF Order, Ordered, OrderOf
        <3> QED
            BY <3>1, <3>2, Orders DEF Store!IsOrder
    <2>2. CASE ~Working'
        BY <2>2 DEF Order
    <2> QED
        BY <2>1, <2>2
<1>3. CASE UNCHANGED vars
    BY <1>3 DEF vars, host, link, Store!fvars, Working, Ordered
<1>4. CASE Next /\ ~Working
    <2>1. Order = <<>> /\ dev'.flash = dev.flash
        BY <1>4, OthersKeepFlash DEF Order
    <2> QED
        BY <1>1, <1>2, <2>1 DEF Order, Store!Next, Store!Idle
<1>5. CASE Next /\ Working
    <2>1. Progress /\ job.base \in Nat /\ job.size \in Nat
        BY <1>1, <1>5, WorkProgress, JobFacts DEF Place, Working
    <2>2. /\ Order = OrderOf(job) /\ Order # <<>> /\ Order \in [DOMAIN Order -> Values]
          /\ DOMAIN Order = job.base .. job.base + job.size - 1 /\ DOMAIN Order \subseteq Addr
        BY <1>1, <1>5, WorkingOrder
    <2>3. clean' => clean /\ \A a \in Addr \ DOMAIN Order : dev'.flash[a] = dev.flash[a]
        <3>1. \A a \in Addr \ DOMAIN Order : ~(job.base <= a /\ a < job.base + job.size)
            BY <2>1, <2>2, Sizes DEF Addr
        <3> QED
            BY <2>1, <3>1 DEF Progress, Outside
    <2>4. Store!InRegion
        BY <1>1, <2>3 DEF Store!InRegion, Order
    <2>5. CASE step' # "idle"
        <3>1. Order' = Order /\ result' = result
            BY <1>5, <2>1, <2>5 DEF Progress, Order, Working, Ordered
        <3> QED
            BY <1>1, <2>2, <2>4, <3>1 DEF Order, Store!Next, Store!Work
    <2>6. CASE step' = "idle"
        <3>1. Order' = <<>>
            BY <2>6 DEF Order, Working
        <3>2. CASE result' = "error"
            BY <1>1, <2>2, <2>4, <3>1, <3>2 DEF Order, Store!Next, Store!Fail
        <3>3. CASE result' = "ok"
            <4>1. ASSUME clean', NEW a \in DOMAIN Order PROVE dev'.flash[a] = Order[a]
                <5>1. PICK k \in 0 .. job.size - 1 : job.base + k = a /\ a - job.base = k
                    <6>1. a - job.base \in 0 .. job.size - 1 /\ job.base + (a - job.base) = a
                        BY <2>1, <2>2
                    <6> QED
                        BY <6>1
                <5>2. dev'.flash[a] = Wanted(k)
                    BY <2>1, <2>6, <3>3, <4>1, <5>1 DEF Progress
                <5>3. Order[a] = Wanted(k)
                    BY <2>2, <5>1 DEF OrderOf, Wanted
                <5> QED
                    BY <5>2, <5>3
            <4> QED
                BY <1>1, <2>2, <2>4, <3>1, <3>3, <4>1 DEF Order, Store!Next, Store!Done
        <3> QED
            BY <1>1, <3>2, <3>3
    <2> QED
        BY <2>5, <2>6
<1> QED
    BY <1>3, <1>4, <1>5

(***************************************************************************)
(* While eraseflash and writeflash are at work the flash changes nowhere   *)
(* but in the region they were given; when they report success, what they  *)
(* were given is there.                                                    *)
(***************************************************************************)
THEOREM FlashIsStore == Spec => Stores
<1>1. Init => Store!Init
    <2> SUFFICES ASSUME Init PROVE Store!Init
        OBVIOUS
    <2>1. LibInv
        BY StartsInvariant DEF IInv
    <2> QED
        BY <2>1 DEF Init, LibInv, TypeOK, Store!Init, Working
<1>2. IInv /\ IInv' /\ [Next]_vars => [Store!Next]_(Store!fvars)
    BY StoreStep
<1> QED
    BY <1>1, <1>2, AlwaysInvariant, PTL DEF Spec, Stores, Store!Spec
=============================================================================
