------------------------------ MODULE ChacoLib ------------------------------
(***************************************************************************)
(* The library chacolib (chacolib.c over chacolib-libusb.c): a call of a   *)
(* program becomes a sequence of requests, one USB frame each, to the      *)
(* firmware of the Chameleon.  Some requests are answered with a frame,    *)
(* some are not, and no answer says which request it belongs to.           *)
(* chameleon_readdata gives up after a while, chameleon_writedata may fail *)
(* too, but hardly anybody looks at its result.                            *)
(*                                                                         *)
(* The firmware is external: it takes requests in order and executes each  *)
(* before the next; an answer nobody picked up stays in the endpoint until *)
(* the next read.                                                          *)
(***************************************************************************)
EXTENDS Integers, Sequences

CONSTANTS
    Block,        \* NUM_DATA_BYTES, 32
    Sector,       \* a sector of flash, $10000
    NumSectors,   \* of the flash, 256
    MemSize,      \* of the RAM
    RunMax,       \* the longest run rle_test counts, 512
    Bytes, FF,    \* the values of a byte; that of erased flash
    Junk,         \* any other value of a byte
    Echo,         \* the number of a slot, as cmd_set_jtagslot hears it back
    Jobs,         \* the calls considered
    MaxCalls,     \* calls per session
    MaxFaults     \* frames lost and answers late per session

FlashSize == Sector * NumSectors
Addr == 0 .. FlashSize - 1
MemAddr == 0 .. MemSize - 1
Values == Bytes \cup {Junk}

FlashJobs == {"write", "erase"}
Single == {"version", "status", "flashid", "jtagslot", "startcore"}
Calls == FlashJobs \cup Single \cup {"read", "readmem", "writemem", "bootloader"}

ASSUME ChacoLibAssumption ==
    /\ Block \in Nat /\ Block >= 2
    /\ Sector \in Nat /\ Sector > 0
    /\ \E n \in 0 .. Sector : Sector = n * Block
    /\ NumSectors \in Nat /\ MemSize \in Nat /\ RunMax \in Nat
    /\ FF \in Bytes /\ Junk \notin Bytes
    /\ MaxCalls \in Nat /\ MaxFaults \in Nat

\* A call has a base address, a size, and the data to be written.
ASSUME JobsAssumption == \A j \in Jobs :
    /\ j.call \in Calls /\ j.base \in Nat /\ j.size \in Nat
    /\ j.call \in {"write", "writemem"} => j.data \in [0 .. j.size - 1 -> Bytes]
    /\ j.call \in FlashJobs => j.base + j.size <= FlashSize

VARIABLES
    handle, cache,              \* ch_hnd; fpgarunning
    job, step, pos, sec, buf,   \* the call, where it is, readIndex, the sector, what was read
    result,                     \* what the last call returned
    inbox, own,                 \* answers not picked up; the present request was executed
    plugged, dev,               \* the Chameleon
    used, faults,               \* bounds
    told, clean                 \* history, see below

host == <<handle, cache, job, step, pos, sec, buf, result>>
link == <<inbox, own, plugged, dev, faults>>
vars == <<host, link, used, told, clean>>

-----------------------------------------------------------------------------
(***************************************************************************)
(* The Chameleon.  Flash is programmed by turning ones into zeros, so only *)
(* erased bytes take any value.  While the FPGA runs it owns the flash.    *)
(***************************************************************************)
Burn(old, new) ==
    IF old = FF THEN new ELSE IF new \in {old, FF} THEN old ELSE Junk

EraseSector(d, s) ==
    [d EXCEPT !.flash = [a \in Addr |->
        IF ~d.fpga /\ Sector * s <= a /\ a < Sector * s + Sector THEN FF ELSE d.flash[a]]]

Program(d, bytes) ==
    [d EXCEPT !.wptr = @ + Block,
              !.flash = [a \in Addr |->
                 IF ~d.fpga /\ d.wptr <= a /\ a < d.wptr + Block
                 THEN Burn(d.flash[a], bytes[a - d.wptr]) ELSE d.flash[a]]]

Poke(d, n, bytes) ==
    [d EXCEPT !.mptr = @ + n,
              !.ram = [a \in MemAddr |->
                 IF d.mptr <= a /\ a < d.mptr + n THEN bytes[a - d.mptr] ELSE d.ram[a]]]

Frame == 0 .. Block - 1

FlashAt(d, a) ==
    [k \in Frame |-> IF ~d.fpga /\ a + k \in Addr THEN d.flash[a + k] ELSE Junk]
MemAt(d, a) == [k \in Frame |-> IF a + k \in MemAddr THEN d.ram[a + k] ELSE Junk]
Same(v) == [k \in Frame |-> v]

Init ==
    /\ handle = "none" /\ cache = "unknown"
    /\ job = [call |-> "none"] /\ step = "idle" /\ pos = 0 /\ sec = 0 /\ buf = <<>>
    /\ result = "ok"
    /\ inbox = <<>> /\ own = FALSE /\ plugged = TRUE
    /\ dev \in [fpga : BOOLEAN, rptr : {0}, wptr : {0}, mptr : {0},
                flash : {[a \in Addr |-> v] : v \in Bytes},
                ram : {[a \in MemAddr |-> FF]}]
    /\ used = 0 /\ faults = 0 /\ told = TRUE /\ clean = TRUE

-----------------------------------------------------------------------------
(***************************************************************************)
(* Frames.                                                                 *)
(***************************************************************************)
Linked == plugged /\ handle = "good"

\* chameleon_writedata: the frame arrives, or it does not.
Writes(arrives) ==
    /\ arrives => Linked
    /\ IF Linked /\ ~arrives THEN faults < MaxFaults /\ faults' = faults + 1
                             ELSE faults' = faults

\* A request that is answered, with the Chameleon after it and the answer.
Request(after, answer, next) ==
    \E arrives \in BOOLEAN :
        /\ Writes(arrives)
        /\ IF arrives THEN dev' = after /\ inbox' = Append(inbox, answer)
                      ELSE UNCHANGED <<dev, inbox>>
        /\ own' = arrives
        /\ step' = next
        /\ UNCHANGED <<handle, job, pos, sec, buf, result, plugged, used>>

\* A request that is not.
Tell(after, next) ==
    \E arrives \in BOOLEAN :
        /\ Writes(arrives)
        /\ dev' = IF arrives THEN after ELSE dev
        /\ clean' = (clean /\ arrives)
        /\ step' = next
        /\ UNCHANGED <<handle, cache, job, sec, buf, result, inbox, own, plugged, used, told>>

\* chameleon_readdata takes what comes first.
Take == inbox # <<>> /\ inbox' = Tail(inbox)
Answer == Head(inbox)

Return(r) == step' = "idle" /\ result' = r
Goto(s) == step' = s /\ result' = result

Acks == {"askAck", "eraseAck", "dataAck", "fetchAck", "memAck", "startAck", "pokeAck", "stopAck"}

\* A slip, and what chacolib-hidapi.c does: hid_read knows no timeout.
ReadBlocks ==
    /\ step \in Acks /\ ~Linked
    /\ Return("error")
    /\ UNCHANGED <<handle, cache, job, pos, sec, buf, link, used, told, clean>>

\* The answer, if it is the one that is waited for, may come too late; a frame that
\* never arrived is not answered at all.
ReadTimesOut ==
    /\ step \in Acks
    /\ IF own /\ Linked THEN Len(inbox) = 1 /\ faults < MaxFaults /\ faults' = faults + 1
           ELSE (inbox = <<>> \/ ~Linked) /\ faults' = faults
    /\ Return("error")
    /\ UNCHANGED <<handle, cache, job, pos, sec, buf, inbox, own, plugged, dev, used, told, clean>>

-----------------------------------------------------------------------------
(***************************************************************************)
(* Calls.                                                                  *)
(***************************************************************************)
First(call) ==
    CASE call \in {"write", "erase", "read", "flashid"} -> "reset"
      [] call = "status" -> "pointer"
      [] call \in {"version", "jtagslot", "startcore", "bootloader"} -> "ask"
      [] call = "readmem" -> "mem"
      [] call = "writemem" -> "start"

BadArguments(j) ==
    j.call \in FlashJobs /\ (j.base % Sector # 0 \/ j.size % Sector # 0 \/ j.size < Sector)

HasHandle == handle \in {"good", "unclaimed", "stale"}

\* The program calls; told and clean: see CacheTells and Stores.
Call(j) ==
    /\ step = "idle" /\ HasHandle /\ used < MaxCalls
    /\ used' = used + 1
    /\ job' = j /\ pos' = 0 /\ sec' = 0 /\ buf' = <<>>
    /\ clean' = (inbox = <<>>)
    /\ IF BadArguments(j) THEN Return("error") ELSE Goto(First(j.call))
    /\ UNCHANGED <<handle, cache, link, told>>

\* cmd_fpga_reset, left out when the FPGA is believed to be in reset.
FpgaReset ==
    /\ step = "reset"
    /\ \E arrives \in BOOLEAN :
          IF cache = "stopped"
          THEN ~arrives /\ UNCHANGED <<dev, faults, told>>
          ELSE /\ Writes(arrives)
               /\ dev' = IF arrives THEN [dev EXCEPT !.fpga = FALSE] ELSE dev
               /\ told' = arrives
    /\ cache' = "stopped"
    /\ clean' = (clean /\ told')
    /\ step' = IF job.call = "flashid" THEN "ask" ELSE "pointer"
    /\ UNCHANGED <<handle, job, pos, sec, buf, result, inbox, own, plugged, used>>

\* A slip: eraseflash and readflash set the other pointer.
SetPointerSwapped ==
    /\ step = "pointer"
    /\ CASE job.call \in FlashJobs -> Tell([dev EXCEPT !.rptr = job.base], "erase")
         [] job.call = "read" -> Tell([dev EXCEPT !.wptr = job.base], "fetch")
         [] job.call = "status" -> Tell([dev EXCEPT !.rptr = 0, !.wptr = 0], "ask")
    /\ pos' = pos

\* cmd_set_writeptr, cmd_set_readptr, cmd_reset_pointer.
SetPointer ==
    /\ step = "pointer"
    /\ CASE job.call \in FlashJobs -> Tell([dev EXCEPT !.wptr = job.base], "erase")
         [] job.call = "read" -> Tell([dev EXCEPT !.rptr = job.base], "fetch")
         [] job.call = "status" -> Tell([dev EXCEPT !.rptr = 0, !.wptr = 0], "ask")
    /\ pos' = pos

\* A slip: START_CH leaves fpgarunning as it is.
AskKeepsCache ==
    /\ step = "ask" /\ job.call # "bootloader"
    /\ Request(IF job.call = "startcore" THEN [dev EXCEPT !.fpga = TRUE] ELSE dev,
               Same(IF job.call = "jtagslot" THEN Echo ELSE Junk), "askAck")
    /\ UNCHANGED <<cache, told, clean>>

\* The requests that are all there is to a call; START_CH lets the FPGA run.
Ask ==
    /\ step = "ask" /\ job.call # "bootloader"
    /\ IF job.call = "startcore"
       THEN cache' = "running" /\ Request([dev EXCEPT !.fpga = TRUE], Same(Junk), "askAck")
       ELSE /\ cache' = cache
            /\ Request(dev, Same(IF job.call = "jtagslot" THEN Echo ELSE Junk), "askAck")
    /\ UNCHANGED <<told, clean>>

\* Only cmd_set_jtagslot looks whether the answer fits.
AskAck ==
    /\ step = "askAck" /\ Take
    /\ Return(IF job.call = "jtagslot" /\ Answer[1] # Echo THEN "error" ELSE "ok")
    /\ UNCHANGED <<handle, cache, job, pos, sec, buf, own, plugged, dev, faults, used, told, clean>>

\* cmd_start_bootloader is the one that looks at chameleon_writedata.
Bootloader ==
    /\ step = "ask" /\ job.call = "bootloader"
    /\ \E arrives \in BOOLEAN :
          /\ Writes(arrives)
          /\ Return(IF arrives THEN "ok" ELSE "error")
          /\ IF arrives THEN plugged' = FALSE /\ inbox' = <<>> /\ handle' = "stale"
                        ELSE UNCHANGED <<plugged, inbox, handle>>
    /\ UNCHANGED <<cache, job, pos, sec, buf, own, dev, used, told, clean>>

\* Every other answer: take it, go on.
Acknowledged(n, next) ==
    /\ Take
    /\ pos' = pos + n
    /\ Goto(next)
    /\ UNCHANGED <<handle, cache, job, sec, own, plugged, dev, faults, used, told, clean>>

Sends(after, answer, next) ==
    Request(after, answer, next) /\ UNCHANGED <<cache, told, clean>>

\* The loop is through.
Finishes(next) ==
    /\ IF next = "idle" THEN Return("ok") ELSE Goto(next)
    /\ UNCHANGED <<handle, cache, job, pos, sec, buf, link, used, told, clean>>

-----------------------------------------------------------------------------
(***************************************************************************)
(* Flash.                                                                  *)
(***************************************************************************)
Sectors == job.size \div Sector

\* The erasing may fail, which the answer says.
Erase ==
    /\ step = "erase" /\ sec < Sectors
    /\ \/ Sends(EraseSector(dev, job.base \div Sector + sec), Same(Junk), "eraseAck")
       \/ Sends(dev, Same(FF), "eraseAck")

EraseAck ==
    /\ step = "eraseAck" /\ Take
    /\ IF Answer[0] = FF THEN Return("error") /\ sec' = sec ELSE Goto("erase") /\ sec' = sec + 1
    /\ UNCHANGED <<handle, cache, job, pos, buf, own, plugged, dev, faults, used, told, clean>>

EraseDone ==
    /\ step = "erase" /\ sec >= Sectors
    /\ Finishes(IF job.call = "write" THEN "data" ELSE "idle")

\* rle_test: n bytes from the i-th on are the same; where it stops counting.
IsRun(i, n) ==
    /\ n >= 1 /\ n <= RunMax /\ i + n <= job.size
    /\ \A k \in 0 .. n - 1 : job.data[i + k] = job.data[i]
    /\ n # RunMax /\ i + n # job.size => job.data[i + n] # job.data[i]

\* A slip: any run of one byte is skipped.
SkippableAny(n) == n > Block

\* rle_nextblock skips a run of erased bytes, but only whole blocks.
Skippable(n) == n > Block /\ job.data[pos] = FF

SkipRun ==
    /\ step = "data" /\ pos < job.size
    /\ \E n \in 1 .. RunMax :
          /\ IsRun(pos, n) /\ Skippable(n)
          /\ pos' = pos + (n - (n % Block))
    /\ Tell([dev EXCEPT !.wptr = job.base + pos'], "data")

MaxBlockLen == IF pos > job.size - Block THEN Block - (job.size - pos) ELSE Block

Literal == [k \in Frame |-> IF k < MaxBlockLen THEN job.data[pos + k] ELSE Junk]

WriteBlock ==
    /\ step = "data" /\ pos < job.size
    /\ \E n \in 1 .. RunMax : IsRun(pos, n) /\ ~Skippable(n)
    /\ Sends(Program(dev, Literal), Same(Junk), "dataAck")

WriteAck == step = "dataAck" /\ Acknowledged(MaxBlockLen, "data") /\ buf' = buf

WriteDone == step = "data" /\ pos >= job.size /\ Finishes("idle")

ReadBlock ==
    /\ step = "fetch" /\ pos < job.size
    /\ Sends([dev EXCEPT !.rptr = @ + Block], FlashAt(dev, dev.rptr), "fetchAck")

ReadAck ==
    /\ step = "fetchAck" /\ Acknowledged(Block, "fetch")
    /\ buf' = buf \o [k \in 1 .. Block |-> Answer[k - 1]]

ReadDone == step = "fetch" /\ pos >= job.size /\ Finishes("idle")

-----------------------------------------------------------------------------
(***************************************************************************)
(* Memory.                                                                 *)
(***************************************************************************)
Size == IF job.size - pos < Block THEN job.size - pos ELSE Block

ReadMem ==
    /\ step = "mem" /\ pos < job.size
    /\ Sends(dev, MemAt(dev, job.base + pos), "memAck")

ReadMemAck ==
    /\ step = "memAck" /\ Acknowledged(Size, "mem")
    /\ buf' = buf \o [k \in 1 .. Size |-> Answer[k - 1]]

ReadMemDone == step = "mem" /\ pos >= job.size /\ Finishes("idle")

WriteMemStart == step = "start" /\ Sends([dev EXCEPT !.mptr = job.base], Same(Junk), "startAck")

WriteMemStartAck == step = "startAck" /\ Acknowledged(0, "poke") /\ buf' = buf

WriteMem ==
    /\ step = "poke" /\ pos < job.size
    /\ Sends(Poke(dev, Size, [k \in Frame |-> IF k < Size THEN job.data[pos + k] ELSE Junk]),
             Same(Junk), "pokeAck")

WriteMemAck == step = "pokeAck" /\ Acknowledged(Size, "poke") /\ buf' = buf

WriteMemDone == step = "poke" /\ pos >= job.size /\ Finishes("stop")

WriteMemStop == step = "stop" /\ Sends(dev, Same(Junk), "stopAck")

WriteMemStopAck ==
    /\ step = "stopAck" /\ Take
    /\ Return("ok")
    /\ UNCHANGED <<handle, cache, job, pos, sec, buf, own, plugged, dev, faults, used, told, clean>>

-----------------------------------------------------------------------------
(***************************************************************************)
(* The connection.                                                         *)
(***************************************************************************)

\* The interface is claimed, by the handle or by one that is forgotten (the handle
\* there is then an unclaimed one, or there is none).
Claimed == handle \in {"good", "unclaimed", "held"}

\* chameleon_init: usb_init forgets the handle, without releasing what it claimed; find
\* opens a new one, and claim fails if the interface is claimed already.
Open ==
    /\ step = "idle"
    /\ handle' = IF ~plugged THEN "none" ELSE IF Claimed THEN "unclaimed" ELSE "good"
    /\ UNCHANGED <<cache, job, step, pos, sec, buf, result, link, used, told, clean>>

\* chameleon_close gives back what the present handle claimed, nothing else.
Close ==
    /\ step = "idle" /\ HasHandle
    /\ handle' = IF handle = "unclaimed" THEN "held" ELSE "none"
    /\ UNCHANGED <<cache, job, step, pos, sec, buf, result, link, used, told, clean>>

Unplug ==
    /\ plugged /\ faults < MaxFaults
    /\ plugged' = FALSE /\ faults' = faults + 1
    /\ inbox' = <<>>
    /\ handle' = IF HasHandle THEN "stale" ELSE "none"
    /\ UNCHANGED <<cache, job, step, pos, sec, buf, result, own, dev, used, told, clean>>

\* The Chameleon may have lost power meanwhile, and then starts its FPGA again.
Replug ==
    /\ ~plugged
    /\ plugged' = TRUE
    /\ dev' \in {dev, [dev EXCEPT !.fpga = TRUE]}
    /\ told' = FALSE
    /\ UNCHANGED <<host, inbox, own, faults, used, clean>>

-----------------------------------------------------------------------------
FlashSteps ==
    \/ Erase \/ EraseAck \/ EraseDone
    \/ SkipRun \/ WriteBlock \/ WriteAck \/ WriteDone
    \/ ReadBlock \/ ReadAck \/ ReadDone

MemorySteps ==
    \/ ReadMem \/ ReadMemAck \/ ReadMemDone
    \/ WriteMemStart \/ WriteMemStartAck \/ WriteMem \/ WriteMemAck \/ WriteMemDone
    \/ WriteMemStop \/ WriteMemStopAck

\* What the thread in the library does.
Library ==
    \/ ReadTimesOut \/ FpgaReset \/ SetPointer \/ Ask \/ AskAck \/ Bootloader
    \/ FlashSteps \/ MemorySteps

Next ==
    \/ \E j \in Jobs : Call(j)
    \/ Library
    \/ Open \/ Close \/ Unplug \/ Replug

Spec == Init /\ [][Next]_vars

\* The library's thread runs; timeouts see to it that it can.  Neither the program
\* nor the user nor the Chameleon owes anything.
FairSpec == Spec /\ WF_vars(Library)
-----------------------------------------------------------------------------
Steps == Acks \cup {"idle", "reset", "pointer", "ask", "erase", "data", "fetch",
                    "mem", "start", "poke", "stop"}

TypeOK ==
    /\ handle \in {"none", "good", "unclaimed", "stale", "held"}
    /\ cache \in {"unknown", "running", "stopped"}
    /\ job = [call |-> "none"] \/ job \in Jobs
    /\ step \in Steps
    /\ pos \in Nat /\ sec \in Nat
    /\ buf \in Seq(Values \cup {Echo})
    /\ result \in {"ok", "error"}
    /\ inbox \in Seq([Frame -> Values \cup {Echo}])
    /\ own \in BOOLEAN /\ plugged \in BOOLEAN
    /\ dev \in [fpga : BOOLEAN, rptr : Nat, wptr : Nat, mptr : Nat,
               flash : [Addr -> Values], ram : [MemAddr -> Values]]
    /\ used \in Nat /\ faults \in Nat /\ told \in BOOLEAN /\ clean \in BOOLEAN

(***************************************************************************)
(* fpgarunning is right about the FPGA, unless the last reset was lost on  *)
(* its way or the Chameleon has been unplugged since (told): the cache is  *)
(* never refreshed then, and the flash commands meet a running FPGA.       *)
(***************************************************************************)
CacheTells == told /\ cache = "stopped" => ~dev.fpga

\* The state of the library is sane and its belief about the FPGA justified.
LibInv == TypeOK /\ CacheTells

(***************************************************************************)
(* What a call that began with nothing in the endpoint, and none of whose  *)
(* unanswered requests got lost (clean), reads is what is there, and what  *)
(* it writes to memory arrives, when it says so (readflash fetches whole   *)
(* blocks, so that the last may bring more than was asked for).  Lost or   *)
(* late answers, an unplugged cable and lost requests that are answered    *)
(* are all noticed.                                                        *)
(* Without clean it is false: after one late answer every later read       *)
(* returns the data of the request before.                                 *)
(***************************************************************************)
Region == [k \in 1 .. job.size |-> job.base + k - 1]

Reported(call) == step = "idle" /\ result = "ok" /\ clean /\ job.call = call

DataArrives ==
    /\ Reported("read") =>
          /\ Len(buf) \in job.size .. job.size + Block - 1
          /\ \A k \in DOMAIN Region : Region[k] \in Addr => buf[k] = dev.flash[Region[k]]
    /\ Reported("readmem") =>
          /\ Len(buf) = job.size
          /\ \A k \in DOMAIN Region : Region[k] \in MemAddr => buf[k] = dev.ram[Region[k]]
    /\ Reported("writemem") =>
          \A k \in DOMAIN Region : Region[k] \in MemAddr => dev.ram[Region[k]] = job.data[k - 1]

(***************************************************************************)
(* eraseflash and writeflash keep the promise of FlashStore.               *)
(***************************************************************************)
Working == step # "idle" /\ job.call \in FlashJobs

Ordered == [a \in job.base .. job.base + job.size - 1 |->
               IF job.call = "write" THEN job.data[a - job.base] ELSE FF]

Store == INSTANCE FlashStore WITH
    flash <- dev.flash, order <- IF Working THEN Ordered ELSE <<>>, NoOrder <- <<>>,
    sound <- clean, report <- result

Stores == Store!Spec

(***************************************************************************)
(* Every call returns, whatever becomes of the Chameleon.                  *)
(***************************************************************************)
CallReturns == step # "idle" ~> step = "idle"
=============================================================================
