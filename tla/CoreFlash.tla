----------------------------- MODULE CoreFlash ------------------------------
(***************************************************************************)
(* What the programs that flash do to the flash: chacocmd and the updater  *)
(* of the command line (the one with a GUI is WxUpdater).  The flash is a  *)
(* row of cells, Sector of them are erased at once, SlotSize make a slot.  *)
(* A slot holds the image chameleon_prepareslot lays out: a header that    *)
(* says where the core ends, the core, an info block, and behind it the    *)
(* ROMs.  The menu of the Chameleon, chacocmd --info and Chaco find out by *)
(* chameleon_getcoreinfo which core a slot holds.                          *)
(*                                                                         *)
(* chameleon_writeflash erases every sector, then writes from the first    *)
(* cell on.  It may be cut off anywhere: by an error, because the USB      *)
(* cable is pulled, because the program is killed.  A request that reports *)
(* success is taken to have done its work; ChacoLib says when that holds.  *)
(***************************************************************************)
EXTENDS Integers

CONSTANTS
    Slots,          \* how many slots the flash has
    SlotSize,       \* CHAMELEON_SLOT_SIZE
    Sector,         \* what is erased at once, 64 KByte
    Images,         \* core files, each with the ROM file flashed along with it
    CoreLen,        \* cinfo.core_length of each
    RomLen,         \* cinfo.rom_length of each
    Hardware,       \* the version of the Chameleon each is made for
    Versions,       \* the versions there are, 1 and 2
    Blank,          \* an erased cell, 0xff
    Junk,           \* a cell nobody has given a value
    NoFile,         \* no such file
    Idle,           \* chameleon_writeflash is not at work
    MaxJobs         \* bound: how many times something is flashed

Header == 1         \* the three bytes of putoffset3
Info == 1           \* COREINFO_LEN

ASSUME FlashAssumption ==
    /\ Slots \in Nat \ {0} /\ Sector \in Nat \ {0} /\ MaxJobs \in Nat
    /\ SlotSize \in Nat \ {0} /\ SlotSize % Sector = 0
    /\ CoreLen \in [Images -> Nat \ {0}] /\ RomLen \in [Images -> Nat]
    /\ Versions \subseteq {1, 2} /\ Hardware \in [Images -> Versions]

FlashSize == Slots * SlotSize
Addr == 0 .. FlashSize - 1
Slot == 0 .. Slots - 1
Base(s) == s * SlotSize
Of(i, n) == [img |-> i, at |-> n]       \* cell n of image i
ImageCells == [img : Images, at : 0 .. FlashSize]
Cells == {Blank, Junk} \cup ImageCells

\* What chameleon_writeflash may be doing with n + 1 cells of data.
Jobs(n) ==
    [act : {"erase", "write"}, slots : SUBSET Slot, base : Addr, data : [0 .. n -> Cells],
     image : Images \cup {NoFile}, pos : 0 .. FlashSize]

ASSUME ValueAssumption ==
    /\ Blank \notin ImageCells /\ Junk \notin ImageCells
    /\ NoFile \notin Images
    /\ \A n \in Addr : Idle \notin Jobs(n)

\* A slip: one sector more than is needed.
PadUpLong(n) == (n \div Sector + 1) * Sector

\* (n + 0xffff) & ~0xffff
PadUp(n) == ((n + Sector - 1) \div Sector) * Sector

InfoAt(i) == Header + CoreLen[i]
RomAt(i) == InfoAt(i) + Info
Total(i) == RomAt(i) + RomLen[i]

\* chameleon_prepareslot, and the ROMs behind; the buffer is 0xff up to SlotSize only.
SlotImage(i) ==
    [n \in 0 .. PadUp(Total(i)) - 1 |->
        IF n < Total(i) THEN Of(i, n) ELSE IF n < SlotSize THEN Blank ELSE Junk]

\* "binary size exceeds slot size": chacocmd and update.c do not count the info block.
Exceeds(i) == CoreLen[i] + RomLen[i] + Header > SlotSize

\* chameleon_getcoreinfo finds core k in slot s of f: the header leads to an info
\* block, and that block to itself.
Finds(f, s, k) ==
    \E i, j \in Images :
        /\ f[Base(s)] = Of(i, 0) /\ RomAt(i) < SlotSize
        /\ f[Base(s) + InfoAt(i)] = Of(j, InfoAt(j)) /\ InfoAt(j) < SlotSize
        /\ f[Base(s) + InfoAt(j)] = Of(k, InfoAt(k)) /\ RomAt(k) < SlotSize

VARIABLES
    flash, version,         \* the Chameleon: its flash and which one it is
    plugged, link, card,    \* it is plugged in, the program's handle works, an SD card is in
    prog,                   \* the program that runs
    job,                    \* what chameleon_writeflash is doing
    jobs,                   \* how much has been flashed
    nocard,                 \* sdinserted: 1 without a card
    file                    \* what chacocmd has read the flash to

chameleon == <<flash, version>>
usb == <<plugged, link, card>>
cvars == <<chameleon, usb, prog, job, jobs, nocard, file>>

\* A Chameleon as it comes: empty, or with a core made for it in every slot.
Filled(i) == [a \in Addr |-> IF a % SlotSize < Total(i) THEN Of(i, a % SlotSize) ELSE Blank]
Factory(v) ==
    {[a \in Addr |-> Blank]} \cup
    {Filled(i) : i \in {j \in Images : Total(j) <= SlotSize /\ Hardware[j] = v}}

FlashInit ==
    /\ version \in Versions /\ flash \in Factory(version)
    /\ plugged = TRUE /\ link = FALSE /\ card = FALSE
    /\ prog = "none" /\ job = Idle /\ jobs = 0
    /\ nocard = FALSE
    /\ file = NoFile

-----------------------------------------------------------------------------
(***************************************************************************)
(* chameleon_writeflash and chameleon_eraseflash.                          *)
(***************************************************************************)

\* An order to put data at base; the user asked for it to go to these slots.
Order(slots, base, data, image) ==
    /\ job = Idle /\ jobs < MaxJobs
    /\ \A n \in DOMAIN data : base + n \in Addr     \* bound: no order beyond the flash
    /\ job' = [act |-> "erase", slots |-> slots, base |-> base,
               data |-> data, image |-> image, pos |-> 0]
    /\ jobs' = jobs + 1

InJob(n) == n \in DOMAIN job.data
Erased(n) == [a \in Addr |-> IF a \in job.base + n .. job.base + n + Sector - 1
                             THEN Blank ELSE flash[a]]
Written(n) == [flash EXCEPT ![job.base + n] = job.data[n]]

\* A slip: a sector is erased and written before the next one is erased.
EraseAsYouGo ==
    /\ job # Idle /\ job.act = "erase" /\ link
    /\ flash' = [a \in Addr |-> IF a \in job.base + job.pos .. job.base + job.pos + Sector - 1
                                THEN job.data[a - job.base] ELSE flash[a]]
    /\ job' = IF InJob(job.pos + Sector)
              THEN [job EXCEPT !.pos = @ + Sector]
              ELSE [job EXCEPT !.act = "write", !.pos = 0]
    /\ UNCHANGED <<version, usb, prog, jobs, nocard, file>>

EraseSector ==
    /\ job # Idle /\ job.act = "erase" /\ link
    /\ flash' = Erased(job.pos)
    /\ job' = IF InJob(job.pos + Sector)
              THEN [job EXCEPT !.pos = @ + Sector]
              ELSE [job EXCEPT !.act = "write", !.pos = 0]
    /\ UNCHANGED <<version, usb, prog, jobs, nocard, file>>

\* Runs of 0xff are skipped, which leaves the cells as erased.
WriteBlock ==
    /\ job # Idle /\ job.act = "write" /\ link
    /\ InJob(job.pos)
    /\ flash' = Written(job.pos)
    /\ job' = [job EXCEPT !.pos = @ + 1]
    /\ UNCHANGED <<version, usb, prog, jobs, nocard, file>>

\* A request fails: what it asked for may have been done all the same.
Broken(f) ==
    /\ job # Idle /\ (job.act = "erase" \/ InJob(job.pos))
    /\ \/ f = flash
       \/ /\ link
          /\ f = IF job.act = "erase" THEN Erased(job.pos) ELSE Written(job.pos)

Complete == job # Idle /\ job.act = "write" /\ ~InJob(job.pos)

\* chameleon_writeflash returns, at its end or because a request has failed.
Returns ==
    /\ (Complete /\ flash' = flash) \/ Broken(flash')
    /\ job' = Idle

\* chacocmd does not look at the result, it goes on with the next option.
JobEnds ==
    /\ prog = "chacocmd" /\ Returns
    /\ UNCHANGED <<version, usb, prog, jobs, nocard, file>>

\* Nor does the updater: it starts core 0 and ends.
UpdaterEnds ==
    /\ prog = "updater" /\ Returns
    /\ prog' = "none" /\ link' = FALSE /\ nocard' = FALSE
    /\ UNCHANGED <<version, plugged, card, jobs, file>>

Writer == EraseSector \/ WriteBlock \/ JobEnds \/ UpdaterEnds

-----------------------------------------------------------------------------
(***************************************************************************)
(* update.c: init, getversion, getflashid; a core for this hardware goes   *)
(* to slot 0 unless the user aborts.                                       *)
(***************************************************************************)
Open(p) ==
    /\ prog = "none" /\ plugged
    /\ prog' = p
    /\ link' = TRUE
    /\ nocard' = ~card
    /\ UNCHANGED <<chameleon, plugged, card, job, jobs>>

UpdaterStart == Open("updater") /\ UNCHANGED file

\* checksdcard asks the user to take the card out and looks again.
UpdaterCard ==
    /\ prog = "updater" /\ job = Idle /\ ~nocard /\ link
    /\ nocard' = ~card
    /\ UNCHANGED <<chameleon, usb, prog, job, jobs, file>>

\* A core made for the hardware; the flash ID is what a Chameleon answered that may be gone.
findcore(i) == Hardware[i] = version \/ ~link

UpdaterFlash(i) ==
    /\ prog = "updater" /\ nocard
    /\ findcore(i)
    /\ ~Exceeds(i)
    /\ Order({0}, 0, SlotImage(i), i)
    /\ UNCHANGED <<chameleon, usb, prog, nocard, file>>

Updater == UpdaterStart \/ UpdaterCard \/ \E i \in Images : UpdaterFlash(i)

-----------------------------------------------------------------------------
(***************************************************************************)
(* chacocmd.c: the options are carried out from left to right.  The SD     *)
(* card is looked for once, at the start, and no result is looked at.      *)
(***************************************************************************)
CmdStart == Open("chacocmd") /\ UNCHANGED file

Option == prog = "chacocmd" /\ job = Idle
OptionOnly == UNCHANGED <<chameleon, usb, prog, nocard, file>>

\* --flashrbf
FlashRbf(s, i) ==
    /\ Option /\ nocard /\ ~Exceeds(i)
    /\ Order({s}, Base(s), SlotImage(i), i)
    /\ OptionOnly

\* --flashslot and --flashimage take what --readslot or --readimage has saved, up
\* to max cells of it.
FlashFile(slots, base, max) ==
    /\ Option /\ nocard /\ file # NoFile
    /\ Order(slots, base, [n \in {a \in DOMAIN file : a < max} |-> file[n]], NoFile)
    /\ OptionOnly

\* --eraseslot: nothing is left to be written.
EraseSlot(s) ==
    /\ Option /\ nocard
    /\ Order({s}, Base(s), [n \in 0 .. SlotSize - 1 |-> Blank], NoFile)
    /\ OptionOnly

\* --readslot and --readimage.  The buffer is saved also when chameleon_readflash
\* has failed; what becomes of such a file is not followed.
ReadFlash(base, len) ==
    /\ Option
    /\ file' \in {NoFile} \cup (IF link THEN {[n \in 0 .. len - 1 |-> flash[base + n]]} ELSE {})
    /\ UNCHANGED <<chameleon, usb, prog, job, jobs, nocard>>

Chacocmd ==
    \/ CmdStart
    \/ \E s \in Slot, i \in Images : FlashRbf(s, i)
    \/ \E s \in Slot : FlashFile({s}, Base(s), SlotSize)
    \/ FlashFile(Slot, 0, FlashSize)
    \/ \E s \in Slot : EraseSlot(s)
    \/ \E s \in Slot : ReadFlash(Base(s), SlotSize)
    \/ ReadFlash(0, FlashSize)

-----------------------------------------------------------------------------
(***************************************************************************)
(* The world.                                                              *)
(***************************************************************************)

\* A program of the command line ends, at its end or because it is killed.  Files
\* are only followed within one command line.
Exit ==
    /\ prog \in {"updater", "chacocmd"}
    /\ prog' = "none" /\ job' = Idle
    /\ link' = FALSE /\ nocard' = FALSE /\ file' = NoFile
    /\ UNCHANGED <<chameleon, plugged, card, jobs>>

Unplug ==
    /\ plugged
    /\ plugged' = FALSE /\ link' = FALSE
    /\ UNCHANGED <<chameleon, card, prog, job, jobs, nocard, file>>

\* The same Chameleon again, or another one; handles of the old do not work for it.
Plug ==
    /\ ~plugged
    /\ plugged' = TRUE
    /\ \/ UNCHANGED chameleon
       \/ version' \in Versions \ {version} /\ flash' \in Factory(version')
    /\ UNCHANGED <<link, card, prog, job, jobs, nocard, file>>

SwapCard ==
    /\ card' = ~card
    /\ UNCHANGED <<chameleon, plugged, link, prog, job, jobs, nocard, file>>

World == Unplug \/ Plug \/ SwapCard

FlashNext == Writer \/ Updater \/ Chacocmd \/ Exit \/ World

FlashSpec == FlashInit /\ [][FlashNext]_cvars

-----------------------------------------------------------------------------
FlashTypeOK ==
    /\ flash \in [Addr -> Cells] /\ version \in Versions
    /\ plugged \in BOOLEAN /\ link \in BOOLEAN /\ card \in BOOLEAN
    /\ prog \in {"none", "updater", "chacocmd", "wx"}
    /\ job # Idle => \E n \in Addr : job \in Jobs(n)
    /\ jobs \in 0 .. MaxJobs
    /\ nocard \in BOOLEAN
    /\ file = NoFile \/ \E n \in {SlotSize, FlashSize} : file \in [0 .. n - 1 -> Cells]

(***************************************************************************)
(* Wherever flashing was cut off, and by whatever program: when            *)
(* chameleon_getcoreinfo finds a core in a slot, every cell of that core   *)
(* is there.  It relies on the order of chameleon_writeflash, all sectors  *)
(* first and the info block behind the core.                               *)
(***************************************************************************)
StatusIsTrue ==
    \A s \in Slot, k \in Images : Finds(flash, s, k) =>
        \A n \in 0 .. InfoAt(k) : flash[Base(s) + n] = Of(k, n)

FlashInv == FlashTypeOK /\ StatusIsTrue

(***************************************************************************)
(* A program changes the slots it was asked to change and no other - but   *)
(* for the first sector of the next slot, when an image that passed the    *)
(* test of its size does not fit because of its info block.  (While none   *)
(* is plugged in, the next Chameleon may be another one.)                  *)
(***************************************************************************)
SpillsInto(a) ==
    /\ job.image \in Images
    /\ Total(job.image) \in SlotSize + 1 .. SlotSize + Info
    /\ a \in job.base + SlotSize .. job.base + SlotSize + Sector - 1

OthersKept ==
    [][job # Idle => \A a \in Addr :
        flash'[a] # flash[a] => a \div SlotSize \in job.slots \/ SpillsInto(a) \/ ~plugged]_cvars
=============================================================================
