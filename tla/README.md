# A verification project for Chaco

Chaco is the set of host programs for the Turbo Chameleon 64, a USB cartridge of
the Commodore 64. This directory holds TLA+ modules translated from its source,
configurations that model-check them with TLC, and proofs checked by TLAPS.
`PROJECT.json` lists components, runs, theorems, hazards and findings in machine-readable
form, and says for every definition which lines of the source it translates.

## 1. The system

| Component | Source | State it keeps | Operations | Talks to |
|---|---|---|---|---|
| chacolib | `chacolib/` | USB handle, packet buffers, cached "FPGA running", progress callback | init, find, claim, close; read/write C64 memory; read/erase/write flash with runs of `$ff` skipped; core info, slots | the cartridge's firmware, one HID frame each way per request |
| Chaco | `wxchaco/` | task list, access lock, presence of the Chameleon, log, progress, buttons | clicks, a timer callback, task functions on a second thread | chacolib |
| wxupdater | `wxupdater/` | as Chaco (same TaskMgr, Task, Threading), hardware version, SD card asked for | look for the Chameleon, update of slot 0 with the core for its version, restart | chacolib |
| updater, chacocmd | `updater/`, `chacocmd/` | what the options say, buffers, "SD card inserted" | update of slot 0; write, erase and read slots and the whole flash | chacolib |
| chbidir | `chusb/chbidir.*`, `chmon/chbidir.*`, copies in `chtransfer/` | two mailboxes in C64 memory | read/write a byte or a block on both sides | chacolib's memory access; C64 loads and stores |
| chmon | `chmon/chmon.c`, `chmon/chserv.s` | PC: one command; C64: buffer, device, access mode | memory and file commands, calls | chbidir |
| chusb | `chusb/chusb.c`, `chusb/chusb.tas` | walk through a disk image, place in a transfer on both sides, checksums, retries, status bars | send, execute, copy, dir, fetch, write and read an image (with the KERNAL or turbo), format, test | chbidir; to start its server, chacolib's memory access |
| chcodenet | `chcodenet/` | one option after the other, target machine | write, fill, run, sys, reset, reset and wait | chacolib's memory access; KERNAL and BASIC in the C64's memory |
| chtransfer | `chtransfer/` (EasyTransfer, libef3usb, eload) | D64 write and verify state, status pipeline | handshake, D64 write/verify, test | FTDI or chbidir, disk drive |
| chmount, chshot, chamhelp | one directory each | little | mounting images; screenshots; help | chacolib |

What makes the system hard: two computers without a common clock share a few bytes of
memory and no timeout (chbidir); packets do not say what they answer (chmon, chusb); two
threads share flags, a parameter, a lock and a log without synchronisation (Chaco); a USB
connection may go away between two steps of anything; a flash update is a long series
of requests of which each can fail, and the program may be killed in between; a disk image is a graph of
links that anybody may have drawn; keys are typed into the memory of a C64 that takes them at the same time; lengths count in bytes and wrap, and loops count to zero.

What each component must achieve:

* **chbidir**: every call hands over one block, whole, once, in order; a server that is up
  when the PC begins never hangs the session.
* **TaskMgr**: a request is not lost and not starved, one task runs at a time, with the
  parameter it was asked with.
* **Chaco**: the access lock always has an owner who gives it back; no NULL parameter is
  followed; a Chameleon that is plugged in and answers is found, unless a handle that was forgotten keeps its interface.
* **Chaco's log**: a line is shown once, in order, and is not lost as long as there is room.
* **chmon**: both programs agree on whose turn it is; files and memory arrive, a file that is read as
  the drive sent it; the prompt comes back.
* **chacolib**: a reply belongs to its request; a flash write that reports success
  leaves the image in flash, and nothing outside the slot is touched.
* **chtransfer**: a sector reported as written is written; "OK" means all of the image is on the disk,
  and verify says so only of a disk it has read; a session ends.
* **chusb**: a file or sector reported as stored is stored as the image has it, and what is saved on the PC is what the drive held, or as much of it as it could read; an
  alarm about an image is justified; a command ends.
* **chcodenet** (and chusb's way to start its server): the program that runs is the program that was sent, and it does run
  unless the program before it keeps the machine.
* **updater, chacocmd, wxupdater**: wherever flashing was cut off, no slot shows a core that is not there; other slots are kept; a Chameleon gets the core
  made for its hardware.

## 2. Modules

### Transfers, ChBidir, ChBidirProofs: the mailbox link

`Transfers` is the promise: a session is a sequence of transfers both sides agree on
(`plan`); offering and taking block k is one step each, and the order and exactly-once
rules are in the guards of `Offer` and `Take`.

`ChBidir` is the code. Its variables are the mailbox cells as they lie in C64 memory (the
module's header maps them to the names on both sides), the PC's place in its call (`ppc`)
and the server's (`cpc`). One action is one USB request of the PC or one 6502 access of
the C64; a block of data is stored or fetched cell by cell, since it travels in several
frames. `init_usb` is modelled store by store; memory before it holds anything. `usb_write_byte`,
`usb_write_bytes` and `usb_write_block` have the same sequence of requests and differ by
the length. SEQ counts modulo `CellSize` (256). A session says `init` where the server is (re)started
and the PC waits for it, `race` where it does not (`chmon -s -c`, a command right behind INIT).
`LinkSpec` is the refinement: every step of ChBidir is a step of `Transfers` or a stutter.

### Dispatcher, TaskMgr: tasks

`Dispatcher` is the promise: a set of pending tasks and a current one. `TaskMgr` is
`TaskMgr.cpp` with one action per access to a field both threads use: `runTask` sets the
parameter, `bActive`, then the event; the loop reads the list's length, scans, marks running,
clears `bActive`, calls, clears `bRunning`, and sleeps after a scan that found nothing. `LoopStep`
may interleave with `AddTask`, because the thread is started before tasks are registered.
The event is an auto-reset event on Windows (`EventMax` 1), a semaphore on Linux.
The two history variables say what parameter was last asked for, and whether the loop slept then.

### ChacoApp, ChacoAppProofs: Chaco at run time, and the proofs about its tasks

Extends TaskMgr with the lock (a plain bool, tested and set in two steps, as in
`LockAccess`), the task functions by what tells them apart (`Kind`), the timer callback
`GUIUpdate` with its statics, the button clicks and dialogs, and a Chameleon that comes and goes, or does not answer for a while (`Falter`, `answers`).
`handle` is chacolib's `ch_hnd`: `chameleon_init` begins with `chameleon_usb_init`, which forgets the handle without giving back the interface it has claimed
(`held`), so that the new handle cannot claim it until the cable is pulled. Who then asks through a handle that is NULL ends the program (`dead`).

### ChMon, ChMonProofs: the monitor and its server

Works on packets (`ChBidir` shows what they rest on). The PC's `ppc`, `pcmd`, `at`, `left`, `file`, `eof`
are the place in a command and its loop; the server's `cpc`, `data`, `out`, `ptr` the handler reached through
`cmdtab`, its buffer and the packets it still has to send. `senddata` waits for the PC, so a
reply in `toPC` blocks the server. A byte of a file is its index, so loss, duplication and reordering show. A loop that
counts a byte to its end runs `Page` (256) times for a count of 0 (`Counted`). Commands that read memory (get, m, i, d,
h, c) are `PCGet`: block by block, by DMA or, where `read_memory_block` suspects ROM, by asking the server.
The drive is a choice: when written to it opens the file, is not there, or refuses and tells nobody (the server never reads the error channel); when read, it sends the file,
or stops early with a byte that is not of the file (`Cuts`: a read error, or no such file), or is not there, and then the server sends nothing at all. `stream` is what came. INIT runs
`init_usb` again: a packet announced by then is `Lost` (`C64Init`).
`must` remembers what the commands entered so far should have made of the memory. That `read_memory_block` looks for ROM at the two ends of a block only is right because ROM
comes in pages of 4K and a block has 128 bytes: `RomIsLong` says that of `RomArea`.

### FlashStore, ChacoLib, ChacoLibProofs: the USB library

`FlashStore` is the promise about flash: while an order is carried out only its region changes; reported as
done, the region is as ordered; reported as failed, the region holds anything. The promise is void for an order that is not `sound`.

`ChacoLib` is the code: every call as its sequence of frames, one action per frame sent (`Request` if it is answered, `Tell`
if it is not) and one per answer taken. The frame may be lost, the answer late. `handle` has five states: none; good; unclaimed, when `init` was called over a good handle, which still holds the interface;
held, when that handle was closed; stale, when the cable was pulled. `job`, `step`, `pos` (readIndex, or the place in the
data), `sec` are where a call is; `inbox` the answers nobody has picked up; `cache` is `fpgarunning`. The run-length coding of
`rle_*` is `IsRun`, `Skippable`, `MaxBlockLen`: runs of `$ff` are skipped by moving the write pointer, in whole blocks. The firmware is external and
modelled from what the requests mean: two pointers for flash, one for memory, flash that can only be programmed towards zero and is
out of reach while the FPGA runs. Two history variables say under which condition calls can be
trusted: `told` (no lost reset, no cable pulled since) and `clean` (nothing in the endpoint when the call began,
none of its unanswered frames lost). No answer names its request, so these conditions are all the code has.

### LogFifo, LogFifoProofs: the log

Both threads print; the timer callback shows. One action per access of a thread to `textlines`,
`textwriteptr`, `textreadptr`, `textbuffer`: `textlines++` is a load and a store. `PrintDirectly` is `outPrint` before the first
tick. Lines are numbered in the order of printing; `accepted` is the history of what got into the ring. `raced` remembers that both threads were at the
ring at once; a thread that sleeps because the ring is full is not at it.

### D64Transfer, D64TransferProofs: writing a disk image

Three actors: `ef3xfer_d64_write` on the PC (place `ppc`, `mode`, the sector `ts` under way, the sectors of the track already
`sent`, `first`, `result`), `write_disk_d64` on the C64 (place `cpc`, `opt`, `cts` and `prev` for `ts` and `prev_ts`, `cfirst`, `status`, `ctrack`,
`buffer`) and the drive (`job` it carries out, `done` with its status, the `disk`). A packet is handed over in one step when one side
writes and the other reads (`Meet`); that blocks arrive whole and in order is what `ChBidir` shows. A session may find any drive, the drive may report
an error for any sector or track, and `MaxFlaws` sectors come out wrong without its noticing: with a checksum wrong in both halves (`Both`) or in one (`Half`).
Nothing in the PC's loop looks at the sector number of a status, so `asked` remembers which sector was sent last but one, `acked` those the PC has been told are
written, `compared` the tracks it has compared.

`InStep` says that a status belongs to the sector the PC takes it for. `OkIsComplete` says what "OK" is worth. `SessionEnds` names the three
situations (`Stuck`) in which the two sides wait for each other for ever.

### DirectMode, ChUsbWalk, ChUsb, ChUsbProofs: the tools that start programs, and the copier

`DirectMode` is a C64 in BASIC and the tools that work on its memory behind its back. `Requests` gives every option of `chcodenet` as a list of requests
(`todo`), one action each; `RequestFails` ends the program at any of them. RAM stands for the whole address space: pointers are two bytes, so behind the last cell comes 0 (`TwoBytes`). The C64 (external) takes keys, prints READY. character by character,
clears its pointers after a reset, and runs what is there when RUN or SYS is entered. A program that runs may take keys from the buffer (`ProgramTakesKey`) and may end or not; `earlier` remembers
that one ran. What it writes to memory is left out.

`ChUsbWalk` is the walk through a disk image that `copy` and `dir` share: `nexttr`, `here`, `pos` the place in the directory, `filetr` and
`usedtr`/`usedse` (`used`, `usednum`) the chain of a file and the search for a loop in it. An image is any graph of links (`End`, a place, `Illegal`). What a directory and a file
really are, is defined next to it without the walk (`DirSectors`, `Listed`, `Chain`, `FileBytes`, `BadLink`, `Shared`). The search for a loop compares the sector with what an
earlier file left behind; `AlarmsAreReal` says what the alarm can mean then: an illegal link of the file itself, another file that shares its sector, or a directory that does not end. It never means a loop
of the file itself: that fills the arrays.

`ChUsb` composes both with the server. `upc` and `cpc` are the places of the two programs; a byte or block is handed over in one step (`Meet`), since
`ChBidir` shows that it arrives; one of them may be *glitched*, because both sides ignore that a request failed and use the old byte
(`Arrives`). `SendLen`, `SendSum`, `SendData`, `FileAck` are `sendfile` and the server's `filecopy`, with a length that counts to zero modulo `LenMod`; the `Send...` actions of a sector and
`TakeBlock` are `write` and `read` with and without the KERNAL, `StoreSector`, `VerifySector`, `ReadSector` the server's side with its three attempts; `FetchFile` and so on the
reverse of a copy. The drive is a choice: a file may be refused, a sector wrong when written, read or verified, a file cut short in the middle of a fetch (`flaws`), or the drive is missing (`NoDrive`): the server ignores what OPEN says and reads the
keyboard instead (`keyboard`, `UserTypes`); the fast loader waits for ever. In its menu the user may leave the server at any time (`UserContinues`). History: what the PC was told is stored (`acked`), what it saved (`written`).

### CoreFlash, WxUpdater, and their proofs: what happens to the flash

`CoreFlash` is the layout of slots and what the programs that flash do to it. A cell holds "cell n of image i", `Blank` or `Junk` (memory the program never set). `SlotImage` is
`chameleon_prepareslot` with the ROMs behind, `Exceeds` the programs' test of the size, `Finds` what `chameleon_getcoreinfo` looks at: header, info block, and that the
info block leads to itself. `job` is `chameleon_writeflash` at work: all sectors are erased (`EraseSector`), then the cells written (`WriteBlock`); it may be cut off anywhere (`Returns`, `Exit`,
`Unplug`). `Updater` and `Chacocmd` are the calls of the two command line programs in any order a user may give, with the core that `findcore` takes for the hardware; `Plug` may bring another Chameleon, of another
version. Requests do here what they report (`ChacoLib` and `FlashStore` say when).

`WxUpdater` extends it with the GUI: the timer looks for the Chameleon (`CheckChameleon`, `chameleon_init`, `CheckVersion`, `GetFlashID`), sets the buttons, and starts tasks that run
beside it. Taking the lock is one step here: that it is not in the code is the subject of `ChacoApp`. `known` remembers whether `GetFlashID` has answered for this connection.

## 3. Runs

| Run | Instance | What it shows |
|---|---|---|
| ChBidir | all sessions of up to 4 calls with at most one restart, blocks of 2 cells over 2 values, SEQ modulo 3 | HandshakeInv, BlocksIntact, InPlaceBlockStable, refinement of Transfers, SessionEnds |
| ChBidirRace | same | *violation*: a PC that does not wait for the server may never be seen |
| TaskMgr | 3 tasks, 1 parameter and NULL, event saturating at 2 | TaskMgrInv, NoLostWakeup, CalmCallsGetTheirParam, refinement of Dispatcher with its fairness |
| ChacoApp | 2 tasks (one with a dialog and an SD-card question, one reading the status afterwards), event saturating at 1 | AppInv, LockBelongsToSomebody, LockComesFree, FoundAgain |
| ChMon | packets of 2, page of 3, 6 addresses with ROM over the last 2, files of 0 to 4 bytes, 3 commands | MonInv, ReadDelivers, WriteStores, InOrder, GetIsCurrent, PromptComesBack |
| ChacoLib | 3 sectors of 4 bytes in blocks of 2, runs counted to 4, 2 calls, 2 faults; every image of one sector, runs of 4 to 8 bytes in images of two | LibInv, DataArrives, refinement of FlashStore (Stores), CallReturns |
| LogFifo | ring of 2, 4 lines | LogInv, ShownOnce, GetsShown |
| D64Transfer | 3 tracks of 4, 3, 3 sectors, interleave 2, 2 sessions, 1 flaw | D64Inv, AckedIsOnDisk, OkIsComplete, SessionEnds |
| D64TransferVerify | same | *violation*: "OK" after verifying although the last track could not be read |
| ChUsb | 6 cells of RAM; images of 5 sectors, arrays for 3; files of 0 to 2 bytes, lengths modulo 4, checksums modulo 2; a disk of 3 sectors; one glitch, up to three wrong sectors; 58 sessions | CopyIsTrue, AlarmsAreReal, WrongSectorsShow, SavedIsTrue, RunsWhatWasSent, SentIsStarted, CommandEnds |
| Flash | 2 slots of 2 sectors of 2 cells, 3 images (one for each version of the hardware, one that fills the slot to the brim), 2 writes or erasures; the GUI is started before the first | WxInv, OthersKept, RightCore |
| ChMonWrite | same as ChMon, 1 command | *violation*: a file that fills its last packet is stored with garbage behind it |

Why the bounds are enough to see the interesting cases. *ChBidir*: two cells are the least that can tear;
SEQ modulo 3 wraps within four calls; four calls hold every pair of directions with one of each behind and
before it, and a restart in the middle. The theorems hold for every size and session, so the run
only has to be able to fail. *TaskMgr*: three tasks let a request arrive before, at and behind the
scan; an event that saturates at 2 has a count to be left over. *ChacoApp*: the two kinds cover every section a
task function has; `CheckEvery` 1 lets other actions come between two looks. *ChMon*: lengths 0 to 4 are below, at and above one and two packets; the
regions lie in RAM, straddle the border of ROM and are empty; three commands let a question follow an unanswered command and an
answered one; the drive fails in every way it can in each READ and WRITE. *ChacoLib*: two blocks per sector and a
region of two sectors put a run's ends at every place relative to blocks and sectors, and `RunMax` cuts some of them; two faults are a lost frame and what
comes of it in the call after; two calls let the second meet what the first left in the endpoint and in `fpgarunning`. *LogFifo*: four
lines wrap, fill and overflow a ring of two, and leave one line over for the time after an overflow. *D64Transfer*: an interleave that divides the sectors of one track
and not of the other makes the search for an unsent sector go on in one of them only; three tracks are a first, a last and one between;
the second session meets the C64 wherever the first left it. *ChUsb*: the sessions name what a user can ask for; the images are
a sound one of each shape (one and two sectors to a file, one and two directory sectors, an empty file, entries that are skipped) and one with each defect (a loop in a file and in the
directory, a shared sector, a chain that is too long for the arrays or leads into the directory, an illegal link in each); three wrong sectors use up the three attempts,
and one of the programs sent ends with the last cell of RAM.
A checksum modulo 2 lets a wrong sum and an accidentally right one occur. *Flash*: two sectors to a slot let flashing stop with one erased and one not; two jobs put a core that was cut off
next to, or over, an older one, and let a file read by `--readslot` be written elsewhere.

`CHECK_DEADLOCK FALSE` stands where the system may stop: sessions end, a server may have been left, a task that follows NULL ends the program. The run TaskMgr checks deadlock.

### Fairness

*ChBidir, ChMon*: weak fairness of each side as a whole. Both are plain sequential programs that
run on processors of their own and only ever poll. The user owes nothing: entering a command and pressing the stop key are not fair.
*TaskMgr*: weak fairness of the loop and of a GUI call that has begun; the system's threads are
preemptive. Requests owe nothing. *ChacoApp* (the Chameleon owes nothing: `FoundAgain` speaks of one that stays and answers): weak fairness of the task thread and of GUI handlers that have begun, and
strong fairness of the timer tick, which is delayed while a handler or dialog is open but is
delivered again and again, whenever the GUI thread is back in its event loop. *ChacoLib*: weak fairness of
the library's thread alone, which never waits longer than a timeout; the program, the user and the Chameleon owe nothing.
*LogFifo*: weak fairness of each thread inside `outPrint` and `GUIUpdate`, strong fairness of the tick as above; nobody has to print. *D64Transfer*: weak
fairness of both computers and the drive together, whose steps do not compete; nobody has to begin a session.
*ChUsb*: weak fairness of the program on the PC and of the C64's KERNAL, BASIC and server (`Machine`), as above, and of the user's key only where the server asks for it
before it goes on. Nothing is assumed of a program that runs on the C64: it need not end, and may take keys or not. Nor need the user type anything for a drive that is missing. *Flash* checks safety only.

## 4. Proofs

All theorems hold for every value of the constants that satisfies the ASSUMEs of the
module concerned: blocks of 1 to CellSize cells, CellSize at least 2, sessions that begin with a start of the server (ChBidir); NULL
not among the parameters, EventMax at least 1 (TaskMgr); `Kind` a function into the kinds (ChacoApp); at
least one track and one sector in each (D64Transfer); slots of whole sectors, cores of at least one cell, and versions of the hardware among
1 and 2, as the code tells them apart (CoreFlash, WxUpdater); packets of at least one byte, a page longer than a packet and no longer than memory, and ROM in runs longer than a packet (ChMon);
sectors of whole blocks and a flash of whole sectors (ChacoLib); a ring of at least one slot (LogFifo); a C64 of at most 100
cells (so that an address has two digits at most), sessions of chcodenet with options it knows and of chusb with
commands it knows, disks of at least one track and one sector in each, drives whose files have at least one byte,
and images whose links lead to a sector, to the end or to no place there is (DirectMode, ChUsbWalk, ChUsb).

* **ChBidirProofs**. `HandshakeInv` is inductive: `Together` says how far the two sides may be apart in
  the plan and who is ahead in which state, `Flags` ties the two START cells to the C64's state, `Writing`, `Reading` and `History`
  say what the data cells and histories hold in each. Plain intactness of blocks is not inductive: that the receiver copies the right
  bytes needs that the sender has stored them and is not yet in its next store, which is `Together` and `Writing`. One lemma per action.
  `Handshake`, `Intact` and `InPlace` follow; `LinkRefinement` shows that storing SEQ, fetching and so on map to `Offer` and `Take`.
* **ChacoAppProofs**. First the task manager alone: `Invariant` (TaskMgrInv), `Wakeup` (a request that is not yet served will be
  seen: the event is set, or the loop is before the task, or the scan will not end in sleep), `CalmCalls`, and
  `DispatchRefinement` (the safety part of the refinement). Then
  `AppInvariant` and `LockNotLeftBehind`: every action of the task manager preserves the facts of
  the lock and vice versa; a lock that is taken is in the hands of the task or of the GUI thread, as long as requests meet the loop asleep (`~rushed`).

* **ChMonProofs**. For packets, pages, memories and files of every size and any number of commands: `InStepAlways`, `FilesArrive`, `FilesAreStored`, `CommandsInOrder`, and the
  action property `BlocksAreCurrent`. The five rest on one invariant, `IInv`, whose parts look at the only thing both programs share, the two mailboxes. `Turns`: a command that is answered is under way,
  or before the server, or being answered, exactly while the PC waits in `recv` for it, and a reply blocks the server; this is `InStep`, made inductive by saying it for the packet in the mailbox
  and for the one the server is at. Two ways out of step are part of the statement: a READ of which a whole number of packets came, none if the drive is missing (`EndlessRead`), and a packet lost to INIT. `Replies` and `Reading`: a file that is read is, at any time, what the PC has joined, the packet under way and the packets still in `out`, cut at multiples of
  `Packet` (`Blocks`; the lemmas before it show that packets joined in order give the stream again, and that only the last is short); so `FilesArrive` says that the local file is
  what came from the drive, the remote file or a piece of it with one byte behind. `Writing`: what the drive holds and the packet under way
  are the part of the file that has left the PC. `Pending`: `must` is the memory, with the packet the server is at and the one in the mailbox applied to it in this order (`Effect`); that most
  commands are not answered is why there may be both. `Filling` is the loop invariant of `fill`, which may wrap round at the top of memory. `Getting` adds that a block that is asked for is of the memory as it
  `must` be; for DMA that needs `RomIsLong`. A conjunct of `Writing` was found by the proof: while an XWRITE waits in the mailbox the server is not at another packet.
* **ChacoLibProofs**. For flash, RAM, sectors, blocks and runs of every size, all calls, any number of faults: `FpgaKnown`, `ReportedDataArrived`, `FlashIsStore`. The invariant says for each step of a call
  how far it is (`Position`: in whole blocks, so that the last block of a sector ends with it), that the endpoint is empty or holds the one answer that is due, as long as the call is `clean` (`Endpoint`), and what
  has come of it so far: `Stopped` (no flash command meets a running FPGA), `Erasing` and `Writing` (everything before `pos` is programmed, everything behind is erased, and the pointer of the
  firmware is where the program believes it to be, also after a run was skipped), `Fetching`, `Loading`, `Poking` for the three other calls with data. `FlashIsStore` then maps every frame to a step of FlashStore or a stutter: until the last frame only cells of the region
  change, and what `writeflash` skipped is `$ff` because it was erased (`WrittenTo`).

* **LogFifoProofs**. `LogTypes` and `LogShownOnce` hold with both threads at the ring at any time. `Once` is the inductive invariant: a line is
  with the thread that prints it, in one slot, or in the window (`Apart`), except for the slot that the callback has shown and not yet emptied;
  what is printed next is nowhere yet (`Numbered`); and the callback, the only one to count down, never counts below zero (`Counted`).
  `LogInOrder`: unless the threads met at the ring, it is a queue of the accepted lines that were not shown. `Fifo` says so at every step of the thread that is at the ring: how many lines there really are
  (`Backlog`), where the first lies (`Shift`: between showing a line and emptying its slot it is the next one), and by how much count and write pointer are behind (`Tally`, `WritePlace`); a line that is put in
  meets a free slot since the count was below `MaxMsg`, and nothing else at the ring could have changed it (`Alone`, `Loaded`).
* **D64TransferProofs**. `Lockstep`, `Acknowledged` and `OkMeansAll`, for disks of any geometry and any interleave (at least one track, and one sector
  in each). The invariant `IInv` has a part for each phase: `Together` says where the PC can be, given where the C64 is; `Fresh` that nothing
  is sent before writing; `Underway` what both know of the sector under way (`ts`, `cts`) and the one before (`asked`, `prev`), and that the sectors reported as written
  are just those passed in the order of sending (`Passed`); `Jobs` that the drive has a job when, and only when, its status is due; `Compared` which tracks are
  verified. `AckedIsOnDisk` alone is not inductive: it needs that the status belongs to `asked` and that the drive cannot write later what was
  acknowledged before. The lemmas before it show that the search for an unsent sector ends (`Reached`: steps of any interleave, then of one, reach every sector;
  `Least`: there is a first one), and that a track whose sectors are counted down leaves none out (`AllSent`, `Advances`).

* **WxUpdaterProofs**. `CommandLineStatus`: what `chameleon_getcoreinfo` finds in a slot is there up to the info block, for every size of slot and sector, all images, and
  flashing that is cut off anywhere. That is not inductive: a header of one image and an info block of another could meet. `Good` says that a header that leads to *an* info
  block at its place has its own core between them, and that block leads to itself; `JobInv` that a job at work has erased everything up to its place before it writes a
  cell, so that a new header never meets old contents (`ErasedIsGood`, `WrittenIsGood`); `GoodData` that what is to be written is good by itself, which for a file that was read from the
  flash follows from `Good` at the time of reading (`FileIsGood`). The rest is arithmetic: a slot begins where a sector begins, and no job reaches into a third slot (`Padded`,
  `SlotOrder`, `Touched`).
  `WxInvariant`: the same with the GUI among the programs, and the lock held while it writes. `WxOthersKept`: other slots are kept (`RangeInv`: a job covers
  its slots, or spills by at most one info block). `WxRightCore`: `VersionInv` ties the cached version to the Chameleon in use as long as `known` and the handle works; with `LockInv`,
  which keeps the search for the Chameleon away from a job at work, an updater never opens another one while it writes.

* **ChUsbProofs**. `StartsWhatWasSent`: in a session that types one line (`Calm`), the C64 enters just that line, and RUN finds the file in memory, as much of it as fits, and
  the pointers at its end, or at 0 when it ends with the last cell of RAM; memory only if no program ran before that might have written to it (`earlier`). The three parties are chcodenet or chusb with its list of
  requests, the C64 that takes keys, and its cold start, which clears memory. `Left` says what is still in `todo`: the rest of the requests of the one option that types, or one of an earlier option. `Prepared` what is
  already in memory by then, `Typed` what of the line is on the screen and in the buffer once the keys are counted: together they are `TypedLine`. `ResetDone` is why the cold start cannot come in between: the C64 is
  through with it when the first character of READY. shows on a screen that was blank when the reset was asked for. `StepKinds` shows first that all of the copier's steps leave these things alone; for that it needs to know
  where chusb can be (`AtWork`, `InItems`). The lemmas before it compute what is typed for every address (`SysText`) and that the requests end with it (`TheRequestsAre`).

  `WrongOnesShow` and `SavedFilesAreTrue`: disks written and read, files fetched, for every geometry and content and any number of glitches. `DiskInv` is inductive on top of `StartInv`. `OwnPlace` and
  `Partners` say who waits for whom: whatever the server is at for a command, chusb is at the same item of the same command (so nothing of an old command is left when a new one starts, and the user who
  leaves or resets the server does not meet it at work). For a disk, `PassInv` says where the two are: `Behind` that every sector already passed is written or read as it should be, `AtHandWrite` and `AtHandRead`
  what is known of the sector at hand, item by item: which checksum belongs to which block, how many attempts are left, and that an acknowledgement means the checksums agreed. `OrderOfSectors` and
  `NextSector` show that each step passes exactly one more sector, in either order, and that its place in the image is the next one. `Capacity`, `LinearGrows` and `BeforeIs` say that the image has one place for each
  sector. `FetchInv` says that what the PC already has of a file and what the server still holds of it are together a file of the disk,
  or, once the drive has failed, that the PC has the beginning of one and a byte behind. The files of the drive are taken to have at least one byte each, as files
  read by way of the KERNAL have.

  `AlarmsAreTrue` and `CopiesAreTrue`: the walk through an image, and what is copied of it, for images, chains and arrays of every size and links of every kind. `WalkingInv` says where the walk is (`PlaceInv`): at
  a file (`AtFile`), the arrays hold the first sectors of its chain, and what is collected are the bytes of these sectors. What went before is `PassedInv`: in a directory that ends there is a set of sectors that are
  done (`Visited`), closed under links but for the sector at hand, so that no sector and no file comes twice (`NeverAgain`, `AtHand`) and none is left out at the end (`AllVisited`); what the arrays hold behind the
  file at hand is of a file handled before (`Stale`), and of a sound image all of these were acknowledged (`Copied`). An alarm compares the sector at hand with such a leftover, hence `AlarmMeans`.
  `TransferringInv` follows one file: type and name until both sides have them (`Told`), and of the bytes `Carried`: what the server has are the first bytes of the file and its checksum is theirs (`SumUpTo`), or
  one byte was glitched, and then the sums stay different to the end (`SumsDiffer`: adding the same byte to different sums gives different ones), so that the server does not acknowledge. `AckedInv` keeps what was
  acknowledged. `ChainIs`, `GatheredIs` and `SumUpToIs` say what the functions `Chain`, `FileBytes` and `ByteSum` compute, link by link and byte by byte.

The properties of disks say what holds for glitches of a single kind: when blocks and their checksums both arrive wrong, a wrong block can pass for a right one. For the single glitch of the
run this is the same.

Induction over data needs care: the theorems of the library that take a predicate as a parameter cannot be instantiated. `Least` (every set of numbers has a least one, from the well-foundedness of `<`)
does the same for one set at a time: the set of all places where a statement fails has no least element, so it is empty. This is how the sums in `Linear` are computed for every number of tracks, and how
`Recursion` shows that a recursive function on the numbers has a solution, from its finite parts; chains, their bytes and checksums are such functions.

Only model-checked: all liveness (SessionEnds, Dispatches' fairness, LockComesFree, FoundAgain, PromptComesBack, CallReturns, GetsShown, SentIsStarted, CommandEnds), since
the prover has no rule for fairness and ENABLED. Every invariant and every action property of a passing run is proved.

## 5. What the project found

* `ChBidirRace`: `init_usb` clears an announcement made before it; both machines then wait for ever.
* `ChMonWrite`: `while (!feof(f))` sends a last packet of length 0 for a file whose length is a multiple of 128, and the server
  writes 256 bytes for it. `put` does the same to memory.
* `D64TransferVerify`: `verify_d64` passes over a track whose status is bad; if it is the last one, the result is "OK".

Seen while modelling and part of a model, without a run of their own: the branch of `GUIUpdate` that reports "BUG - should not reach here!" is
reached when the Chameleon is unplugged between a click and the start of the task (`TickBug`); READ of a file whose length is a multiple
of 128 waits for ever, and so does READ when there is no drive, since the server then sends nothing (`chserv.s:328-360`, `EndlessRead`); a read error or a missing file ends a READ early, with a byte that
is not of the file, and nobody is told (`Cuts`); a command right behind INIT can be wiped by `init_usb`, and both sides wait for ever (`Lost`); two requests in a row can start a
task with a NULL parameter, which `readMemory`, `writeMemory` and `FlashCore` leave with the lock held (`~rushed` in the properties of
ChacoApp); `chameleon_usb_init` forgets a handle without giving back the interface it has claimed (`chacolib-libusb.c:56-67`), so that after one poll that
failed the claim fails at every retry until the cable is pulled (`~held` in `FoundAgain`; without it TLC finds the Chameleon that stays plugged in, answers, and is never found); a task that
is started while `ch_hnd` is NULL, after a dialog, hands it to libusb (`dead`); in REU mode, reads below `$a000` see the RAM of the C64, because DMA does not know the access mode (the exception in
`GetIsCurrent`); an empty `fill` fills all memory. In ChacoLib: after one late answer every later answer belongs to the request
before it; a lost SET_WRITEPOINTER goes unnoticed and the rest of the image lands in the wrong place; a cable pulled after a
reset of the FPGA leaves `fpgarunning` wrong (`clean` and `told` in the properties). In LogFifo: threads that meet at the ring can lose a count,
and with it the last lines of the log (`raced` in the properties).
In D64Transfer: the two halves of a checksum are compared with `&&` where `||` is meant (`Half` passes); without a drive, a PC that does not
format sends a sector to a C64 that sends a status; an image of the wrong size is noticed after the handshake, which leaves the C64 waiting for
options; a bad status of a track before the last makes the C64 give up and the PC wait for the next one.

In ChUsb: `send` and `execute` tell a running server to go without reading its answer, and both wait for ever (`chusb/readme.txt:66` says that a running server will do); `$9d` takes any
running program for the server; an illegal link in the directory ends `copy` without the end mark, which leaves the server in the middle of a copy, and so does `test`; a directory that loops
is never left; the search for a loop in a file compares one entry of the array only (1133), so that loops are missed until the arrays overrun, and files that share a sector
can be called loops; a missing or refused file sends no answer, and a file of length 0 makes the server expect 2^24 bytes; `write` gives up after three attempts and acknowledges all the
same (the E on the C64's screen is the only trace); `fetch` saves a file that the drive could not read to its end as if it were whole (`chusb.tas:1403-1416` looks at the end of
the file only; `CutShort`); what OPEN says is ignored, so that without a drive the server reads the keyboard while chusb waits (`NoDrive`); the turbo ways have no checksum, so a glitch is stored as it is. `chusb send` does not set BASIC's pointers,
`chcodenet` does, to 0 for a program that ends with the last byte of RAM (`chcodenet.c:98-99`); in `chcodenet` the wait for READY. ends at the first character (harmless, as the screen was cleared), and two typed lines in a row can lose or mix keys (`Calm`). The proof of
`RunsWhatWasSent` found two more: a second `--resetwait` in a command line blanks the screen while the C64 is still printing the READY. of the first, takes what is left of it for its own, and does not "wait until after
reset" (`chcodenet.c:87`), so that the program sent next meets the cold start; and after a `--resetwait` that failed, the next run of chcodenet does the same. `Calm` leaves both out.

In Flash: the test of the size counts the header but not the info block (`chacocmd.c:361`, `update.c:362`), so that a ROM file that fills the slot erases the first sector of the next one
and leaves memory nobody set there (`SpillsInto`); with the GUI, a version that was not asked for - `CheckVersion` failed after `chameleon_init` - is taken for 1 or for that of the
Chameleon before, and the wrong core can go to slot 0 (`known` in `RightCore`); `chacocmd` looks at no result, so a `--readslot` that failed saves what its buffer held, and
asks for the SD card once; the updater of the command line starts core 0 even after a failed write.

## 6. Not modelled

* `chshot` reads memory once and converts pixels; `chamhelp` shows HTML pages; `chmount` encodes a disk or cartridge image and writes it to
  the Chameleon's memory in one call of chacolib. Parsing and formatting, disassembly, PetASCII: pure computation or I/O.
* The firmware of the cartridge, the KERNAL and the drives: chosen outcomes, as the code meets them. A program that runs on the C64 may take keys, end, or do neither;
  what it writes to memory or to the screen is left out, so `RunsWhatWasSent` and `SentIsStarted` except what a program did before (`earlier`).
* `usb_bytes_available` and `waitForTask`: they change nothing, or nobody calls them.
* In chacolib: `getcoreinfo` as a sequence of frames (what it concludes is `Finds` in CoreFlash), the arithmetic of the progress display, and the variant over
  hidapi, which reads without a timeout (the mutant `ReadBlocks` of `CallReturns` shows what follows). `Flash` models the build over libusb, whose handle does not survive a pulled cable.
* What the tasks of Chaco read and write, beyond the lock and the log.
* In chusb: the tape writer, which only says that it is not supported; the file browser (a choice of the user); the menu of the server, which talks to the drive alone.
* In chacocmd: the options for RAM and status, one call each; files that outlive a command line. In the updater: extra ROMs laid over the ROM file. ROMs lie behind the info block, and
  `getcoreinfo` does not look at them: after flashing that was cut off they may be incomplete though the core is found.
* In chtransfer: the transfer of a program into memory, the USB test, the bits that `eload` exchanges with the drive, and the code of a sector on the
  disk (GCR, headers). `verify_d64` reads 256 bytes of answer into an array of 252.
* Failing USB requests inside ChBidir: the code ignores their results and has no recovery; `ChUsb` shows what comes of them (`glitched`).

## 7. Plan

Done: Transfers, ChBidir; Dispatcher, TaskMgr; ChacoApp; ChMon; FlashStore, ChacoLib; LogFifo; D64Transfer; DirectMode, ChUsbWalk, ChUsb; CoreFlash, WxUpdater; the theorems of section 4. To come:

1. Pure algorithms against their definitions: the search of `hunt` (Knuth-Morris-Pratt in `chmon.c`), the progress arithmetic of `chacolib.c`, the
   GCR code and the checksum that PC and drive each compute (`ef3xfer_d64.c`, `drive_1541_write.s`).
2. `chmount`, and `eload` as far as it has state.
