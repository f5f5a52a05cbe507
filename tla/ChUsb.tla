------------------------------- MODULE ChUsb -------------------------------
(***************************************************************************)
(* chusb and its server on the C64 (chusb.c, chusb.tas): the server is     *)
(* sent and started like any program (DirectMode), then every run of chusb *)
(* gives it one command and both carry it out: copy files to a disk drive, *)
(* fetch files from it, write and read whole disks, format, test.          *)
(*                                                                         *)
(* A byte or block is handed over in one step when one side writes and the *)
(* other reads (module ChBidir); a side whose partner does something else  *)
(* waits for ever, nothing times out.  chbidir.c ignores the result of the *)
(* USB requests: when the request for the content of a transfer fails,     *)
(* something else arrives (a glitch), and nobody is told.                  *)
(***************************************************************************)
EXTENDS DirectMode, ChUsbWalk, FiniteSets

CONSTANTS
    Fixed,       \* the name a file of the C64 gets on the PC
    LenMod,      \* a length is sent in three bytes, 2^24 in the code
    SumMod,      \* a checksum counts modulo this, 256 in the code
    NumSectors,  \* sectorsPerTrack
    Blocks,      \* what a sector of a disk can hold, a number
    Rounds,      \* how many bytes the test sends, 64 * 256
    Server,      \* chusb.prg
    Disks, Stocks,  \* the sectors and the files of the drive at the beginning
    MaxGlitches, MaxFlaws  \* failed requests, sectors the drive gets wrong

Names == DOMAIN Fixed
TS == UNION {{<<t, s>> : s \in 0 .. NumSectors[t] - 1} : t \in DOMAIN NumSectors}
EndTS == <<0, 0>>

\* A sector the drive got wrong, one that is freshly formatted.
Flaw == -1
Fresh == -2
Contents == Blocks \cup {Flaw, Fresh}

ASSUME UsbAssumption ==
    /\ LenMod \in Nat \ {0, 1} /\ SumMod \in Nat \ {0, 1}
    /\ NumSectors \in Seq(Nat \ {0}) /\ NumSectors # <<>>
    /\ Bytes \subseteq 0 .. SumMod - 1 /\ Blocks \subseteq Nat
    /\ Rounds \in Nat \ {0} /\ MaxGlitches \in Nat /\ MaxFlaws \in Nat
    /\ Disks \subseteq [TS -> Contents]
    /\ \A stock \in Stocks : \A f \in stock : f.body \in Seq(Bytes) \ {<<>>}
    /\ \A im \in Images : \A p \in Places : im.sector[p].bytes \in Seq(Bytes)

\* What a user can ask for: options chcodenet knows, with a PRG and an address; one
\* command of chusb, with a PRG to send.
Options == {"x", "w", "wa", "wb", "f", "r", "e", "reset", "resetwait", "vic20", "vic20-8k",
            "ignored", "usage"}
Commands == {"execute", "send", "copy", "dir", "write", "read", "fetch", "format", "test"}

ASSUME SessionAssumption == \A s \in Sessions :
    /\ s \in Seq({s[j] : j \in DOMAIN s})
    /\ \A j \in DOMAIN s : s[j].prog = "chcodenet" =>
          /\ s[j].opts \in Seq({s[j].opts[i] : i \in DOMAIN s[j].opts})
          /\ \A i \in DOMAIN s[j].opts :
                LET o == s[j].opts[i]
                IN o.op \in Options /\ o.file.load \in Ram /\ o.file.body \in Seq(Bytes)
                   /\ o.addr \in 0 .. 99
    /\ \A j \in DOMAIN s : s[j].prog # "chcodenet" =>
          /\ s[j].prog = "chusb" /\ s[j].cmd \in Commands
          /\ s[j].cmd \in {"copy", "dir"} => s[j].image \in Images
          /\ s[j].file.load \in Ram /\ s[j].file.body \in Seq(Bytes)

VARIABLES
    k, ts, buf, ackbyte, pname,      \* chusb: loops, image, bufread[0], c64filename
    acked, written,                  \* what it was told is stored; the files it has written
    cpc, cts, block, retries, mark,  \* the server; its sector; the marks on its screen
    fname, ftype, left, mychecksum, checkcalc, fdata,  \* the server's file
    files, disk,                     \* the drive: its files, its sectors
    glitched, refused, flaws         \* history and bounds

pcVars == <<k, ts, buf, ackbyte, pname, acked, written>>
sectorVars == <<cts, block, retries, mark>>
sumVars == <<mychecksum, checkcalc>>
fileVars == <<fname, ftype, left, fdata>>
driveVars == <<files, disk, refused, flaws>>
serverVars == <<cpc, sectorVars, sumVars, fileVars, driveVars>>
usbVars == <<upc, walkVars, pcVars, serverVars, glitched>>
vars == <<directVars, usbVars>>

\* The command chusb was started with.
Cmd == jobs[turn]

ByteSum(d) ==
    LET sum[i \in 0 .. Len(d)] == IF i = 0 THEN 0 ELSE (sum[i - 1] + d[i]) % SumMod
    IN sum[Len(d)]

BlockSum(b) == IF b \in Blocks THEN b % SumMod ELSE 0

Linear(p) ==
    LET before[t \in 0 .. Len(NumSectors)] ==
          IF t = 0 THEN 0 ELSE before[t - 1] + NumSectors[t]
    IN before[p[1] - 1] + p[2]

NoImage == [i \in 0 .. Cardinality(TS) - 1 |-> Flaw]

\* One side writes what the other reads.
Meet(p, c) == tool = "chusb" /\ upc = p /\ basic = "server" /\ cpc = c

\* v is written, w arrives.
Arrives(item, v, w) ==
    IF w = v THEN UNCHANGED glitched
    ELSE Cardinality(glitched) < MaxGlitches /\ glitched' = glitched \cup {item}

-----------------------------------------------------------------------------
(***************************************************************************)
(* chusb starts and ends.                                                  *)
(***************************************************************************)
\* A format it does not know, 40 tracks by way of the KERNAL; the directory of a program.
BadFormat(j) == j.size = "other" \/ (j.size = "40" /\ j.kernal)
NoDirectory(j) == j.cmd = "dir" /\ j.single
Unsupported(j) == (j.cmd \in {"write", "read"} /\ BadFormat(j)) \/ NoDirectory(j)

Sending == {"execute", "send"}

\* A file that is not there only gives a message and an exit status of 0.
StartChusb(there) ==
    /\ Starts("chusb")
    /\ there \/ Job.cmd \in {"copy", "dir", "write"} \cup Sending
    /\ IF there /\ ~Unsupported(Job)
       THEN /\ tool' = "chusb"
            /\ upc' = CASE Job.cmd = "dir" -> "directory" [] Job.cmd \in Sending -> "check"
                        [] OTHER -> "sync"
       ELSE tool' = (IF there THEN "failed" ELSE "ok") /\ upc' = "none"
    /\ IF Job.cmd \in {"dir", "copy"}
       THEN Begin(Job.image, Job.cmd = "copy", Job.single, Job.file.body)
       ELSE UNCHANGED walkVars
    /\ sent' = IF there /\ Job.cmd \in Sending THEN Job.file ELSE sent
    /\ buf' = IF Job.cmd = "write" THEN Job.data ELSE NoImage
    /\ k' = 0 /\ ts' = EndTS /\ acked' = {} /\ written' = {}
    /\ UNCHANGED <<opts, todo, target, memory, machine, entered, earlier, ackbyte, pname,
                   serverVars, glitched>>

Exits(how) ==
    /\ tool' = how /\ upc' = "none"
    /\ UNCHANGED <<jobs, turn, opts, todo, target, memory, machine, history>>

\* Between exits the program does not change what DirectMode is about.
GoesOn(to) == upc' = to /\ UNCHANGED directVars

\* dir has seen the whole directory, or an illegal link ends chusb where it stands.
Quit ==
    /\ tool = "chusb" /\ (upc = "quit" \/ (upc = "endmark" /\ ~copying))
    /\ Exits("ok")
    /\ UNCHANGED <<walkVars, pcVars, serverVars, glitched>>

Walk ==
    /\ tool = "chusb" /\ WalkNext
    /\ UNCHANGED <<directVars, pcVars, serverVars, glitched>>

-----------------------------------------------------------------------------
(***************************************************************************)
(* e[xecute] and s[end]: the program goes to memory, RUN is typed.         *)
(***************************************************************************)
\* $9d tells direct mode; any program is taken for the server.
ServerRunning == basic \notin {"ready", "direct"}

\* send without a name opens chusb.prg only now.
CheckServer(opens) ==
    /\ tool = "chusb" /\ upc \in {"check", "gone"}
    /\ IF ServerRunning
       THEN upc' = (IF upc = "check" THEN "noack" ELSE "gone") /\ UNCHANGED <<todo, tool>>
       ELSE IF opens
       THEN /\ upc' = "dma" /\ UNCHANGED tool
            /\ todo' = <<WriteRam(sent.load, sent.body)>> \o execute_run
       ELSE Cmd.cmd = "send" /\ tool' = "failed" /\ upc' = "none" /\ UNCHANGED todo
    /\ UNCHANGED <<jobs, turn, opts, target, memory, machine, history, walkVars, pcVars,
                   serverVars, glitched>>

\* startcommand_noack: nobody reads the answer send_byte wants to get rid of.
StartNoAck ==
    /\ Meet("noack", "menu")
    /\ GoesOn("gone") /\ cpc' = "cmdack"
    /\ UNCHANGED <<walkVars, pcVars, sectorVars, sumVars, fileVars, driveVars, glitched>>

DmaDone ==
    /\ tool = "chusb" /\ upc = "dma" /\ todo = <<>>
    /\ Exits("ok")
    /\ UNCHANGED <<walkVars, pcVars, serverVars, glitched>>

\* RUN of chusb.prg; init_usb clears the mailboxes.
ServerStarts ==
    /\ basic = "run"
    /\ \A i \in 1 .. Len(Server.body) : ram[Server.load + i - 1] = Server.body[i]
    /\ basic' = "server" /\ cpc' = "menu"
    /\ UNCHANGED <<toolVars, memory, line, history, upc, walkVars, pcVars, sectorVars, sumVars,
                   fileVars, driveVars, glitched>>

\* The user's reset; here only when nothing else helps.
UserResets ==
    /\ tool = "chusb" /\ upc = "gone" /\ basic = "server"
    /\ basic' = "reset" /\ line' = <<>> /\ earlier' = FALSE
    /\ UNCHANGED <<toolVars, memory, sent, entered, usbVars>>

-----------------------------------------------------------------------------
(***************************************************************************)
(* The server's menu.                                                      *)
(***************************************************************************)
\* The user reads the screen and presses space; or leaves the menu with x.
UserContinues ==
    /\ basic = "server"
    /\ \/ cpc = "space" /\ cpc' = "menu" /\ UNCHANGED basic
       \/ cpc = "menu" /\ basic' = "direct" /\ UNCHANGED cpc
    /\ UNCHANGED <<toolVars, memory, line, history, upc, walkVars, pcVars, sectorVars, sumVars,
                   fileVars, driveVars, glitched>>

\* startcommand: three bytes of synchronisation and the command.
StartCommand ==
    /\ Meet("sync", "menu")
    /\ GoesOn("cmdack") /\ cpc' = "cmdack"
    /\ UNCHANGED <<walkVars, pcVars, sectorVars, sumVars, fileVars, driveVars, glitched>>

FirstStep == CASE Cmd.cmd = "copy" -> IF single THEN "type" ELSE "directory"
               [] Cmd.cmd \in {"write", "read"} -> "mode"
               [] Cmd.cmd = "format" -> "tracks"
               [] Cmd.cmd = "fetch" -> "xstatus"
               [] Cmd.cmd = "test" -> "hello"

\* The acknowledge goes out before the server looks at the command.
Command ==
    /\ Meet("cmdack", "cmdack")
    /\ GoesOn(FirstStep)
    /\ cpc' = CASE Cmd.cmd = "copy" -> "type" [] Cmd.cmd = "fetch" -> "browse"
                [] OTHER -> FirstStep
    /\ ackbyte' = 0
    /\ UNCHANGED <<walkVars, k, ts, buf, pname, acked, written, sectorVars, sumVars, fileVars,
                   driveVars, glitched>>

-----------------------------------------------------------------------------
(***************************************************************************)
(* c[opy]: sendfile, filecopy.                                             *)
(***************************************************************************)
Current == IF single THEN Cmd.file ELSE Entry

SendType ==
    /\ Meet("type", "type")
    /\ \E t \in {"end", "seq", "prg"} :
         /\ Arrives("type", Current.type, t)
         /\ ftype' = t /\ cpc' = IF t = "end" THEN "menu" ELSE "name"
    /\ GoesOn("name") /\ checkcalc' = 0
    /\ UNCHANGED <<walkVars, pcVars, sectorVars, mychecksum, fname, left, fdata, driveVars>>

EndMark ==
    /\ Meet("endmark", "type") /\ copying
    /\ Exits("ok") /\ cpc' = "menu"
    /\ UNCHANGED <<walkVars, pcVars, sectorVars, sumVars, fileVars, driveVars, glitched>>

SendName ==
    /\ Meet("name", "name")
    /\ \E n \in Names : Arrives("name", Current.name, n) /\ fname' = n
    /\ GoesOn("len") /\ cpc' = "len"
    /\ UNCHANGED <<walkVars, pcVars, sectorVars, sumVars, ftype, left, fdata, driveVars>>

SendLen ==
    /\ Meet("len", "len")
    /\ \E n \in 0 .. LenMod - 1 : Arrives("len", Len(filebuf) % LenMod, n) /\ left' = n
    /\ GoesOn("sum") /\ cpc' = "sum"
    /\ UNCHANGED <<walkVars, pcVars, sectorVars, sumVars, fname, ftype, fdata, driveVars>>

AfterSum == IF filebuf = <<>> THEN "ack" ELSE "data"

SendSum ==
    /\ Meet("sum", "sum")
    /\ \E n \in 0 .. SumMod - 1 : Arrives("sum", ByteSum(filebuf), n) /\ mychecksum' = n
    /\ GoesOn(AfterSum) /\ k' = 0 /\ cpc' = "open"
    /\ UNCHANGED <<walkVars, ts, buf, ackbyte, pname, acked, written, sectorVars, checkcalc,
                   fileVars, driveVars>>

\* Without a drive the server shows an error and goes back to the menu.
OpenFile ==
    /\ basic = "server" /\ cpc = "open"
    /\ cpc' \in {"data", "space"} /\ fdata' = <<>>
    /\ UNCHANGED <<directVars, upc, walkVars, pcVars, sectorVars, sumVars, fname, ftype, left,
                   driveVars, glitched>>

AfterByte == IF k + 1 < Len(filebuf) THEN "data" ELSE "ack"

CountDown(n) == IF n = 0 THEN LenMod - 1 ELSE n - 1

\* A slip: the count goes below zero before the loop ends.
LastByteLate(n) == n = LenMod - 1

LastByte(n) == n = 0

SendData ==
    /\ Meet("data", "data")
    /\ \E b \in Bytes :
         /\ Arrives("data", filebuf[k + 1], b)
         /\ fdata' = Append(fdata, b)
         /\ checkcalc' = (checkcalc + b) % SumMod
    /\ left' = CountDown(left)
    /\ cpc' = IF LastByte(left') THEN "close" ELSE "data"
    /\ GoesOn(AfterByte) /\ k' = k + 1
    /\ UNCHANGED <<walkVars, ts, buf, ackbyte, pname, acked, written, sectorVars, mychecksum,
                   fname, ftype, driveVars>>

\* A slip: the checksum is not compared.
SumIsWrongNever(m, c) == FALSE

SumIsWrong(m, c) == m # c

\* The drive may have refused the file (it exists, the disk is full or protected): the
\* error channel is not read.  The user can stop the transfer.
CloseFile(taken, stop) ==
    /\ basic = "server" /\ cpc = "close"
    /\ IF taken
       THEN /\ \A f \in files : f.name # fname
            /\ files' = files \cup {[name |-> fname, type |-> ftype, body |-> fdata]}
            /\ UNCHANGED refused
       ELSE refused' = refused \cup {fname} /\ UNCHANGED files
    /\ cpc' = IF stop \/ SumIsWrong(mychecksum, checkcalc) THEN "nak" ELSE "ack"
    /\ UNCHANGED <<directVars, upc, walkVars, pcVars, sectorVars, sumVars, fileVars, disk,
                   flaws, glitched>>

\* The answer: $ff or 0.  When it cannot be read, bufread holds what it held before.
Answer(c) == IF c = "ack" THEN 255 ELSE 0

FileAck(c, a) ==
    /\ Meet("ack", c) /\ c \in {"ack", "nak"} /\ a \in {Answer(c), ackbyte}
    /\ Arrives("ack", Answer(c), a) /\ ackbyte' = a
    /\ cpc' = IF c = "ack" THEN "type" ELSE "space"
    /\ IF a = 255
       THEN /\ acked' = acked \cup {[name |-> Current.name, type |-> Current.type, body |-> filebuf]}
            /\ GoesOn(IF single THEN "endmark" ELSE "entry")
            /\ pos' = pos + 1
       ELSE Exits("ok") /\ UNCHANGED <<acked, pos>>
    /\ UNCHANGED <<image, copying, single, nexttr, here, filetr, used, usednum, filebuf, corrupted,
                   k, ts, buf, pname, written, sectorVars, sumVars, fileVars, driveVars>>

\* In the menu the server drops bytes that are no command.
Swallow ==
    /\ tool = "chusb" /\ basic = "server" /\ cpc = "menu"
    /\ \/ upc = "name" /\ GoesOn("len") /\ UNCHANGED k
       \/ upc = "len" /\ GoesOn("sum") /\ UNCHANGED k
       \/ upc = "sum" /\ GoesOn(AfterSum) /\ k' = 0
       \/ upc = "data" /\ GoesOn(AfterByte) /\ k' = k + 1
    /\ UNCHANGED <<walkVars, ts, buf, ackbyte, pname, acked, written, serverVars, glitched>>

-----------------------------------------------------------------------------
(***************************************************************************)
(* w[rite] and r[ead]: a disk, sector by sector.  The KERNAL way goes up   *)
(* the sectors of a track and has a checksum, the turbo way goes down and  *)
(* has none.                                                               *)
(***************************************************************************)
Writing == Cmd.cmd = "write"

FirstOf(t) == IF t > Len(NumSectors) THEN EndTS
              ELSE IF Cmd.kernal THEN <<t, 0>> ELSE <<t, NumSectors[t] - 1>>

After(p) ==
    LET s == IF Cmd.kernal THEN p[2] + 1 ELSE p[2] - 1 IN
    IF s \in 0 .. NumSectors[p[1]] - 1 THEN <<p[1], s>> ELSE FirstOf(p[1] + 1)

\* A slip: the turbo way counts a position up like the KERNAL way.
BufIndexCounted(p) == k

\* The KERNAL way counts a position up, the turbo way asks off().
BufIndex(p) == IF Cmd.kernal THEN k ELSE Linear(p)

Items ==
    CASE Writing /\ Cmd.kernal -> <<"status", "place", "bsum", "block", "mark", "sack">>
      [] Writing /\ ~Cmd.kernal -> <<"status", "block", "place", "mark", "sack">>
      [] ~Writing /\ Cmd.kernal -> <<"status", "place", "rblock", "bsum", "mark", "sack">>
      [] OTHER -> <<"status", "place", "rblock", "mark", "sack">>

Then(item) == Items[1 + CHOOSE i \in DOMAIN Items : Items[i] = item]

\* Kernal or turbo, and for writing how often to try.
SendMode ==
    /\ Meet("mode", "mode")
    /\ GoesOn("status") /\ cpc' = "status" /\ ts' = FirstOf(1) /\ k' = 0
    /\ UNCHANGED <<walkVars, buf, ackbyte, pname, acked, written, sectorVars, sumVars, fileVars,
                   driveVars, glitched>>

SendStatus ==
    /\ Meet("status", "status") /\ ts # EndTS
    /\ GoesOn(Then("status")) /\ cpc' = Then("status")
    /\ retries' = IF Writing /\ Cmd.verify THEN 3 ELSE 0
    /\ UNCHANGED <<walkVars, pcVars, cts, block, mark, sumVars, fileVars, driveVars, glitched>>

\* The end mark; only now the image that was read becomes a file, if it can be opened.
SendEnd(opens) ==
    /\ Meet("status", "status") /\ ts = EndTS
    /\ Exits("ok") /\ cpc' = "space"
    /\ written' = IF ~Writing /\ opens THEN {[name |-> "image", body |-> buf]} ELSE written
    /\ UNCHANGED <<walkVars, k, ts, buf, ackbyte, pname, acked, sectorVars, sumVars, fileVars,
                   driveVars, glitched>>

\* In reading the drive gets to work when the server knows the place.
SendPlace ==
    /\ Meet("place", "place")
    /\ \E p \in TS : Arrives("place", ts, p) /\ cts' = p
    /\ GoesOn(Then("place")) /\ cpc' = IF Writing THEN Then("place") ELSE "seek"
    /\ UNCHANGED <<walkVars, pcVars, block, retries, mark, sumVars, fileVars, driveVars>>

SendBlockSum ==
    /\ Meet("bsum", "bsum")
    /\ \E n \in 0 .. SumMod - 1 :
         Arrives("bsum", BlockSum(buf[BufIndex(ts)]), n) /\ mychecksum' = n
    /\ GoesOn(Then("bsum")) /\ cpc' = Then("bsum")
    /\ UNCHANGED <<walkVars, pcVars, sectorVars, checkcalc, fileVars, driveVars>>

SendBlock ==
    /\ Meet("block", "block")
    /\ \E b \in Blocks : Arrives("block", buf[BufIndex(ts)], b)
                         /\ block' = b /\ checkcalc' = BlockSum(b)
    /\ GoesOn(Then("block")) /\ cpc' = Then("block")
    /\ UNCHANGED <<walkVars, pcVars, cts, retries, mark, mychecksum, fileVars, driveVars>>

\* Where on its screen the server shows what becomes of the sector.
SendMark ==
    /\ Meet("mark", "mark")
    /\ mark' = IF Writing THEN mark ELSE [mark EXCEPT ![ts] = "*"]
    /\ GoesOn("sack")
    /\ cpc' = CASE ~Writing -> "key"
                [] Writing /\ Cmd.kernal /\ SumIsWrong(mychecksum, checkcalc) -> "nak"
                [] OTHER -> "store"
    /\ UNCHANGED <<walkVars, pcVars, cts, block, retries, sumVars, fileVars, driveVars, glitched>>

ServerStep ==
    /\ basic = "server"
    /\ UNCHANGED <<directVars, upc, walkVars, pcVars, sumVars, fileVars, files, refused, glitched>>

\* A slip: a sector is shown as good when the attempts are used up.
GiveUpSilently(same, n) == IF same \/ n = 0 THEN "*" ELSE "E"

Shown(same, n) == IF same THEN "*" ELSE "E"

\* A step of the drive that may go wrong.
Drive(good) ==
    /\ good \/ flaws < MaxFlaws
    /\ flaws' = IF good THEN flaws ELSE flaws + 1

\* When the drive fails the sector is spoilt, or it stays what it was: the disk is
\* protected, or nobody hears the bytes.
StoreSector(good) ==
    /\ cpc = "store" /\ ServerStep /\ Drive(good)
    /\ \E b \in IF good THEN {block} ELSE {Flaw, disk[cts]} : disk' = [disk EXCEPT ![cts] = b]
    /\ IF retries = 0
       THEN cpc' = "key" /\ mark' = [mark EXCEPT ![ts] = "*"] /\ UNCHANGED retries
       ELSE cpc' = "verify" /\ mark' = [mark EXCEPT ![ts] = "W"] /\ retries' = retries - 1
    /\ UNCHANGED <<cts, block>>

\* The last attempt counts, whatever came of it: the sector is acknowledged.
Compared(same) ==
    /\ mark' = [mark EXCEPT ![ts] = Shown(same, retries)]
    /\ cpc' = IF mark'[ts] = "*" \/ retries = 0 THEN "key" ELSE "store"

VerifySector ==
    /\ cpc = "verify" /\ ServerStep
    /\ \E good \in BOOLEAN : Drive(good) /\ Compared(good /\ disk[cts] = block)
    /\ UNCHANGED <<cts, block, retries, disk>>

\* A sector the drive cannot read gives some bytes as well.
ReadSector(good) ==
    /\ cpc = "seek" /\ ServerStep /\ Drive(good)
    /\ block' = IF good THEN disk[cts] ELSE Flaw
    /\ cpc' = "rblock"
    /\ UNCHANGED <<cts, retries, mark, disk>>

\* The result of OPEN is not looked at: without a drive the server reads the keyboard
\* (the turbo way waits for the drive) while the PC waits for its bytes.
NoDrive ==
    /\ cpc \in {"seek", "verify", "xopen"} /\ ServerStep /\ Drive(FALSE)
    /\ cpc' = "keyboard"
    /\ UNCHANGED <<sectorVars, disk>>

\* Lines the user types become the sector; they never end a file.
UserTypes ==
    /\ cpc = "keyboard" /\ Cmd.cmd \in {"write", "read"} /\ Cmd.kernal /\ ServerStep
    /\ IF Writing THEN Compared(FALSE) /\ UNCHANGED block
       ELSE block' = Flaw /\ cpc' = "rblock" /\ UNCHANGED mark
    /\ UNCHANGED <<cts, retries, disk, flaws>>

TakeBlock ==
    /\ Meet("rblock", "rblock")
    /\ \E b \in Contents : Arrives("rblock", block, b) /\ buf' = [buf EXCEPT ![BufIndex(ts)] = b]
    /\ checkcalc' = BlockSum(block)
    /\ GoesOn(Then("rblock")) /\ cpc' = Then("rblock")
    /\ UNCHANGED <<walkVars, k, ts, ackbyte, pname, acked, written, sectorVars, mychecksum,
                   fileVars, driveVars>>

\* run/stop, and the checksum of what the PC has read.
CheckKey(stop) ==
    /\ cpc = "key" /\ ServerStep
    /\ cpc' = IF stop \/ (~Writing /\ Cmd.kernal /\ SumIsWrong(mychecksum, checkcalc))
              THEN "nak" ELSE "ack"
    /\ UNCHANGED <<sectorVars, disk, flaws>>

SectorAck(c, a) ==
    /\ Meet("sack", c) /\ c \in {"ack", "nak"} /\ a \in {Answer(c), ackbyte}
    /\ Arrives("ack", Answer(c), a) /\ ackbyte' = a
    /\ cpc' = IF c = "ack" THEN "status" ELSE "space"
    /\ IF a = 255 THEN GoesOn("status") /\ ts' = After(ts) /\ k' = k + 1
       ELSE Exits("failed") /\ UNCHANGED <<ts, k>>
    /\ UNCHANGED <<walkVars, buf, pname, acked, written, sectorVars, sumVars, fileVars, driveVars>>

-----------------------------------------------------------------------------
(***************************************************************************)
(* x[fer]: the user picks files on the C64; f[ormat]; 0[test].             *)
(***************************************************************************)
\* The user picks a file, or ends it.
Browse ==
    /\ basic = "server" /\ cpc = "browse"
    /\ \/ cpc' = "xend" /\ UNCHANGED <<fname, ftype, fdata>>
       \/ \E f \in files : fname' = f.name /\ ftype' = f.type /\ fdata' = f.body /\ cpc' = "xstart"
    /\ UNCHANGED <<directVars, upc, walkVars, pcVars, sectorVars, sumVars, left, driveVars, glitched>>

FetchFile ==
    /\ Meet("xstatus", "xstart")
    /\ GoesOn("xname") /\ cpc' = "xname"
    /\ UNCHANGED <<walkVars, pcVars, sectorVars, sumVars, fileVars, driveVars, glitched>>

FetchEnd ==
    /\ Meet("xstatus", "xend")
    /\ Exits("ok") /\ cpc' = "menu"
    /\ UNCHANGED <<walkVars, pcVars, sectorVars, sumVars, fileVars, driveVars, glitched>>

FetchName ==
    /\ Meet("xname", "xname")
    /\ \E n \in Names : Arrives("xname", fname, n) /\ pname' = n
    /\ filebuf' = <<>>
    /\ GoesOn("xbyte") /\ cpc' = "xopen"
    /\ UNCHANGED <<image, copying, single, nexttr, here, pos, filetr, used, usednum, corrupted,
                   k, ts, buf, ackbyte, acked, written, sectorVars, sumVars, fileVars, driveVars>>

\* The server only asks for the end of the file: when the drive cannot find or read it, one
\* more byte arrives and that is the end.
FetchByte ==
    /\ Meet("xbyte", "xopen") \/ Meet("xbyte", "xbyte")
    /\ \E good \in BOOLEAN, c, b \in Bytes :
         /\ Drive(good) /\ (good => c = Head(fdata))
         /\ Arrives("xbyte", c, b) /\ filebuf' = Append(filebuf, b)
         /\ fdata' = IF good THEN Tail(fdata) ELSE <<>>
    /\ GoesOn("xmore") /\ cpc' = "xmore"
    /\ UNCHANGED <<image, copying, single, nexttr, here, pos, filetr, used, usednum, corrupted,
                   pcVars, sectorVars, sumVars, fname, ftype, left, files, disk, refused>>

\* fopen for writing empties a file of the same name, or fails, and the next file follows.
FetchMore(opens) ==
    /\ Meet("xmore", "xmore")
    /\ IF fdata # <<>>
       THEN opens /\ GoesOn("xbyte") /\ cpc' = "xbyte" /\ UNCHANGED written
       ELSE /\ GoesOn("xstatus") /\ cpc' = "browse"
            /\ written' = IF opens THEN {w \in written : w.name # Fixed[pname]}
                                        \cup {[name |-> Fixed[pname], body |-> filebuf]}
                          ELSE written
    /\ UNCHANGED <<walkVars, k, ts, buf, ackbyte, pname, acked, sectorVars, sumVars, fileVars,
                   driveVars, glitched>>

SendTracks ==
    /\ Meet("tracks", "tracks")
    /\ GoesOn("fmtack") /\ cpc' = "format"
    /\ UNCHANGED <<walkVars, pcVars, sectorVars, sumVars, fileVars, driveVars, glitched>>

FormatDisk ==
    /\ cpc = "format" /\ basic = "server"
    /\ disk' = [p \in TS |-> Fresh] /\ files' = {}
    /\ cpc' = "fmtack"
    /\ UNCHANGED <<directVars, upc, walkVars, pcVars, sectorVars, sumVars, fileVars, refused,
                   flaws, glitched>>

FormatAck ==
    /\ Meet("fmtack", "fmtack")
    /\ Exits("ok") /\ cpc' = "space"
    /\ UNCHANGED <<walkVars, pcVars, sectorVars, sumVars, fileVars, driveVars, glitched>>

TestHello ==
    /\ Meet("hello", "hello")
    /\ GoesOn("probe") /\ cpc' = "probe" /\ k' = 0
    /\ UNCHANGED <<walkVars, ts, buf, ackbyte, pname, acked, written, sectorVars, sumVars,
                   fileVars, driveVars, glitched>>

TestProbe ==
    /\ Meet("probe", "probe")
    /\ \E b \in 0 .. SumMod - 1 : Arrives("probe", k % SumMod, b) /\ block' = b
    /\ GoesOn("echo") /\ cpc' = "echo"
    /\ UNCHANGED <<walkVars, pcVars, cts, retries, mark, sumVars, fileVars, driveVars>>

\* The server goes on waiting for bytes when the test is over.
TestEcho ==
    /\ Meet("echo", "echo")
    /\ \E b \in 0 .. SumMod - 1 :
         /\ Arrives("echo", block, b)
         /\ IF b # k % SumMod THEN Exits("failed")
            ELSE IF k + 1 < Rounds THEN GoesOn("probe") ELSE Exits("ok")
    /\ k' = k + 1 /\ cpc' = "probe"
    /\ UNCHANGED <<walkVars, ts, buf, ackbyte, pname, acked, written, sectorVars, sumVars,
                   fileVars, driveVars>>

-----------------------------------------------------------------------------
Init ==
    /\ DirectInit /\ WalkInit
    /\ k = 0 /\ ts = EndTS /\ buf = NoImage /\ ackbyte = 0 /\ pname = CHOOSE n \in Names : TRUE
    /\ acked = {} /\ written = {}
    /\ cpc = "menu" /\ cts = <<1, 0>> /\ block = Flaw /\ retries = 0
    /\ mark = [p \in TS |-> " "]
    /\ fname = (CHOOSE n \in Names : TRUE) /\ ftype = "prg" /\ left = 0 /\ mychecksum = 0 /\ checkcalc = 0
    /\ fdata = <<>>
    /\ files \in Stocks /\ disk \in Disks
    /\ glitched = {} /\ refused = {} /\ flaws = 0

Send == (\E opens \in BOOLEAN : CheckServer(opens)) \/ StartNoAck \/ DmaDone

Copy == SendType \/ EndMark \/ SendName \/ SendLen \/ SendSum \/ SendData \/ Swallow
        \/ \E c \in {"ack", "nak"}, a \in {0, 255} : FileAck(c, a)

Sector == SendMode \/ SendStatus \/ SendPlace \/ SendBlockSum \/ SendBlock \/ SendMark \/ TakeBlock
          \/ (\E opens \in BOOLEAN : SendEnd(opens))
          \/ \E c \in {"ack", "nak"}, a \in {0, 255} : SectorAck(c, a)

Other == FetchFile \/ FetchEnd \/ FetchName \/ FetchByte \/ (\E opens \in BOOLEAN : FetchMore(opens))
         \/ SendTracks \/ FormatAck \/ TestHello \/ TestProbe \/ TestEcho

ServerAlone ==
    \/ OpenFile \/ VerifySector \/ NoDrive \/ FormatDisk
    \/ \E b \in BOOLEAN : StoreSector(b) \/ ReadSector(b) \/ CheckKey(b)
    \/ \E taken, stop \in BOOLEAN : CloseFile(taken, stop)

Program ==
    \/ CodenetNext /\ UNCHANGED usbVars
    \/ Quit \/ Walk \/ Send \/ StartCommand \/ Command \/ Copy \/ Sector \/ Other
    \/ \E there \in BOOLEAN : StartChusb(there)

C64 == (BasicNext /\ UNCHANGED usbVars) \/ ServerStarts \/ ServerAlone

User == UserContinues \/ UserTypes \/ UserResets \/ Browse

Next == Program \/ C64 \/ User

Spec == Init /\ [][Next]_vars

\* Whether a program on the C64 ends or reads the keys is up to the program.
Machine == (SystemNext /\ UNCHANGED usbVars) \/ ServerStarts \/ ServerAlone

FairSpec == Spec /\ WF_vars(Program) /\ WF_vars(Machine) /\ WF_vars(cpc = "space" /\ UserContinues)

-----------------------------------------------------------------------------
(***************************************************************************)
(* Correctness.                                                            *)
(***************************************************************************)
Running(c) == tool # "none" /\ Cmd.prog = "chusb" /\ Cmd.cmd = c

ImageFile(e) == [name |-> e.name, type |-> e.type, body |-> FileBytes(image, Sectors(image, e))]

\* The directory of the image ends, and every file of it does, too.
ToCopy == {EntryAt(image, q) : q \in Listed(image)}
Sound == DirEnds(image) /\ \A e \in ToCopy : EndsInTime(image, e)

(***************************************************************************)
(* A file chusb was told is stored has its name, its type and the bytes of *)
(* the chain in the image, and unless the drive refused it it is on the    *)
(* disk like that, even when checksums were glitched, or one byte.  When   *)
(* the copy of a sound image has come to its end mark, these are all its   *)
(* files (sendfile, chusb.c:244, and the copy command).                    *)
(***************************************************************************)
CopyIsTrue == Running("copy") =>
    /\ \A f \in acked :
         /\ \/ single /\ f = [name |-> Cmd.file.name, type |-> Cmd.file.type, body |-> Cmd.file.body]
            \/ ~single /\ \E e \in ToCopy : f = ImageFile(e)
         /\ glitched \subseteq {"sum"} \/ (glitched \subseteq {"data"} /\ MaxGlitches = 1) =>
               f \in files \/ f.name \in refused
    /\ upc = "endmark" /\ copying /\ ~single /\ Sound /\ ~Shared(image) =>
         acked = {ImageFile(e) : e \in ToCopy}

(***************************************************************************)
(* When a disk was written, a sector that does not hold what the image     *)
(* holds shows an E, or the drive has failed and it was not asked for      *)
(* verification; by way of the KERNAL the checksums agree like that even   *)
(* when blocks are glitched, or checksums, but not both (chusb.c:556-705,  *)
(* the server's writeimage).                                               *)
(***************************************************************************)
WrongSectorsShow == Running("write") /\ tool = "ok" /\ k = Cardinality(TS) =>
    \A p \in TS :
       LET want == Cmd.data[Linear(p)] IN
       /\ glitched = {} =>
             disk[p] = want \/ mark[p] = "E" \/ (~Cmd.verify /\ flaws > 0)
       /\ Cmd.kernal /\ (glitched \subseteq {"block"} \/ glitched \subseteq {"bsum"}) =>
             BlockSum(disk[p]) = BlockSum(want) \/ mark[p] = "E" \/ (~Cmd.verify /\ flaws > 0)

\* What arrives of a file the drive fails at: some of it, and one byte that is not its own.
CutShort(d) == {Append(SubSeq(d, 1, n), b) : n \in 0 .. Len(d) - 1, b \in Bytes}

(***************************************************************************)
(* A file on the PC is true to the drive: an image has in every place what *)
(* that sector of the disk holds, but for the sectors the drive could not  *)
(* read, and a fetched file is some file of the disk under its name, whole *)
(* unless the drive failed at it, and then no more than cut short: nobody  *)
(* is told (chusb.c:472-538 and 706-803, chusb.tas:1403-1431).             *)
(***************************************************************************)
SavedIsTrue == \A w \in written :
    /\ Running("read") => \A p \in TS :
         LET got == w.body[Linear(p)] IN
         /\ glitched = {} => got = disk[p] \/ (flaws > 0 /\ got = Flaw)
         /\ Cmd.kernal /\ (glitched \subseteq {"rblock"} \/ glitched \subseteq {"bsum"}) =>
               BlockSum(got) = BlockSum(disk[p]) \/ flaws > 0
    /\ Running("fetch") /\ glitched = {} =>
         \E f \in files : /\ w.name = Fixed[f.name]
                          /\ w.body = f.body \/ (flaws > 0 /\ w.body \in CutShort(f.body))

\* Where a session types one line, and changes no memory after it.
Ops == UNION {IF jobs[j].prog = "chusb" THEN {<<j, 1, jobs[j].cmd>>}
              ELSE {<<j, i, jobs[j].opts[i].op>> : i \in DOMAIN jobs[j].opts} : j \in DOMAIN jobs}
Typing == {o \in Ops : o[3] \in {"x", "r", "e"} \cup Sending}
Touching == {o \in Ops : o[3] \in {"w", "wa", "wb", "f", "resetwait"}}
Resets == {o \in Ops : o[3] = "resetwait"}
Calm == \E y \in Ops :
    /\ Typing = {y} /\ ~\E o \in Ops : o[3] = "reset"
    /\ \A o \in Touching : o[1] < y[1] \/ (o[1] = y[1] /\ o[2] < y[2])
    \* chusb asks whether BASIC takes keys; chcodenet only knows it of its own, only reset:
    \* a second one finds the READY. of the first, and when it fails the user may go on.
    /\ y[3] \in Sending \/ \A o, r \in Resets : o = r /\ o[1] = y[1]

TypedLine ==
    LET y == CHOOSE o \in Typing : TRUE IN
    IF y[3] = "e" THEN <<"S", "y">> \o Digits(jobs[y[1]].opts[y[2]].addr) ELSE <<"R", "U", "N">>

(***************************************************************************)
(* The line the C64 enters is the line that was typed, and when RUN starts *)
(* a program, the program in memory is the file, byte for byte; chcodenet  *)
(* has set all pointers to its end, which counts as 0 behind the last byte *)
(* of RAM (chcodenet.c:95-206, chusb.c:90): the keys are counted after     *)
(* they are written, and READY. is awaited on a screen that was cleared    *)
(* before.  In a session that types one line; the memory only when no      *)
(* program ran before, which could write to it, or a reset has ended it.   *)
(***************************************************************************)
RunsWhatWasSent == [][basic = "direct" /\ basic' \in {"run", "sys"} /\ Calm =>
    /\ entered' = TypedLine
    /\ sent # NoPrg /\ ~earlier =>
         /\ \A i \in DOMAIN Fits(sent.body, sent.load) : ram[sent.load + i - 1] = sent.body[i]
         /\ (\E o \in Typing : o[3] = "x") => \A p \in Pointers :
               ptrs[p] = TwoBytes(sent.load + Len(Fits(sent.body, sent.load)))]_vars

(***************************************************************************)
(* A program that was sent is also started: when chcodenet or chusb has    *)
(* ended well, the line it typed is entered at last, no key of it is lost  *)
(* to a C64 that is still busy or already takes keys.  In such a session;  *)
(* but a program that ran before need not end, and may take the keys.      *)
(***************************************************************************)
SentIsStarted ==
    tool = "ok" /\ Calm /\ sent # NoPrg /\ (\A o \in Typing : o[1] = turn)
        ~> Calm /\ (entered = TypedLine \/ earlier)

(***************************************************************************)
(* Every program ends, chcodenet always and chusb except where the code    *)
(* lets it wait: the server does not run, is left in the middle of a copy  *)
(* or a test, or chusb only waits for it to go away; the drive is not      *)
(* there, so that the server reads the keyboard, or the file is empty; the *)
(* directory of the image has no end; a glitch; the user browses; and      *)
(* behind the end of its arrays anything may happen.                       *)
(***************************************************************************)
Stuck ==
    \/ basic # "server" \/ upc \in {"noack", "gone", "overrun"}
    \/ upc = "sync" /\ cpc \in {"type", "probe"}
    \/ upc \in {"data", "ack"} /\ cpc \in {"space", "menu"}
    \/ upc = "ack" /\ filebuf = <<>>
    \/ Cmd.cmd \in {"copy", "dir"} /\ ~DirEnds(image)
    \/ glitched # {} \/ cpc \in {"browse", "keyboard"}

CommandEnds ==
    /\ tool = "codenet" ~> tool # "codenet"
    /\ tool = "chusb" ~> tool # "chusb" \/ Stuck
=============================================================================
