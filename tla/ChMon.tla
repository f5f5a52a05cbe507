------------------------------- MODULE ChMon -------------------------------
(***************************************************************************)
(* The monitor chmon (chmon.c) and its server on the C64 (chserv.s).  Both *)
(* talk in packets, a length byte and that many bytes, over the link of    *)
(* module ChBidir, which hands every byte over once and in order.  The PC  *)
(* sends commands; some are answered with one packet, some with several,   *)
(* most with none, and nothing in a packet says which: the two programs    *)
(* have to agree on it.  Memory the PC can reach by DMA it reads without   *)
(* asking the server.                                                      *)
(*                                                                         *)
(* A packet to the C64 is a record; a reply is the sequence of its bytes.  *)
(* A byte of a file is represented by its position in the file, so a byte  *)
(* that is lost, repeated or out of place shows.                           *)
(***************************************************************************)
EXTENDS Integers, Sequences

CONSTANTS
    Packet,       \* bytes of data in a packet, 128
    Page,         \* how often a loop turns that counts a byte down from 0, 256
    Top,          \* the last address; the first is 0
    RomArea,      \* where ROM lies over the RAM
    FileLengths,  \* the lengths of the files considered
    Listings,     \* the lengths of the directories considered
    Answers,      \* the lengths of a drive's answers, one line each
    Regions,      \* the pairs <<from, to>> the user works on
    MaxCommands   \* commands per session

Addr == 0 .. Top
Size == Top + 1

\* ROM comes in pages of 4K: what of it lies in a packet reaches one of the ends.
RomIsLong ==
    \A a \in Addr, n \in 1 .. Packet :
        a \notin RomArea /\ (a + n - 1) % Size \notin RomArea =>
            \A i \in 0 .. n - 1 : (a + i) % Size \notin RomArea

ASSUME MonAssumption ==
    /\ Packet \in Nat /\ Packet >= 1
    /\ Top \in Nat /\ Page \in Packet + 1 .. Size
    /\ RomArea \subseteq Addr
    /\ RomIsLong
    /\ FileLengths \subseteq Nat /\ Listings \subseteq Nat
    /\ Answers \subseteq 0 .. Packet - 1
    /\ Regions \subseteq Addr \X Addr
    /\ MaxCommands \in Nat

VARIABLES
    ppc, pcmd, at, left, file, eof,   \* the PC: where it is, its command and progress
    toC64, toPC,                      \* the packet under way, in each direction
    cpc, data, out, ptr,              \* the server: where it is, its buffer, its replies
    access, disk, wopen,              \* access mode, remote file, state of file 1
    ram, reu,                         \* memory
    used, clean, must,                \* history: commands so far; nothing went wrong that
                                      \* the code does not notice; what memory should hold;
    stream                            \* the bytes the last READ got from the drive

pc == <<ppc, pcmd, at, left, file, eof>>
wire == <<toC64, toPC>>
server == <<cpc, data, out, ptr>>
c64 == <<access, disk, wopen, ram, reu>>
history == <<used, clean, must, stream>>
vars == <<pc, wire, server, c64, history>>

-----------------------------------------------------------------------------
(***************************************************************************)
(* Bytes, packets and memory.                                              *)
(***************************************************************************)
Modes == {"RAM", "ROM", "REU"}
Tells == Modes \cup {"SETDEV", "JUMP", "RUN", "BASIC", "INIT"}
Asks == {"STATUS", "TELLDEV", "SYS", "DISKCOMMAND", "READ", "DIR"}
Loops == {"WRITE", "PUT", "GET"}
Ops == Tells \cup Asks \cup Loops \cup {"XWRITE", "XDONE", "POKE", "FILL"}

None == [op |-> "none"]
Lost == [op |-> "lost"]     \* announced, but the server will never see it
Pack(op, a, n, bytes) == [op |-> op, at |-> a, count |-> n, bytes |-> bytes]
Plain(op) == Pack(op, 0, 0, <<>>)

Zero == 0        \* ends a directory; status of a write that went well
Fail == 255
Poked == 101
Filled == 102
Rom == 103
Junk == 104      \* whatever the buffer holds behind the packet

File(n) == [i \in 1 .. n |-> i]
Smaller(m, n) == IF m < n THEN m ELSE n

\* What putbyte makes of a stream: full packets, and a last one unless it is empty.
Blocks(s) ==
    [k \in 1 .. (Len(s) + Packet - 1) \div Packet |->
        SubSeq(s, (k - 1) * Packet + 1, Smaller(k * Packet, Len(s)))]

\* A loop that ends when its index has reached the count runs Page times for 0.
Counted(p) == IF p.count = 0 THEN [i \in 1 .. Page |-> Junk] ELSE p.bytes

Distance(a, b) == (b - a + Size) % Size

Store(m, a, bytes) ==
    [x \in Addr |-> IF Distance(a, x) < Len(bytes) THEN bytes[Distance(a, x) + 1] ELSE m[x]]

Fill(m, a, b) ==
    [x \in Addr |-> IF a = b \/ Distance(a, x) < Distance(a, b) THEN Filled ELSE m[x]]

Cell(mode, m, r, x) ==
    IF mode = "REU" THEN r[x] ELSE IF mode = "ROM" /\ x \in RomArea THEN Rom ELSE m[x]

View(mode, m, r, a, n) == [i \in 1 .. n |-> Cell(mode, m, r, (a + i - 1) % Size)]

\* A slip: only the first page of a block is looked up.
SlowFirstOnly(a, n) == a \in RomArea

\* DMA reads the RAM, so read_memory_block asks the server where ROM may be meant.
Slow(a, n) == a \in RomArea \/ (a + n - 1) % Size \in RomArea

Init ==
    /\ ppc = "prompt" /\ pcmd = "none" /\ at = 0 /\ left = 0
    /\ file = <<>> /\ eof = FALSE
    /\ toC64 = None /\ toPC = <<>>
    /\ cpc = "main" /\ data = None /\ out = <<>> /\ ptr = 0
    /\ access = "ROM"
    /\ disk \in {File(n) : n \in FileLengths \ {0}} /\ wopen = "closed"
    /\ ram = [x \in Addr |-> 0] /\ reu = [x \in Addr |-> 0]
    /\ used = 0 /\ clean = TRUE
    /\ must = [mode |-> access, ram |-> ram, reu |-> reu]
    /\ stream = <<>>

-----------------------------------------------------------------------------
(***************************************************************************)
(* The PC: the user enters a command.                                      *)
(***************************************************************************)
\* A call of send returns, and the prompt is there, when the server has the packet.
Served == ppc = "prompt" /\ toC64 = None
Prompted == Served /\ used < MaxCommands
Send(p) == toC64 = None /\ toC64' = p /\ toPC' = toPC
Enter(op) == Prompted /\ pcmd' = op /\ used' = used + 1

\* SETRAM, SETDEV, JUMP, RUN, BASIC, INIT: nothing comes back.
PCTell(op) ==
    /\ Enter(op) /\ Send(Plain(op))
    /\ must' = [must EXCEPT !.mode =
                   IF op \in Modes THEN op ELSE IF op = "INIT" THEN "ROM" ELSE @]
    /\ UNCHANGED <<ppc, at, left, file, eof, server, c64, clean, stream>>

PCPoke(a, b) ==
    /\ a < b
    /\ Enter("POKE")
    /\ LET bytes == [i \in 1 .. b - a |-> Poked] IN
       /\ Send(Pack("POKE", a, b - a, bytes))
       /\ must' = [must EXCEPT !.ram = Store(@, a, bytes)]
    /\ UNCHANGED <<ppc, at, left, file, eof, server, c64, clean, stream>>

PCFill(a, b) ==
    /\ Enter("FILL") /\ Send(Pack("FILL", a, b, <<>>))
    /\ must' = [must EXCEPT !.ram = Fill(@, a, b)]
    /\ UNCHANGED <<ppc, at, left, file, eof, server, c64, clean, stream>>

\* STATUS, TELLDEV, SYS, DISKCOMMAND, READ, DIR: the PC waits for an answer.
PCAsk(op) ==
    /\ Enter(op) /\ Send(Plain(op))
    /\ ppc' = "recv" /\ file' = <<>>
    /\ UNCHANGED <<at, left, eof, server, c64, clean, must, stream>>

PCWrite(n) ==
    /\ Enter("WRITE") /\ Send(Plain("WRITE"))
    /\ ppc' = "recv" /\ file' = File(n) /\ left' = n /\ eof' = FALSE
    /\ UNCHANGED <<at, server, c64, clean, must, stream>>

PCPut(n, a) ==
    /\ Enter("PUT")
    /\ ppc' = "more" /\ file' = File(n) /\ left' = n /\ at' = a /\ eof' = FALSE
    /\ UNCHANGED <<wire, server, c64, clean, must, stream>>

\* get, m, i, d, h and c.
PCGet(a, b) ==
    /\ a < b
    /\ Enter("GET")
    /\ ppc' = "more" /\ file' = <<>> /\ left' = b - a /\ at' = a
    /\ UNCHANGED <<eof, wire, server, c64, clean, must, stream>>

-----------------------------------------------------------------------------
(***************************************************************************)
(* The PC goes on with a command.                                          *)
(***************************************************************************)
Chunk == SubSeq(file, Len(file) - left + 1, Len(file) - left + Smaller(left, Packet))

\* fread reads up to a packet; feof is only true after it has come up short.
PCSendChunk ==
    /\ ppc = "more" /\ pcmd \in {"WRITE", "PUT"} /\ ~eof
    /\ Send(Pack(IF pcmd = "PUT" THEN "PUT" ELSE "XWRITE", at, Len(Chunk), Chunk))
    /\ eof' = (left < Packet)
    /\ left' = left - Len(Chunk)
    /\ at' = IF pcmd = "PUT" THEN (at + Len(Chunk)) % Size ELSE at
    /\ ppc' = "recv"
    /\ clean' = (clean /\ left > 0)
    /\ must' = CASE pcmd = "PUT" /\ must.mode = "REU" ->
                      [must EXCEPT !.reu = Store(@, at, Chunk)]
                 [] pcmd = "PUT" /\ must.mode # "REU" ->
                      [must EXCEPT !.ram = Store(@, at, Chunk)]
                 [] OTHER -> must
    /\ UNCHANGED <<pcmd, file, server, c64, used, stream>>

PCEndWrite ==
    /\ ppc = "more" /\ pcmd = "WRITE" /\ eof
    /\ Send(Plain("XDONE"))
    /\ ppc' = "prompt"
    /\ UNCHANGED <<pcmd, at, left, file, eof, server, c64, history>>

PCEndLoop ==
    /\ ppc = "more"
    /\ (pcmd = "PUT" /\ eof) \/ (pcmd = "GET" /\ left = 0)
    /\ ppc' = "prompt"
    /\ UNCHANGED <<pcmd, at, left, file, eof, wire, server, c64, history>>

Step == Smaller(left, Packet)

PCGetByDma ==
    /\ ppc = "more" /\ pcmd = "GET" /\ left > 0 /\ ~Slow(at, Step)
    /\ file' = file \o View("RAM", ram, reu, at, Step)
    /\ at' = (at + Step) % Size /\ left' = left - Step
    /\ UNCHANGED <<ppc, pcmd, eof, wire, server, c64, history>>

PCGetRequest ==
    /\ ppc = "more" /\ pcmd = "GET" /\ left > 0 /\ Slow(at, Step)
    /\ Send(Pack("GET", at, Step, <<>>))
    /\ ppc' = "recv"
    /\ UNCHANGED <<pcmd, at, left, file, eof, server, c64, history>>

Receive == ppc = "recv" /\ toPC # <<>> /\ toPC' = <<>> /\ toC64' = toC64

PCRecvGet ==
    /\ Receive /\ pcmd = "GET"
    /\ file' = file \o toPC
    /\ at' = (at + Step) % Size /\ left' = left - Step
    /\ ppc' = "more"
    /\ UNCHANGED <<pcmd, eof, server, c64, history>>

\* A slip: read_file takes what comes in one packet for the file.
PCRecvReadOnce ==
    /\ Receive /\ pcmd = "READ"
    /\ file' = file \o toPC
    /\ ppc' = "prompt"
    /\ UNCHANGED <<pcmd, at, left, eof, server, c64, history>>

\* read_file takes a full packet for a sign that more will come.
PCRecvRead ==
    /\ Receive /\ pcmd = "READ"
    /\ file' = file \o toPC
    /\ ppc' = IF Len(toPC) = Packet THEN "recv" ELSE "prompt"
    /\ UNCHANGED <<pcmd, at, left, eof, server, c64, history>>

\* directory stops at the zero that ends the listing.
PCRecvDir ==
    /\ Receive /\ pcmd = "DIR"
    /\ ppc' = IF \E i \in DOMAIN toPC : toPC[i] = Zero THEN "prompt" ELSE "recv"
    /\ UNCHANGED <<pcmd, at, left, file, eof, server, c64, history>>

\* put and write_file take any answer to a packet of data; a failed open ends a write.
PCRecvAck ==
    /\ Receive /\ pcmd \in {"WRITE", "PUT"}
    /\ IF pcmd = "WRITE" /\ left = Len(file) /\ ~eof /\ toPC[1] = Fail
       THEN ppc' = "prompt" /\ pcmd' = "none"
       ELSE ppc' = "more" /\ pcmd' = pcmd
    /\ UNCHANGED <<at, left, file, eof, server, c64, history>>

PCRecvAnswer ==
    /\ Receive /\ pcmd \in {"STATUS", "TELLDEV", "SYS", "DISKCOMMAND"}
    /\ ppc' = "prompt"
    /\ UNCHANGED <<pcmd, at, left, file, eof, server, c64, history>>

-----------------------------------------------------------------------------
(***************************************************************************)
(* The server.                                                             *)
(***************************************************************************)

\* The main loop gets a packet and jumps through cmdtab.
C64Take ==
    /\ cpc = "main" /\ toC64 \notin {None, Lost}
    /\ data' = toC64 /\ toC64' = None
    /\ cpc' = "exec"
    /\ UNCHANGED <<pc, toPC, out, ptr, c64, history>>

Handles(op) == cpc = "exec" /\ data.op = op
Reply(blocks) == out' = blocks /\ cpc' = "send"
ToMain == cpc' = "main" /\ out' = out

C64SetRam ==
    /\ \/ data.op \in Modes /\ Handles(data.op) /\ access' = data.op
       \/ Handles("SETDEV") /\ access' = access
    /\ ToMain
    /\ UNCHANGED <<pc, wire, data, ptr, disk, wopen, ram, reu, history>>

\* The server starts again, and init_usb clears the mailboxes: if the PC has announced
\* its next packet already, both wait for the other from now on.
C64Init ==
    /\ Handles("INIT")
    /\ access' = "ROM"
    /\ toC64' = IF toC64 = None THEN None ELSE Lost
    /\ ToMain
    /\ UNCHANGED <<pc, toPC, data, ptr, disk, wopen, ram, reu, history>>

\* The stop key ends the main loop.
C64Stop ==
    /\ cpc = "main"
    /\ cpc' = "gone"
    /\ UNCHANGED <<pc, wire, data, out, ptr, c64, history>>

\* The C64 runs something else and the server is gone (a called routine may not return).
C64Leave ==
    /\ Handles("JUMP") \/ Handles("RUN") \/ Handles("BASIC") \/ Handles("SYS")
    /\ cpc' = "gone"
    /\ UNCHANGED <<pc, wire, data, out, ptr, c64, history>>

C64Poke ==
    /\ Handles("POKE")
    /\ ram' = Store(ram, data.at, data.bytes)
    /\ ToMain
    /\ UNCHANGED <<pc, wire, data, ptr, access, disk, wopen, reu, history>>

C64FillBegin ==
    /\ Handles("FILL") /\ data.at # data.count
    /\ ptr' = data.at
    /\ cpc' = "fill"
    /\ UNCHANGED <<pc, wire, data, out, c64, history>>

\* An empty region is filled all the way round, over the server itself.
C64FillAll ==
    /\ Handles("FILL") /\ data.at = data.count
    /\ ram' = [x \in Addr |-> Filled]
    /\ cpc' = "gone"
    /\ UNCHANGED <<pc, wire, data, out, ptr, access, disk, wopen, reu, history>>

\* A slip: the end is compared before the pointer moves on.
C64FillStepPast ==
    /\ cpc = "fill"
    /\ ram' = [ram EXCEPT ![ptr] = Filled]
    /\ ptr' = (ptr + 1) % Size
    /\ cpc' = IF ptr = data.count THEN "main" ELSE "fill"
    /\ UNCHANGED <<pc, wire, data, out, access, disk, wopen, reu, history>>

C64FillStep ==
    /\ cpc = "fill"
    /\ ram' = [ram EXCEPT ![ptr] = Filled]
    /\ ptr' = (ptr + 1) % Size
    /\ cpc' = IF ptr' = data.count THEN "main" ELSE "fill"
    /\ UNCHANGED <<pc, wire, data, out, access, disk, wopen, reu, history>>

\* A slip: put does not answer.
C64PutSilent ==
    /\ Handles("PUT")
    /\ ram' = Store(ram, data.at, Counted(data))
    /\ ToMain
    /\ UNCHANGED <<pc, wire, data, ptr, access, disk, wopen, reu, history>>

\* To the REU the transfer counts 16 bits down: 0 is all of it.
C64Put ==
    /\ Handles("PUT")
    /\ IF access = "REU"
       THEN /\ reu' = IF data.count = 0 THEN [x \in Addr |-> Junk]
                      ELSE Store(reu, data.at, data.bytes)
            /\ ram' = ram
       ELSE /\ ram' = Store(ram, data.at, Counted(data))
            /\ reu' = reu
    /\ Reply(<< <<Zero, Junk>> >>)
    /\ UNCHANGED <<pc, wire, data, ptr, access, disk, wopen, history>>

C64Get ==
    /\ Handles("GET")
    /\ Reply(<< View(access, ram, reu, data.at, data.count) >>)
    /\ UNCHANGED <<pc, wire, data, ptr, c64, history>>

\* telldev, status, and call when the routine comes back.
C64Answer ==
    /\ Handles("TELLDEV") \/ Handles("STATUS") \/ Handles("SYS")
    /\ Reply(<< <<Junk, Junk>> >>)
    /\ UNCHANGED <<pc, wire, data, ptr, c64, history>>

C64DiskCommand ==
    /\ Handles("DISKCOMMAND")
    /\ \E n \in Answers : Reply(Blocks(Append(File(n), Zero)))
    /\ UNCHANGED <<pc, wire, data, ptr, c64, history>>

C64Dir ==
    /\ Handles("DIR")
    /\ \E n \in Listings : Reply(Blocks(Append(File(n), Zero)))
    /\ UNCHANGED <<pc, wire, data, ptr, c64, history>>

\* What a drive sends that stops early, at a read error or because there is no such
\* file: the byte on which it times out is taken for one of the file.
Cuts == {SubSeq(disk, 1, n) \o <<Junk>> : n \in 0 .. Len(disk) - 1}

\* The drive sends the file, or stops early, or is not there at all. The server asks it
\* for no reason and tells the PC of none.
C64Read ==
    /\ Handles("READ")
    /\ stream' \in Cuts \cup {disk, <<>>}
    /\ Reply(Blocks(stream'))
    /\ UNCHANGED <<pc, wire, data, ptr, c64, used, clean, must>>

\* The drive opens the file, or is not there; or it refuses the file and tells nobody,
\* because only the error channel, which the server does not read, would say so.
C64Write ==
    /\ Handles("WRITE")
    /\ \/ disk' = <<>> /\ wopen' = "open" /\ clean' = clean /\ Reply(<< <<Zero, Junk>> >>)
       \/ disk' = disk /\ wopen' = "refused" /\ clean' = FALSE /\ Reply(<< <<Zero, Junk>> >>)
       \/ disk' = disk /\ wopen' = "closed" /\ clean' = clean /\ Reply(<< <<Fail, Junk>> >>)
    /\ UNCHANGED <<pc, wire, data, ptr, access, ram, reu, used, must, stream>>

\* A slip: the loop begins at the second byte.
C64XWriteSecond ==
    /\ Handles("XWRITE") /\ wopen # "closed"
    /\ disk' = IF wopen = "open" THEN disk \o Tail(Counted(data)) ELSE disk
    /\ Reply(<< <<Zero, Junk>> >>)
    /\ UNCHANGED <<pc, wire, data, ptr, access, wopen, ram, reu, history>>

C64XWrite ==
    /\ Handles("XWRITE") /\ wopen # "closed"
    /\ disk' = IF wopen = "open" THEN disk \o Counted(data) ELSE disk
    /\ Reply(<< <<Zero, Junk>> >>)
    /\ UNCHANGED <<pc, wire, data, ptr, access, wopen, ram, reu, history>>

\* The drive does not listen any more; sendfail closes the file (which the drive
\* gives one byte if it has none).
C64XWriteFails ==
    /\ Handles("XWRITE")
    /\ wopen' = "closed" /\ clean' = FALSE
    /\ disk' = IF disk = <<>> THEN <<Junk>> ELSE disk
    /\ Reply(<< <<Fail, Junk>> >>)
    /\ UNCHANGED <<pc, wire, data, ptr, access, ram, reu, used, must, stream>>

\* A slip: xdone answers, as its comment says.
C64XDoneReplies ==
    /\ Handles("XDONE")
    /\ wopen' = "closed"
    /\ Reply(<< <<Zero, Junk>> >>)
    /\ UNCHANGED <<pc, wire, data, ptr, access, disk, ram, reu, history>>

C64XDone ==
    /\ Handles("XDONE")
    /\ wopen' = "closed"
    /\ ToMain
    /\ UNCHANGED <<pc, wire, data, ptr, access, disk, ram, reu, history>>

\* senddata hands one packet over; send_byte waits until the PC has it.
C64Send ==
    /\ cpc = "send" /\ out # <<>> /\ toPC = <<>>
    /\ toPC' = Head(out) /\ out' = Tail(out)
    /\ UNCHANGED <<pc, toC64, cpc, data, ptr, c64, history>>

C64Sent ==
    /\ cpc = "send" /\ out = <<>> /\ toPC = <<>>
    /\ cpc' = "main"
    /\ UNCHANGED <<pc, wire, data, out, ptr, c64, history>>

-----------------------------------------------------------------------------
User ==
    \/ \E op \in Tells : PCTell(op)
    \/ \E op \in Asks : PCAsk(op)
    \/ \E r \in Regions : PCPoke(r[1], r[2]) \/ PCFill(r[1], r[2]) \/ PCGet(r[1], r[2])
    \/ \E n \in FileLengths : PCWrite(n) \/ \E r \in Regions : PCPut(n, r[1])

PCStep ==
    \/ PCSendChunk \/ PCEndWrite \/ PCEndLoop \/ PCGetByDma \/ PCGetRequest
    \/ PCRecvGet \/ PCRecvRead \/ PCRecvDir \/ PCRecvAck \/ PCRecvAnswer

C64Step ==
    \/ C64Take \/ C64SetRam \/ C64Init \/ C64Leave \/ C64Poke \/ C64FillBegin \/ C64FillAll \/ C64FillStep
    \/ C64Put \/ C64Get \/ C64Answer \/ C64DiskCommand \/ C64Dir \/ C64Read
    \/ C64Write \/ C64XWrite \/ C64XWriteFails \/ C64XDone
    \/ C64Send \/ C64Sent

Next == User \/ PCStep \/ C64Step \/ C64Stop

Spec == Init /\ [][Next]_vars

\* Both programs run; the user need not do anything, on the PC or on the C64.
FairSpec == Spec /\ WF_vars(PCStep) /\ WF_vars(C64Step)
-----------------------------------------------------------------------------
CmdOps == Tells \cup Asks \cup Loops \cup {"POKE", "FILL", "none"}

TypeOK ==
    /\ ppc \in {"prompt", "more", "recv"}
    /\ pcmd \in CmdOps
    /\ at \in Addr /\ left \in Nat /\ eof \in BOOLEAN
    /\ file \in Seq(Nat)
    /\ toC64 \in {None, Lost} \/ toC64.op \in Ops
    /\ toPC \in Seq(Nat)
    /\ cpc \in {"main", "exec", "fill", "send", "gone"}
    /\ data = None \/ data.op \in Ops
    /\ out \in Seq(Seq(Nat)) /\ ptr \in Addr
    /\ access \in Modes /\ wopen \in {"open", "refused", "closed"}
    /\ disk \in Seq(Nat)
    /\ ram \in [Addr -> Nat] /\ reu \in [Addr -> Nat]
    /\ used \in Nat /\ clean \in BOOLEAN
    /\ must \in [mode : Modes, ram : [Addr -> Nat], reu : [Addr -> Nat]]
    /\ stream \in Seq(Nat)

\* The command packet the PC's command sends and waits for.
Sent(op) ==
    CASE pcmd = "WRITE" -> op \in {"WRITE", "XWRITE"}
      [] OTHER -> op = pcmd

(***************************************************************************)
(* The two programs agree on whose turn it is, although no packet says so. *)
(* The server only sends, or is about to, what the PC is waiting for; the  *)
(* PC only waits while the server has its command still before it, or is   *)
(* at it, or has gone.  There are two ways out of step, and no third: a    *)
(* READ whose stream ends with a full packet, or with none because the     *)
(* drive is not there, and a command right behind an INIT.                 *)
(***************************************************************************)
Working(op) == toC64.op = op \/ (cpc \in {"exec", "send"} /\ data.op = op)

EndlessRead ==
    /\ pcmd = "READ" /\ toC64 = None /\ cpc \in {"send", "main"}
    /\ Len(stream) % Packet = 0

InStep ==
    /\ cpc = "send" /\ (out # <<>> \/ toPC # <<>>) =>
          ppc = "recv" /\ Sent(data.op)
    /\ toPC # <<>> => cpc = "send" /\ ppc = "recv"
    /\ ppc = "recv" =>
          \/ \E op \in Ops : Sent(op) /\ Working(op)
          \/ cpc = "gone"
          \/ EndlessRead
          \/ toC64 = Lost

MonInv == TypeOK /\ InStep

(***************************************************************************)
(* READ: when the prompt is back, the local file is all the drive sent, in *)
(* order and once: the remote file, or, when the drive stopped early, what *)
(* came before and one byte of junk (nothing tells the user the one from   *)
(* the other).                                                             *)
(***************************************************************************)
ReadDelivers ==
    pcmd = "READ" /\ ppc = "prompt" => file = stream /\ stream \in Cuts \cup {disk}

(***************************************************************************)
(* WRITE: when the prompt is back, and nothing went wrong that the code    *)
(* does not notice (a last packet of length 0, which stores a page of      *)
(* garbage, or a drive that failed in the middle), the remote file is the  *)
(* local file.                                                             *)
(***************************************************************************)
WriteStores == pcmd = "WRITE" /\ ppc = "prompt" /\ clean => disk = file

(***************************************************************************)
(* The commands take effect in the order they were entered and completely: *)
(* whenever the server has nothing to do, RAM, REU and access mode are     *)
(* what the commands entered so far make of them, although only some of    *)
(* them are answered.                                                      *)
(***************************************************************************)
AtRest == cpc = "main" /\ toC64 = None

InOrder ==
    AtRest /\ clean => ram = must.ram /\ reu = must.reu /\ access = must.mode

(***************************************************************************)
(* A block of memory that comes from the server reflects every command     *)
(* entered before, and so does one read by DMA while the server is at rest *)
(* (REU mode apart, where DMA sees the RAM).  With the server still busy   *)
(* on a poke or a fill, DMA may see the memory before or between.          *)
(***************************************************************************)
GetIsCurrent ==
    [][ /\ pcmd = "GET" /\ file' # file /\ clean
        /\ ppc = "recv" \/ (ppc = "more" /\ AtRest /\ must.mode # "REU")
        => file' = file \o View(must.mode, must.ram, must.reu, at, Step) ]_vars

(***************************************************************************)
(* Every command comes back to the prompt, unless the C64 has left the     *)
(* server, a READ finds a stream that fills its last packet, or none, or   *)
(* an INIT before it was still under way.                                  *)
(***************************************************************************)
PromptComesBack ==
    ~Served ~> Served \/ cpc = "gone" \/ EndlessRead \/ toC64 = Lost

(***************************************************************************)
(* The help: "write: write contents of localfile to remotefile on c64's    *)
(* current device".  When the prompt is back after all packets were        *)
(* accepted, the file being open and about to be closed, the remote file   *)
(* is the local file.                                                      *)
(***************************************************************************)
WriteIsExact == pcmd = "WRITE" /\ ppc = "prompt" /\ wopen = "open" => disk = file
=============================================================================
