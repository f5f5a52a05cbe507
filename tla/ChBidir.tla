------------------------------- MODULE ChBidir -------------------------------
(***************************************************************************)
(* The mailbox link between a program on the PC and a server on the C64    *)
(* (chbidir.c and chbidir.s / chbidir.tas).  The two mailboxes are cells   *)
(* of C64 memory.  The C64 reads and writes them with single 6502 loads    *)
(* and stores; the PC reads and writes them with USB requests, one request *)
(* per call of chameleon_readmemory / chameleon_writememory, and a block   *)
(* of data travels in several frames.  Nothing else synchronises the two.  *)
(*                                                                         *)
(*   PC name           C64 name             here                           *)
(*   C64BUF_WDATA      USBReadData          wdata                          *)
(*   C64BUF_WSEQ       USBReadSequence      wseq                           *)
(*   C64BUF_WBYTES     USBReadBytesLeft     wbytes                         *)
(*   C64BUF_WSTART     USBReadStart         wstart  (TRUE: holds $ff)      *)
(*   C64BUF_RDATA      USBWriteData         rdata                          *)
(*   C64BUF_RSTART     USBWriteStart        rstart  (TRUE: holds $ff)      *)
(*                                                                         *)
(* RSEQ and RBYTES are cleared by init_usb and never looked at: left out.  *)
(***************************************************************************)
EXTENDS Naturals, Sequences

CONSTANTS
    Data,       \* the values of one cell of data
    Zero,       \* what init_usb stores
    BlockLen,   \* cells of data per call: 1 is usb_write_byte, more is usb_write_block
    CellSize,   \* a one-byte cell counts modulo this (256 in the code)
    None,       \* no block yet
    Plans       \* the sessions considered

\* usb_write_block and usb_read_block exit when len > 256.
ASSUME LinkAssumption ==
    /\ BlockLen \in Nat /\ 1 <= BlockLen /\ BlockLen <= CellSize
    /\ CellSize \in Nat /\ 2 <= CellSize
    /\ Zero \in Data

Cells == 1 .. BlockLen
Block == [Cells -> Data]

ASSUME NoneAssumption == None \notin Block

VARIABLES
    plan, offered, taken,                  \* the session and its history, see Transfers
    wdata, wseq, wbytes, wstart,           \* the mailbox of the PC's writes
    rdata, rstart,                         \* the mailbox of the C64's replies
    ppc, pk, pi, pbuf, pseq,               \* the PC: wbuf/rbuf and where it stands
    cpc, ck, ci, cbuf, cx                  \* the C64: its buffer, X, where it stands

session == <<plan, offered, taken>>
wbox == <<wdata, wseq, wbytes, wstart>>
rbox == <<rdata, rstart>>
pc == <<ppc, pk, pi, pbuf, pseq>>
c64 == <<cpc, ck, ci, cbuf, cx>>
vars == <<session, wbox, rbox, pc, c64>>

Link == INSTANCE Transfers

ASSUME PlansAssumption == \A p \in Plans :
    /\ p \in Seq(Link!Kinds)
    /\ Len(p) > 0
    /\ p[1] \in {"init", "race"}

ToC64(k) == k \in DOMAIN plan /\ plan[k] \in {"command", "block"}
ToPC(k) == k \in DOMAIN plan /\ plan[k] = "reply"

(***************************************************************************)
(* The C64 server starts here.  At an "init" the PC waits until it is up   *)
(* (the user starts the server before the PC program, or takes time before *)
(* the next command); at a "race" it does not: chmon -s -c, or a command   *)
(* right behind INIT.                                                      *)
(***************************************************************************)
Starting(k) == k \in DOMAIN plan /\ plan[k] \in {"init", "race"}

\* A byte counts up and wraps.
Succ(s) == IF s = CellSize - 1 THEN 0 ELSE s + 1

\* wbuf[WBYTES] = len, an assignment to an unsigned char: 256 becomes 0.
LengthByte == IF BlockLen = CellSize THEN 0 ELSE BlockLen

(***************************************************************************)
(* A session begins with the start of the server, over memory that holds   *)
(* anything; a START cell that happens to hold $ff is only survivable when *)
(* the PC waits for the server to be up (chmon's mailbox is screen memory  *)
(* the server has just cleared).                                           *)
(***************************************************************************)
Init ==
    /\ plan \in Plans
    /\ offered = [k \in DOMAIN plan |-> None]
    /\ taken = [k \in DOMAIN plan |-> None]
    /\ wdata \in Block /\ rdata = wdata
    /\ wseq \in {0, CellSize - 1}
    /\ wbytes \in {0, 1}
    /\ wstart \in BOOLEAN /\ rstart = wstart
    /\ wstart => plan[1] = "init"
    /\ ppc = "idle" /\ pk = 1 /\ pi = 1 /\ pbuf = wdata /\ pseq = 0
    /\ cpc = "idle" /\ ck = 1 /\ ci = 1 /\ cbuf = wdata /\ cx = 0

-----------------------------------------------------------------------------
(***************************************************************************)
(* The PC writes: usb_write_byte, usb_write_bytes, usb_write_block.        *)
(***************************************************************************)

\* WBYTES := len tells the C64 that we want to write.
PCAnnounce(b) ==
    /\ ppc = "idle" /\ ToC64(pk)
    /\ offered' = [offered EXCEPT ![pk] = b]
    /\ pbuf' = b
    /\ wbytes' = LengthByte
    /\ ppc' = "ask"
    /\ UNCHANGED <<plan, taken, wdata, wseq, wstart, rbox, pk, pi, pseq, c64>>

\* A slip: START is not waited for.
PCSeeReadyUnasked ==
    /\ ppc = "ask"
    /\ pseq' = Succ(wseq)
    /\ ppc' = "clear"
    /\ UNCHANGED <<session, wbox, rbox, pk, pi, pbuf, c64>>

\* A slip: the sequence number is not counted up.
PCSeeReadySameSeq ==
    /\ ppc = "ask" /\ wstart
    /\ pseq' = wseq
    /\ ppc' = "clear"
    /\ UNCHANGED <<session, wbox, rbox, pk, pi, pbuf, c64>>

\* The poll that finds START = $ff; the same request reads SEQ.
PCSeeReady ==
    /\ ppc = "ask" /\ wstart
    /\ pseq' = Succ(wseq)
    /\ ppc' = "clear"
    /\ UNCHANGED <<session, wbox, rbox, pk, pi, pbuf, c64>>

PCClearStart ==
    /\ ppc = "clear"
    /\ wstart' = FALSE
    /\ ppc' = "data"
    /\ UNCHANGED <<session, wdata, wseq, wbytes, rbox, pk, pi, pbuf, pseq, c64>>

\* A slip: SEQ is stored before the data is complete.
PCStoreDataSeqFirst ==
    /\ ppc = "data"
    /\ wdata' = [wdata EXCEPT ![pi] = pbuf[pi]]
    /\ wseq' = pseq
    /\ IF pi < BlockLen
       THEN pi' = pi + 1 /\ ppc' = ppc
       ELSE pi' = 1 /\ ppc' = "seq"
    /\ UNCHANGED <<session, wbytes, wstart, rbox, pk, pbuf, pseq, c64>>

\* One piece of the block arrives in the C64's memory.
PCStoreData ==
    /\ ppc = "data"
    /\ wdata' = [wdata EXCEPT ![pi] = pbuf[pi]]
    /\ IF pi < BlockLen
       THEN pi' = pi + 1 /\ ppc' = ppc
       ELSE pi' = 1 /\ ppc' = "seq"
    /\ UNCHANGED <<session, wseq, wbytes, wstart, rbox, pk, pbuf, pseq, c64>>

PCStoreSeq ==
    /\ ppc = "seq"
    /\ wseq' = pseq
    /\ ppc' = "bytes"
    /\ UNCHANGED <<session, wdata, wbytes, wstart, rbox, pk, pi, pbuf, pseq, c64>>

\* WBYTES := 0 ends the call.
PCClearBytes ==
    /\ ppc = "bytes"
    /\ wbytes' = 0
    /\ ppc' = "idle" /\ pk' = pk + 1
    /\ UNCHANGED <<session, wdata, wseq, wstart, rbox, pi, pbuf, pseq, c64>>

(***************************************************************************)
(* The PC reads: usb_read_byte, usb_read_bytes, usb_read_block.            *)
(***************************************************************************)

\* The poll that finds START = $ff.
PCSeeReply ==
    /\ ppc = "idle" /\ ToPC(pk) /\ rstart
    /\ ppc' = "fetch"
    /\ UNCHANGED <<session, wbox, rbox, pk, pi, pbuf, pseq, c64>>

PCFetch ==
    /\ ppc = "fetch"
    /\ pbuf' = [pbuf EXCEPT ![pi] = rdata[pi]]
    /\ IF pi < BlockLen
       THEN pi' = pi + 1 /\ ppc' = ppc
       ELSE pi' = 1 /\ ppc' = "ack"
    /\ UNCHANGED <<session, wbox, rbox, pk, pseq, c64>>

\* START := 0 lets the C64 go on, and the call returns the block.
PCAcknowledge ==
    /\ ppc = "ack"
    /\ rstart' = FALSE
    /\ taken' = [taken EXCEPT ![pk] = pbuf]
    /\ ppc' = "idle" /\ pk' = pk + 1
    /\ UNCHANGED <<plan, offered, wbox, rdata, pi, pbuf, pseq, c64>>

\* Nothing tells the PC that the server is up: it goes on when its user does.
PCPassInit ==
    /\ ppc = "idle" /\ Starting(pk)
    /\ plan[pk] = "init" => ck > pk
    /\ pk' = pk + 1
    /\ UNCHANGED <<session, wbox, rbox, ppc, pi, pbuf, pseq, c64>>

-----------------------------------------------------------------------------
(***************************************************************************)
(* The C64 starts: init_usb clears the mailboxes cell by cell.             *)
(***************************************************************************)
InitStores == 6

C64InitUsb ==
    /\ cpc = "idle" /\ Starting(ck)
    /\ wstart' = (wstart /\ ci # 1)
    /\ wdata' = IF ci = 2 THEN [wdata EXCEPT ![1] = Zero] ELSE wdata
    /\ wseq' = IF ci = 3 THEN 0 ELSE wseq
    /\ wbytes' = IF ci = 4 THEN 0 ELSE wbytes
    /\ rstart' = (rstart /\ ci # 5)
    /\ rdata' = IF ci = 6 THEN [rdata EXCEPT ![1] = Zero] ELSE rdata
    /\ IF ci < InitStores
       THEN ci' = ci + 1 /\ ck' = ck
       ELSE ci' = 1 /\ ck' = ck + 1
    /\ UNCHANGED <<session, pc, cpc, cbuf, cx>>

(***************************************************************************)
(* The C64 reads: check_data_available in the server's main loop, then     *)
(* get_byte; in the middle of a command get_byte or get_block at once.     *)
(***************************************************************************)

\* The poll that finds BYTES # 0.
C64DataAvailable ==
    /\ cpc = "idle" /\ ToC64(ck) /\ plan[ck] = "command"
    /\ wbytes # 0
    /\ cpc' = "get"
    /\ UNCHANGED <<session, wbox, rbox, pc, ck, ci, cbuf, cx>>

\* X := SEQ
C64LoadSeq ==
    /\ \/ cpc = "get"
       \/ cpc = "idle" /\ ToC64(ck) /\ plan[ck] = "block"
    /\ cx' = wseq
    /\ cpc' = "ready"
    /\ UNCHANGED <<session, wbox, rbox, pc, ck, ci, cbuf>>

\* START := $ff asks the PC to send.
C64RaiseStart ==
    /\ cpc = "ready"
    /\ wstart' = TRUE
    /\ cpc' = "spin"
    /\ UNCHANGED <<session, wdata, wseq, wbytes, rbox, pc, ck, ci, cbuf, cx>>

\* The turn of the waiting loop that finds SEQ changed.
C64SeeSeq ==
    /\ cpc = "spin" /\ wseq # cx
    /\ cpc' = "copy"
    /\ UNCHANGED <<session, wbox, rbox, pc, ck, ci, cbuf, cx>>

\* The caller of get_block works through the block where it lies.
C64Copy ==
    /\ cpc = "copy"
    /\ cbuf' = [cbuf EXCEPT ![ci] = wdata[ci]]
    /\ IF ci < BlockLen
       THEN /\ ci' = ci + 1
            /\ UNCHANGED <<taken, cpc, ck>>
       ELSE /\ ci' = 1
            /\ taken' = [taken EXCEPT ![ck] = cbuf']
            /\ cpc' = "idle" /\ ck' = ck + 1
    /\ UNCHANGED <<plan, offered, wbox, rbox, pc, cx>>

(***************************************************************************)
(* The C64 writes: the caller fills the block, then send_byte/send_block.  *)
(***************************************************************************)
C64Begin(b) ==
    /\ cpc = "idle" /\ ToPC(ck)
    /\ offered' = [offered EXCEPT ![ck] = b]
    /\ cbuf' = b
    /\ cpc' = "fill"
    /\ UNCHANGED <<plan, taken, wbox, rbox, pc, ck, ci, cx>>

C64Fill ==
    /\ cpc = "fill"
    /\ rdata' = [rdata EXCEPT ![ci] = cbuf[ci]]
    /\ IF ci < BlockLen
       THEN ci' = ci + 1 /\ cpc' = cpc
       ELSE ci' = 1 /\ cpc' = "raise"
    /\ UNCHANGED <<session, wbox, rstart, pc, ck, cbuf, cx>>

C64RaiseReply ==
    /\ cpc = "raise"
    /\ rstart' = TRUE
    /\ cpc' = "wait"
    /\ UNCHANGED <<session, wbox, rdata, pc, ck, ci, cbuf, cx>>

\* A slip: send_block does not wait until the PC has fetched the block.
C64ReplyNotAwaited ==
    /\ cpc = "wait"
    /\ cpc' = "idle" /\ ck' = ck + 1
    /\ UNCHANGED <<session, wbox, rbox, pc, ci, cbuf, cx>>

\* The turn of the waiting loop that finds START = 0.
C64ReplyTaken ==
    /\ cpc = "wait" /\ ~rstart
    /\ cpc' = "idle" /\ ck' = ck + 1
    /\ UNCHANGED <<session, wbox, rbox, pc, ci, cbuf, cx>>

-----------------------------------------------------------------------------
PCWrites ==
    \/ \E b \in Block : PCAnnounce(b)
    \/ PCSeeReady \/ PCClearStart \/ PCStoreData \/ PCStoreSeq \/ PCClearBytes

PCReads == PCSeeReply \/ PCFetch \/ PCAcknowledge

PCStep == PCWrites \/ PCReads \/ PCPassInit

C64Reads == C64DataAvailable \/ C64LoadSeq \/ C64RaiseStart \/ C64SeeSeq \/ C64Copy

C64Writes ==
    \/ \E b \in Block : C64Begin(b)
    \/ C64Fill \/ C64RaiseReply \/ C64ReplyTaken

C64Step == C64InitUsb \/ C64Reads \/ C64Writes

Next == PCStep \/ C64Step

Spec == Init /\ [][Next]_vars

(***************************************************************************)
(* Both sides loop for ever around their polls, and neither is ever        *)
(* suspended by the other: each one that can move does.                    *)
(***************************************************************************)
FairSpec == Spec /\ WF_vars(PCStep) /\ WF_vars(C64Step)

-----------------------------------------------------------------------------
TypeOK ==
    /\ plan \in Plans
    /\ offered \in [DOMAIN plan -> Block \cup {None}]
    /\ taken \in [DOMAIN plan -> Block \cup {None}]
    /\ wdata \in Block /\ rdata \in Block
    /\ wseq \in 0 .. CellSize - 1
    /\ wbytes \in 0 .. CellSize - 1
    /\ wstart \in BOOLEAN /\ rstart \in BOOLEAN
    /\ ppc \in {"idle", "ask", "clear", "data", "seq", "bytes", "fetch", "ack"}
    /\ pk \in 1 .. Len(plan) + 1 /\ pi \in Cells
    /\ pbuf \in Block /\ pseq \in 0 .. CellSize - 1
    /\ cpc \in {"idle", "get", "ready", "spin", "copy", "fill", "raise", "wait"}
    /\ ck \in 1 .. Len(plan) + 1
    /\ ci \in Nat /\ 1 <= ci
    /\ cbuf \in Block /\ cx \in 0 .. CellSize - 1

(***************************************************************************)
(* What a call returns is what the matching call on the other side was     *)
(* given: no block is lost, repeated, mixed with another or torn between   *)
(* the frames of a write, whatever the interleaving of USB requests and    *)
(* 6502 stores (usb_write_block against get_block, send_block against      *)
(* usb_read_block).                                                        *)
(***************************************************************************)
BlocksIntact == \A k \in DOMAIN plan : taken[k] \in {None, offered[k]}

(***************************************************************************)
(* The inductive invariant behind BlocksIntact: where each side may stand  *)
(* relative to the other, and what the cells hold then.                    *)
(***************************************************************************)

\* The C64 has the block of its transfer, or the PC has taken its reply.
Got == cpc = "copy" \/ (cpc = "spin" /\ wseq # cx)
Replied == cpc = "wait" /\ ~rstart

\* What a side is doing fits the kind of its transfer.
Activity ==
    /\ ppc \in {"ask", "clear", "data", "seq", "bytes"} => ToC64(pk)
    /\ ppc \in {"fetch", "ack"} => ToPC(pk)
    /\ cpc \in {"get", "ready", "spin", "copy"} => ToC64(ck)
    /\ cpc \in {"fill", "raise", "wait"} => ToPC(ck)
    /\ ppc \notin {"data", "fetch"} => pi = 1
    /\ cpc \in {"copy", "fill"} => ci \in Cells
    /\ cpc = "idle" /\ Starting(ck) => ci <= InitStores
    /\ ~(cpc \in {"copy", "fill"}) /\ ~(cpc = "idle" /\ Starting(ck)) => ci = 1

\* Neither side runs ahead of a transfer the other has not got through.
Together ==
    /\ \A j \in DOMAIN plan : pk <= j /\ j < ck =>
          Starting(j) \/ (j = pk /\ ppc = "bytes")
    /\ \A j \in DOMAIN plan : ck <= j /\ j < pk =>
          plan[j] = "race" \/ (j = ck /\ (Got \/ Replied))

\* START is up only while the C64 waits for it to be answered, or before init_usb.
Flags ==
    /\ wstart => \/ cpc = "spin" /\ wseq = cx
                 \/ cpc = "idle" /\ ck = 1 /\ ci = 1 /\ plan[1] = "init"
    /\ rstart => \/ cpc = "wait"
                 \/ cpc = "idle" /\ ck = 1 /\ ci <= 5 /\ plan[1] = "init"

Writing ==
    /\ ppc \in {"clear", "data", "seq"} =>
          pk = ck /\ cpc = "spin" /\ wseq = cx /\ pseq = Succ(cx)
    /\ ppc \in {"data", "seq"} => ~wstart
    /\ ppc = "data" => \A i \in Cells : i < pi => wdata[i] = pbuf[i]
    /\ ppc = "seq" => wdata = pbuf
    /\ ppc \in {"ask", "clear", "data", "seq", "bytes"} => pbuf = offered[pk]
    /\ ppc = "bytes" => ck > pk \/ (ck = pk /\ Got)
    /\ cpc = "ready" => cx = wseq
    /\ Got => /\ wdata = offered[ck]
              /\ pk > ck \/ (pk = ck /\ ppc = "bytes")
    /\ cpc = "copy" => \A i \in Cells : i < ci => cbuf[i] = wdata[i]

Reading ==
    /\ ppc \in {"fetch", "ack"} => pk = ck /\ cpc = "wait" /\ rstart
    /\ ppc = "fetch" => \A i \in Cells : i < pi => pbuf[i] = rdata[i]
    /\ ppc = "ack" => pbuf = rdata
    /\ cpc = "fill" => \A i \in Cells : i < ci => rdata[i] = cbuf[i]
    /\ cpc = "raise" => rdata = cbuf
    /\ cpc \in {"fill", "raise"} => cbuf = offered[ck]
    /\ cpc = "wait" => rdata = offered[ck]
    /\ Replied => pk > ck

History == \A k \in DOMAIN plan :
    /\ ToC64(k) => /\ offered[k] # None <=> k < pk \/ (k = pk /\ ppc # "idle")
                   /\ taken[k] # None <=> k < ck
    /\ ToPC(k) => /\ offered[k] # None <=> k < ck \/ (k = ck /\ cpc # "idle")
                  /\ taken[k] # None <=> k < pk

HandshakeInv ==
    /\ TypeOK
    /\ Activity
    /\ Together
    /\ Flags
    /\ Writing
    /\ Reading
    /\ History
    /\ BlocksIntact

(***************************************************************************)
(* The block a caller of get_block is working through lies in the mailbox  *)
(* itself; no later call of the PC touches it before the caller is done.   *)
(***************************************************************************)
InPlaceBlockStable == [][cpc = "copy" => wdata' = wdata]_vars

(***************************************************************************)
(* The link implements the abstract sequence of transfers.                 *)
(***************************************************************************)
LinkSpec == Link!Spec

(***************************************************************************)
(* Under a fair schedule every transfer of a session in which the PC waits *)
(* for the server to be up completes: neither poll of the PC, nor the main *)
(* loop's poll, nor the two waiting loops of chbidir.s wait for ever.      *)
(* (Any other outcome hangs both machines: neither side has a timeout.)    *)
(***************************************************************************)
SessionEnds ==
    (\A k \in DOMAIN plan : plan[k] # "race")
        => <>(pk = Len(plan) + 1 /\ ck = Len(plan) + 1)

(***************************************************************************)
(* The comment on check_data_available: it "checks if the pc wants to send *)
(* something".  A PC that keeps wanting to send is found out.              *)
(***************************************************************************)
WishIsSeen == ppc = "ask" ~> ppc # "ask"
=============================================================================
