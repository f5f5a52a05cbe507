---------------------------- MODULE D64Transfer ----------------------------
(***************************************************************************)
(* EasyTransfer writes a disk image: ef3xfer_d64.c on the PC, write_disk.c *)
(* on the C64, a 1541 drive behind it.  A sector travels while the drive   *)
(* writes the one before, so the PC gets the status of a sector after it   *)
(* has sent the next.  Afterwards the PC compares headers and checksums of *)
(* every track, which the drive reads back.                                *)
(*                                                                         *)
(* A packet is handed over in one step when one side writes and the other  *)
(* reads (module ChBidir shows that blocks arrive whole, once and in       *)
(* order); a side whose partner does something else waits for ever, since  *)
(* the link knows no timeout.                                              *)
(***************************************************************************)
EXTENDS Naturals, FiniteSets

CONSTANTS
    NumTracks,    \* n_num_tracks, 35 or 40
    Sectors,      \* a_sectors_per_track
    Interleave,   \* n_interleave, 4
    MaxSessions,  \* how often a disk is written
    MaxFlaws      \* sectors that come out wrong although the drive reports success

Tracks == 1 .. NumTracks

ASSUME D64Assumption ==
    /\ NumTracks \in Nat /\ NumTracks >= 1
    /\ Sectors \in [Tracks -> Nat] /\ \A t \in Tracks : Sectors[t] >= 1
    /\ Interleave \in Nat /\ MaxSessions \in Nat /\ MaxFlaws \in Nat

\* A sector of the image is named by its place; End is the mark with track 0.
TS == UNION {{<<t, s>> : s \in 0 .. Sectors[t] - 1} : t \in Tracks}
End == <<0, 0>>

\* What a sector of the disk holds: the sector of the image it is for or any other, what
\* was there before, or a flaw that changes both halves of its checksum, or one of them.
Old == <<0, 1>>
Both == <<0, 2>>
Half == <<0, 3>>
Contents == TS \cup {Old, Both, Half}

VARIABLES
    ppc, mode, ts, sent, first, result,        \* the PC
    cpc, opt, cts, prev, cfirst, status, ctrack, buffer,   \* the C64
    drive, job, done, disk,                    \* the drive; its status of the last job
    asked, acked, compared, flaws, used        \* history and bounds

pc == <<ppc, mode, ts, sent, first, result>>
pcData == <<mode, ts, sent, first>>
c64Data == <<opt, cts, prev, cfirst, status, ctrack, buffer>>
drv == <<drive, job, done, disk>>
history == <<asked, acked, compared, flaws, used>>
vars == <<pc, cpc, c64Data, drv, history>>

\* The programs offer two ways of writing: chxfer refuses more than one action, so with
\* --write it neither formats nor verifies; ChTransfer always does both.
Modes == {[format |-> b, verify |-> b, size |-> s] : b \in BOOLEAN, s \in {"d64", "other"}}

NoJob == [ts |-> End, data |-> Old]

Init ==
    /\ ppc = "idle" /\ mode \in Modes /\ ts = End /\ sent = {} /\ first = TRUE
    /\ result = "none"
    /\ cpc = "cmd" /\ opt = FALSE /\ cts = End /\ prev = End /\ cfirst = TRUE
    /\ status = "unknown" /\ ctrack = 0 /\ buffer = Old
    /\ drive \in {"1541", "other", "absent"} /\ job = NoJob /\ done = "none"
    /\ disk = [p \in TS |-> Old]
    /\ asked = End /\ acked = {} /\ compared = {} /\ flaws = 0 /\ used = 0

\* One side writes what the other reads, or reads what it writes.
Meet(p, c) == ppc = p /\ cpc = c

-----------------------------------------------------------------------------
(***************************************************************************)
(* The PC's loops.                                                         *)
(***************************************************************************)
\* A slip: the search does not look whether a sector was sent already.
NextSectorAgain(s, n, gone) == (s + Interleave) % n

\* The first sector, from one interleave further on, that was not sent yet.
NextSector(s, n, gone) ==
    LET at(k) == (s + Interleave + k) % n
        least == CHOOSE k \in 0 .. n - 1 :
                    at(k) \notin gone /\ \A j \in 0 .. k - 1 : at(j) \in gone
    IN  at(least)

Finish(r) == ppc' = "idle" /\ result' = r
Proceed(to) == ppc' = to /\ result' = result

\* The first sector of a track.
Seek(t) == ts' = <<t, NextSector(0, Sectors[t], {})>> /\ sent' = {}

\* The sector is done: the next one of the track, of the next track, or the end.
Advance ==
    LET t == ts[1]
        gone == sent \cup {ts[2]}
    IN  IF Cardinality(gone) < Sectors[t]
        THEN /\ ts' = <<t, NextSector(ts[2], Sectors[t], gone)>> /\ sent' = gone
             /\ Proceed("ts")
        ELSE IF t + 1 \in Tracks
        THEN Seek(t + 1) /\ Proceed("ts")
        ELSE ts' = End /\ sent' = {} /\ Proceed("ts")

\* A track is verified: the next one, or all is well.
Verified(t) ==
    /\ IF t + 1 \in Tracks THEN ts' = <<t + 1, 0>> /\ Proceed("vstatus")
                           ELSE ts' = ts /\ Finish("ok")
    /\ sent' = sent

-----------------------------------------------------------------------------
(***************************************************************************)
(* Beginning: handshake and options.                                       *)
(***************************************************************************)
\* Between sessions somebody may change disks or drives.
Begin(m, d) ==
    /\ ppc = "idle" /\ used < MaxSessions
    /\ used' = used + 1
    /\ ppc' = "start" /\ mode' = m /\ result' = "none"
    /\ drive' = d
    /\ disk' = [p \in TS |-> Old]
    /\ asked' = End /\ acked' = {} /\ compared' = {}
    /\ UNCHANGED <<ts, sent, first, cpc, c64Data, job, done, flaws>>

Handshake ==
    /\ Meet("start", "cmd")
    /\ Proceed("resp") /\ cpc' = "load"
    /\ UNCHANGED <<pcData, c64Data, drv, history>>

\* The C64 still waits for the options of a session that was given up: it takes the first
\* letters of the handshake for them, and looks for a drive of that number.
Garbled ==
    /\ Meet("start", "opts")
    /\ cpc' = "nodrive"
    /\ UNCHANGED <<pc, c64Data, drv, history>>

\* Only now the size of the image is looked at.
Load ==
    /\ Meet("resp", "load")
    /\ IF mode.size = "d64" THEN Proceed("opts") ELSE Finish("error")
    /\ cpc' = "opts"
    /\ UNCHANGED <<pcData, c64Data, drv, history>>

Options ==
    /\ Meet("opts", "opts")
    /\ IF mode.format THEN Proceed("fmtAck") ELSE Proceed("ts")
    /\ Seek(1) /\ first' = TRUE
    /\ opt' = mode.format /\ cpc' = "init"
    /\ UNCHANGED <<mode, cts, prev, cfirst, status, ctrack, buffer, drv, history>>

\* write_d64 begins.
StartWriting == cpc' = "ts" /\ cfirst' = TRUE /\ status' = "unknown"

InitDrive ==
    /\ cpc = "init"
    /\ IF drive = "1541" /\ ~opt
       THEN StartWriting
       ELSE /\ cpc' = IF drive = "1541" THEN "format" ELSE "nodrive"
            /\ UNCHANGED <<cfirst, status>>
    /\ UNCHANGED <<pc, opt, cts, prev, ctrack, buffer, drv, history>>

\* The PC reads a status.
Asks == {"fmtAck", "ack", "endAck", "vstatus"}

NoDrive ==
    /\ ppc \in Asks \ {"vstatus"} /\ cpc = "nodrive"
    /\ Finish("error") /\ cpc' = "cmd"
    /\ UNCHANGED <<pcData, c64Data, drv, history>>

Format ==
    /\ cpc = "format"
    /\ status' \in {"ok", "error"}
    /\ cpc' = "fmtStatus"
    /\ UNCHANGED <<pc, opt, cts, prev, cfirst, ctrack, buffer, drv, history>>

Formatted ==
    /\ Meet("fmtAck", "fmtStatus")
    /\ IF status = "ok" THEN Proceed("ts") /\ StartWriting
                        ELSE Finish("error") /\ cpc' = "cmd" /\ UNCHANGED <<cfirst, status>>
    /\ UNCHANGED <<pcData, opt, cts, prev, ctrack, buffer, drv, history>>

-----------------------------------------------------------------------------
(***************************************************************************)
(* Writing.                                                                *)
(***************************************************************************)
SendTS ==
    /\ Meet("ts", "ts")
    /\ cts' = ts
    /\ IF ts = End THEN Proceed("endAck") /\ cpc' = "recv"
                   ELSE Proceed("block") /\ cpc' = "block"
    /\ UNCHANGED <<mode, ts, sent, first, opt, prev, cfirst, status, ctrack, buffer, drv, history>>

\* No response after the first sector: PC and C64 count for themselves.
SendBlock ==
    /\ Meet("block", "block")
    /\ buffer' = ts
    /\ IF first THEN Advance /\ first' = FALSE
                ELSE Proceed("ack") /\ UNCHANGED <<ts, sent, first>>
    /\ asked' = IF first THEN ts ELSE asked
    /\ cpc' = IF cfirst THEN "write" ELSE "recv"
    /\ cfirst' = FALSE
    /\ UNCHANGED <<mode, opt, cts, prev, status, ctrack, drv, acked, compared, flaws, used>>

\* A slip: prev_ts stays what it was.
WriteKeepsPrev ==
    /\ cpc = "write"
    /\ job' = [ts |-> cts, data |-> buffer]
    /\ cpc' = "ts"
    /\ UNCHANGED <<pc, c64Data, drive, done, disk, history>>

\* The drive gets the sector and sets to work; the C64 goes on.
Write ==
    /\ cpc = "write"
    /\ job' = [ts |-> cts, data |-> buffer] /\ prev' = cts
    /\ cpc' = "ts"
    /\ UNCHANGED <<pc, opt, cts, cfirst, status, ctrack, buffer, drive, done, disk, history>>

\* The drive writes, while the next sector is on its way to the C64.  A sector that it
\* reports as written may have flaws.
DriveWrites ==
    /\ job # NoJob /\ done = "none"
    /\ \/ /\ done' = "ok"
          /\ \E c \in {job.data, Both, Half} :
                /\ disk' = [disk EXCEPT ![job.ts] = c]
                /\ flaws' = IF c = job.data THEN flaws ELSE flaws + 1
          /\ flaws' <= MaxFlaws
       \/ /\ done' = "error"
          /\ UNCHANGED <<disk, flaws>>
    /\ UNCHANGED <<pc, cpc, c64Data, drive, job, asked, acked, compared, used>>

\* eload_recv_status
Receive ==
    /\ cpc = "recv" /\ done # "none"
    /\ status' = done
    /\ job' = NoJob /\ done' = "none"
    /\ cpc' = "wstatus"
    /\ UNCHANGED <<pc, opt, cts, prev, cfirst, ctrack, buffer, drive, disk, history>>

\* A slip: a status that is not OK does not end the loop on the PC.
StatusIgnored ==
    /\ Meet("ack", "wstatus")
    /\ Advance /\ asked' = ts /\ acked' = acked \cup {asked}
    /\ cpc' = IF status = "ok" THEN "write" ELSE "cmd"
    /\ UNCHANGED <<mode, first, c64Data, drv, compared, flaws, used>>

\* The status of the sector before the one just sent.
Status ==
    /\ Meet("ack", "wstatus")
    /\ IF status = "ok"
       THEN Advance /\ asked' = ts /\ acked' = acked \cup {asked} /\ cpc' = "write"
       ELSE Finish("error") /\ cpc' = "cmd" /\ UNCHANGED <<ts, sent, asked, acked>>
    /\ UNCHANGED <<mode, first, c64Data, drv, compared, flaws, used>>

\* The status of the last sector; then both go on to verify, or not.
LastStatus ==
    /\ Meet("endAck", "wstatus")
    /\ IF status = "ok"
       THEN /\ IF mode.verify THEN Proceed("vstatus") /\ ts' = <<1, 0>>
                              ELSE Finish("ok") /\ ts' = ts
            /\ IF opt THEN cpc' = "check" /\ ctrack' = 1 ELSE cpc' = "cmd" /\ ctrack' = ctrack
            /\ acked' = acked \cup {asked} /\ prev' = cts
       ELSE Finish("error") /\ cpc' = "cmd" /\ UNCHANGED <<ts, ctrack, acked, prev>>
    /\ UNCHANGED <<mode, sent, first, opt, cts, cfirst, status, buffer, drv,
                   asked, compared, flaws, used>>

-----------------------------------------------------------------------------
(***************************************************************************)
(* Verifying, track by track.                                              *)
(***************************************************************************)
CheckTrack ==
    /\ cpc = "check"
    /\ status' \in {"ok", "error"}
    /\ cpc' = "vstatus"
    /\ UNCHANGED <<pc, opt, cts, prev, cfirst, ctrack, buffer, drv, history>>

\* Without a good status the PC leaves the track out; the C64 gives up.
TrackStatus ==
    /\ Meet("vstatus", "vstatus")
    /\ IF status = "ok" THEN Proceed("vdata") /\ cpc' = "vdata" /\ UNCHANGED <<ts, sent>>
                        ELSE Verified(ts[1]) /\ cpc' = "cmd"
    /\ UNCHANGED <<mode, first, c64Data, drv, history>>

\* A slip: a track is good when one of its sectors is.
MatchesOnce(t) == \E s \in 0 .. Sectors[t] - 1 : disk[<<t, s>>] \in {<<t, s>>, Half}

\* A checksum has two halves; only when both are wrong the sector is (check_checksums
\* says && where it means ||).
Matches(t) == \A s \in 0 .. Sectors[t] - 1 : disk[<<t, s>>] \in {<<t, s>>, Half}

TrackData ==
    /\ Meet("vdata", "vdata")
    /\ Proceed(IF Matches(ts[1]) THEN "good" ELSE "bad")
    /\ compared' = compared \cup {ts[1]}
    /\ cpc' = "vresult"
    /\ UNCHANGED <<pcData, c64Data, drv, asked, acked, flaws, used>>

TrackGood ==
    /\ Meet("good", "vresult")
    /\ Verified(ts[1])
    /\ IF ctrack + 1 \in Tracks THEN cpc' = "check" /\ ctrack' = ctrack + 1
                                ELSE cpc' = "cmd" /\ ctrack' = ctrack
    /\ UNCHANGED <<mode, first, opt, cts, prev, cfirst, status, buffer, drv, history>>

TrackBad ==
    /\ Meet("bad", "vresult")
    /\ Finish("error") /\ cpc' = "cmd"
    /\ UNCHANGED <<pcData, c64Data, drv, history>>

-----------------------------------------------------------------------------
Work ==
    \/ Handshake \/ Garbled \/ Load \/ Options \/ InitDrive \/ NoDrive \/ Format \/ Formatted
    \/ SendTS \/ SendBlock \/ Write \/ DriveWrites \/ Receive \/ Status \/ LastStatus
    \/ CheckTrack \/ TrackStatus \/ TrackData \/ TrackGood \/ TrackBad

Next == Work \/ \E m \in Modes, d \in {"1541", "other", "absent"} : Begin(m, d)

Spec == Init /\ [][Next]_vars

\* Both computers and the drive run; nobody has to begin a session.
FairSpec == Spec /\ WF_vars(Work)
-----------------------------------------------------------------------------
TypeOK ==
    /\ ppc \in {"idle", "start", "resp", "opts", "ts", "block", "vdata", "good", "bad"} \cup Asks
    /\ mode \in Modes /\ ts \in TS \cup {End} /\ sent \subseteq Nat /\ first \in BOOLEAN
    /\ result \in {"none", "ok", "error"}
    /\ cpc \in {"cmd", "load", "opts", "init", "nodrive", "format", "fmtStatus", "ts", "block",
                "write", "recv", "wstatus", "check", "vstatus", "vdata", "vresult"}
    /\ opt \in BOOLEAN /\ cts \in TS \cup {End} /\ prev \in TS \cup {End} /\ cfirst \in BOOLEAN
    /\ status \in {"unknown", "ok", "error"} /\ ctrack \in Tracks \cup {0}
    /\ buffer \in TS \cup {Old}
    /\ drive \in {"1541", "other", "absent"}
    /\ job \in [ts : TS \cup {End}, data : TS \cup {Old}]
    /\ done \in {"none", "ok", "error"}
    /\ disk \in [TS -> Contents]
    /\ asked \in TS \cup {End} /\ acked \subseteq TS /\ compared \subseteq Tracks
    /\ flaws \in 0 .. MaxFlaws /\ used \in 0 .. MaxSessions

(***************************************************************************)
(* A status that the PC takes for the sector before the one it sent last   *)
(* (or for the last sector of all) is the status of that sector, and while *)
(* tracks are compared, both count the same one: nothing in the packets    *)
(* would tell otherwise, since the PC does not look at the sector numbers. *)
(***************************************************************************)
InStep ==
    /\ ppc \in {"ack", "endAck"} /\ cpc = "wstatus" => prev = asked
    /\ ppc \in {"vstatus", "vdata", "good", "bad"} /\ cpc # "cmd" => ctrack = ts[1]
    /\ cpc = "block" => ppc = "block" /\ cts = ts

D64Inv == TypeOK /\ InStep

(***************************************************************************)
(* A sector that the PC has been told is written holds its own data, or a  *)
(* flaw that the drive did not notice.                                     *)
(***************************************************************************)
AckedIsOnDisk == \A p \in acked : disk[p] \in {p, Both, Half}

(***************************************************************************)
(* "OK" at the end means that every sector of the image was sent and       *)
(* reported as written; with verify, that no sector of the tracks that     *)
(* were compared has a flaw that changes both halves of its checksum; and  *)
(* that all tracks were compared but the last, whose bad status is ignored *)
(* (see VerifyReadsAll).                                                   *)
(***************************************************************************)
OkIsComplete ==
    result = "ok" =>
        /\ acked = TS
        /\ mode.verify => /\ Tracks \ compared \subseteq {NumTracks}
                          /\ \A p \in TS : p[1] \in compared => disk[p] \in {p, Half}

(***************************************************************************)
(* A session comes to its end, except in the three situations in which the *)
(* two sides wait for each other: the C64 reports that there is no drive   *)
(* while the PC, which did not ask for formatting, sends a sector already; *)
(* it reports so to a handshake it took for options; and the PC waits for  *)
(* the status of a track after the C64 has given up verifying.             *)
(***************************************************************************)
Stuck ==
    \/ ppc \in {"start", "ts"} /\ cpc = "nodrive"
    \/ ppc = "vstatus" /\ cpc = "cmd"

SessionEnds == ppc # "idle" ~> ppc = "idle" \/ Stuck

(***************************************************************************)
(* Verifying reads the whole disk: when it says "OK", every track has been *)
(* compared.                                                               *)
(***************************************************************************)
VerifyReadsAll == result = "ok" /\ mode.verify => compared = Tracks
=============================================================================
