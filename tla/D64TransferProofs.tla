------------------------- MODULE D64TransferProofs -------------------------
(***************************************************************************)
(* D64Transfer for every disk: the two sides never lose count of each      *)
(* other, what the PC has been told is written is on the disk, and "OK" is *)
(* said of whole images only.                                              *)
(***************************************************************************)
EXTENDS D64Transfer, FiniteSetTheorems, WellFoundedInduction, TLAPS

Preparing == {"init", "format", "fmtStatus"}
Writing == {"ts", "block", "write", "recv", "wstatus"}
Checking == {"check", "vstatus", "vdata", "vresult"}

\* Where the PC can be, given where the C64 is.
Together ==
    /\ cpc = "cmd" => ppc \in {"idle", "start", "vstatus"}
    /\ cpc = "load" => ppc = "resp"
    /\ cpc = "opts" => ppc \in {"opts", "idle", "start"}
    /\ cpc = "init" => ppc = IF opt THEN "fmtAck" ELSE "ts"
    /\ cpc = "nodrive" => ppc \in {"fmtAck", "ts", "start"}
    /\ cpc \in {"format", "fmtStatus"} => ppc = "fmtAck" /\ opt
    /\ cpc \in {"ts", "write"} => ppc = "ts"
    /\ cpc = "block" => ppc = "block"
    /\ cpc \in {"recv", "wstatus"} => ppc \in {"ack", "endAck"}
    /\ cpc \in {"check", "vstatus"} => ppc = "vstatus"
    /\ cpc = "vdata" => ppc = "vdata"
    /\ cpc = "vresult" => ppc \in {"good", "bad"}
    /\ ppc # "idle" => result = "none"

\* The sectors before the one under way, in the order of sending.
Passed == IF ts = End THEN TS
          ELSE {p \in TS : p[1] < ts[1] \/ (p[1] = ts[1] /\ p[2] \in sent)}

\* Before anything was sent.
Fresh ==
    /\ ppc \in {"start", "resp", "opts"} \/ cpc \in Preparing =>
          asked = End /\ acked = {} /\ compared = {}
    /\ cpc \in Preparing => ts \in TS /\ ts[1] = 1 /\ sent = {} /\ first /\ opt = mode.format

\* While sectors are sent: what each side knows of the sector under way and the one before.
Underway ==
    cpc \in Writing =>
        /\ opt = mode.format /\ first = cfirst /\ compared = {}
        /\ first => cpc \in {"ts", "block"} /\ asked = End /\ acked = {} /\ ts \in TS
        /\ ~first => asked \in TS
        /\ ppc \in {"block", "ack"} => ts \in TS /\ cts = ts
        /\ ppc = "ack" => buffer = ts
        /\ ppc = "endAck" => ts = End /\ cts = End /\ ~first
        /\ cpc = "write" => cts = asked /\ buffer = asked
        /\ cpc # "write" /\ ~first => prev = asked
        /\ Passed = IF first THEN {} ELSE acked \cup {asked}
        /\ ts # End => sent \subseteq 0 .. Sectors[ts[1]] - 1 /\ ts[2] \notin sent

Good(p) == disk[p] \in {p, Both, Half}

\* The drive has a job just while the C64 is due to fetch its status.
Jobs ==
    /\ job # NoJob => /\ cpc \in {"ts", "block", "recv"} /\ ~first
                      /\ job.ts = asked /\ job.data = asked
    /\ cpc \in {"ts", "block", "recv"} /\ ~first => job # NoJob
    /\ done # "none" => job # NoJob
    /\ done = "ok" => Good(asked)
    /\ cpc = "wstatus" /\ status = "ok" => Good(asked)

\* While tracks are compared: those before this one are.
Compared ==
    /\ cpc \in Checking =>
          /\ mode.verify /\ acked = TS
          /\ ts[1] \in Tracks /\ ctrack = ts[1]
          /\ compared = IF cpc = "vresult" THEN 1 .. ts[1] ELSE 1 .. ts[1] - 1
          /\ ppc # "bad" => \A p \in TS : p[1] \in compared => disk[p] \in {p, Half}

IInv ==
    /\ TypeOK /\ Together /\ Fresh /\ Underway /\ Jobs /\ Compared
    /\ AckedIsOnDisk /\ OkIsComplete

-----------------------------------------------------------------------------
(***************************************************************************)
(* Sectors.                                                                *)
(***************************************************************************)
\* What a sector's name is made of.
LEMMA Places ==
    /\ \A p : p \in TS <=> \E t \in Tracks : \E s \in 0 .. Sectors[t] - 1 : p = <<t, s>>
    /\ \A p \in TS : p = <<p[1], p[2]>> /\ p[1] \in Tracks /\ p[2] \in 0 .. Sectors[p[1]] - 1
    /\ \A t \in Tracks : Sectors[t] \in Nat /\ Sectors[t] >= 1 /\ t \in Nat /\ t >= 1
    /\ End \notin TS /\ Old \notin TS /\ Both \notin TS /\ Half \notin TS
  <1>1. \A p : p \in TS <=> \E t \in Tracks : \E s \in 0 .. Sectors[t] - 1 : p = <<t, s>>
    BY DEF TS
  <1>2. \A t \in Tracks : Sectors[t] \in Nat /\ Sectors[t] >= 1 /\ t \in Nat /\ t >= 1
    BY D64Assumption DEF Tracks
  <1>3. \A p \in TS : p = <<p[1], p[2]>> /\ p[1] \in Tracks /\ p[2] \in 0 .. Sectors[p[1]] - 1
    BY <1>1
  <1>4. \A x \in Nat : <<0, x>> \notin TS
    BY <1>1, <1>2
  <1> QED
    BY <1>1, <1>2, <1>3, <1>4 DEF End, Old, Both, Half

\* Division leaves one remainder.
LEMMA Remainder ==
    ASSUME NEW n \in Nat, n >= 1, NEW a \in Nat, NEW q \in Int, NEW r \in 0 .. n - 1,
           a = n * q + r
    PROVE  a % n = r
  <1> DEFINE d == a \div n
             m == a % n
  <1>1. d \in Int /\ m \in 0 .. n - 1 /\ a = n * d + m
    BY SMT
  <1>2. n * (d - q) = r - m
    BY <1>1, SMT
  <1>3. \A k \in Int : k >= 1 => n * k >= n
    BY SMT
  <1>4. \A k \in Int : k <= -1 => n * k <= -n
    BY SMT
  <1> HIDE DEF d, m
  <1>5. ~ d - q >= 1 /\ ~ d - q <= -1
    BY <1>1, <1>2, <1>3, <1>4, SMT
  <1>6. d = q
    BY <1>1, <1>5, SMT
  <1>7. m = r
    BY <1>1, <1>6, SMT
  <1> QED
    BY <1>7 DEF m

\* Stepping on from anywhere, every sector of a track is reached.
LEMMA Reached ==
    ASSUME NEW n \in Nat, n >= 1, NEW a \in Nat, NEW x \in 0 .. n - 1
    PROVE  \E k \in 0 .. n - 1 : (a + k) % n = x
  <1> DEFINE d == a \div n
             m == a % n
  <1>1. d \in Int /\ m \in 0 .. n - 1 /\ a = n * d + m
    BY SMT
  <1> HIDE DEF d, m
  <1>2. CASE x >= m
    <2>1. x - m \in 0 .. n - 1 /\ a + (x - m) \in Nat /\ a + (x - m) = n * d + x
      BY <1>1, <1>2, SMT
    <2>2. (a + (x - m)) % n = x
      BY <2>1, <1>1, Remainder
    <2> QED
      BY <2>1, <2>2
  <1>3. CASE x < m
    <2>1. x + n - m \in 0 .. n - 1 /\ a + (x + n - m) \in Nat /\ d + 1 \in Int
      BY <1>1, <1>3, SMT
    <2>2. a + (x + n - m) = n * (d + 1) + x
      BY <1>1, SMT
    <2>3. (a + (x + n - m)) % n = x
      BY <2>1, <2>2, Remainder
    <2> QED
      BY <2>1, <2>3
  <1> QED
    BY <1>1, <1>2, <1>3, SMT

\* A set of numbers has a least one.
LEMMA Least ==
    ASSUME NEW T \in SUBSET Nat, T # {}
    PROVE  \E k \in T : \A j \in 0 .. k - 1 : j \notin T
  <1>1. PICK k \in T : \A j \in T : ~ (<<j, k>> \in OpToRel(<, Nat))
    BY NatLessThanWellFounded, WFMin
  <1>2. \A j, k1 \in Nat : j < k1 => <<j, k1>> \in OpToRel(<, Nat)
    BY DEF OpToRel
  <1>3. \A j \in 0 .. k - 1 : j \in Nat /\ k \in Nat /\ j < k
    OBVIOUS
  <1> QED
    BY <1>1, <1>2, <1>3

\* The search of the PC ends at a sector that was not sent.
LEMMA Unsent ==
    ASSUME NEW n \in Nat, n >= 1, NEW s \in Nat, NEW gone \in SUBSET (0 .. n - 1),
           gone # 0 .. n - 1
    PROVE  NextSector(s, n, gone) \in (0 .. n - 1) \ gone
  <1> DEFINE at(k) == (s + Interleave + k) % n
             T == {k \in 0 .. n - 1 : at(k) \notin gone}
             Is(k) == at(k) \notin gone /\ \A j \in 0 .. k - 1 : at(j) \in gone
             least == CHOOSE k \in 0 .. n - 1 : Is(k)
  <1>a. Interleave \in Nat
    BY D64Assumption
  <1>1. PICK x \in 0 .. n - 1 : x \notin gone
    OBVIOUS
  <1>2. PICK k \in 0 .. n - 1 : at(k) = x
    <2>1. s + Interleave \in Nat
      BY <1>a
    <2>2. \E k \in 0 .. n - 1 : (s + Interleave + k) % n = x
      BY <2>1, Reached
    <2> QED
      BY <2>2
  <1>3. T \in SUBSET Nat /\ T # {}
    BY <1>1, <1>2
  <1>4. PICK l \in T : \A j \in 0 .. l - 1 : j \notin T
    BY <1>3, Least
  <1>5. l \in 0 .. n - 1 /\ Is(l)
    <2> HIDE DEF at
    <2> QED
      BY <1>4
  <1>6. least \in 0 .. n - 1 /\ Is(least)
    <2> HIDE DEF Is
    <2> QED
      BY <1>5
  <1>7. \A j \in 0 .. n - 1 : at(j) \in 0 .. n - 1
    BY <1>a
  <1>8. at(least) \in (0 .. n - 1) \ gone
    <2> HIDE DEF at, least
    <2> QED
      BY <1>6, <1>7
  <1>9. NextSector(s, n, gone) = at(least)
    BY DEF NextSector
  <1> QED
    BY <1>8, <1>9

\* All sectors of a track are sent when as many are.
LEMMA AllSent ==
    ASSUME NEW n \in Nat, NEW gone \in SUBSET (0 .. n - 1)
    PROVE  Cardinality(gone) < n <=> gone # 0 .. n - 1
  <1>1. 0 \in Int /\ n - 1 \in Int
    OBVIOUS
  <1>2. /\ IsFiniteSet(0 .. n - 1)
        /\ Cardinality(0 .. n - 1) = IF 0 > n - 1 THEN 0 ELSE n - 1 - 0 + 1
    BY <1>1, FS_Interval
  <1>3. Cardinality(0 .. n - 1) = n
    BY <1>2
  <1>4. /\ IsFiniteSet(gone) /\ Cardinality(gone) <= Cardinality(0 .. n - 1)
        /\ Cardinality(0 .. n - 1) = Cardinality(gone) => 0 .. n - 1 = gone
    BY <1>2, FS_Subset
  <1>5. Cardinality(gone) \in Nat
    BY <1>4, FS_CardinalityType
  <1> QED
    BY <1>3, <1>4, <1>5

\* What is not yet sent is on this track or on a later one.
LEMMA Seeks ==
    ASSUME NEW t \in Tracks, Seek(t)
    PROVE  /\ ts' \in TS /\ ts'[1] = t /\ sent' = {}
           /\ Passed' = {p \in TS : p[1] < t}
  <1>1. Sectors[t] \in Nat /\ Sectors[t] >= 1
    BY Places
  <1>2. {} \in SUBSET (0 .. Sectors[t] - 1) /\ {} # 0 .. Sectors[t] - 1 /\ 0 \in Nat
    BY <1>1
  <1>3. NextSector(0, Sectors[t], {}) \in 0 .. Sectors[t] - 1
    BY <1>1, <1>2, Unsent
  <1>4. ts' = <<t, NextSector(0, Sectors[t], {})>> /\ sent' = {}
    BY DEF Seek
  <1>5. ts' \in TS /\ ts' # End /\ ts'[1] = t
    BY <1>3, <1>4, Places
  <1>6. Passed' = {p \in TS : p[1] < t}
    BY <1>4, <1>5 DEF Passed
  <1> QED
    BY <1>4, <1>5, <1>6

\* One step of the loops sends one sector more, and leaves none out.
LEMMA Advances ==
    ASSUME ts \in TS, sent \subseteq 0 .. Sectors[ts[1]] - 1, Advance
    PROVE  /\ ts' \in TS \cup {End} /\ ppc' = "ts" /\ result' = result
           /\ sent' \subseteq Nat
           /\ Passed' = Passed \cup {ts}
           /\ ts' # End => sent' \subseteq 0 .. Sectors[ts'[1]] - 1 /\ ts'[2] \notin sent'
  <1> DEFINE t == ts[1]
             n == Sectors[t]
             gone == sent \cup {ts[2]}
             all == {p \in TS : p[1] < t} \cup {p \in TS : p[1] = t}
  <1>1. /\ ts = <<t, ts[2]>> /\ ts # End
        /\ t \in Tracks /\ t \in Nat /\ n \in Nat /\ n >= 1
        /\ ts[2] \in 0 .. n - 1 /\ gone \in SUBSET (0 .. n - 1)
    BY Places
  <1>2. \A p \in TS : p = <<p[1], p[2]>> /\ p[1] \in Tracks /\ p[1] \in Nat
                       /\ p[2] \in 0 .. Sectors[p[1]] - 1
    BY Places
  <1>3. Passed \cup {ts} = {p \in TS : p[1] < t \/ (p[1] = t /\ p[2] \in gone)}
    BY <1>1, <1>2 DEF Passed
  <1>4. ppc' = "ts" /\ result' = result
    BY DEF Advance, Proceed
  <1> HIDE DEF n, t, gone
  <1>5. CASE Cardinality(gone) < n
    <2>1. ts' = <<t, NextSector(ts[2], n, gone)>> /\ sent' = gone
      BY <1>5 DEF Advance, n, t, gone
    <2>2. gone # 0 .. n - 1 /\ ts[2] \in Nat
      BY <1>1, <1>5, AllSent
    <2>3. NextSector(ts[2], n, gone) \in (0 .. n - 1) \ gone
      BY <1>1, <2>2, Unsent
    <2>4. /\ ts' \in TS /\ ts' # End /\ ts'[1] = t /\ ts'[2] \notin sent'
          /\ sent' \subseteq 0 .. Sectors[ts'[1]] - 1
      BY <1>1, <2>1, <2>3, Places DEF n
    <2>5. Passed' = {p \in TS : p[1] < t \/ (p[1] = t /\ p[2] \in gone)}
      BY <2>1, <2>4 DEF Passed
    <2> QED
      BY <1>1, <1>3, <1>4, <2>1, <2>4, <2>5
  <1>6. CASE ~ Cardinality(gone) < n
    <2>1. gone = 0 .. n - 1
      BY <1>1, <1>6, AllSent
    <2>2. Passed \cup {ts} = {p \in TS : p[1] < t \/ p[1] = t}
      BY <1>2, <1>3, <2>1 DEF n
    <2>3. CASE t + 1 \in Tracks
      <3>1. Seek(t + 1)
        BY <1>6, <2>3 DEF Advance, n, t, gone
      <3>2. /\ ts' \in TS /\ ts'[1] = t + 1 /\ sent' = {}
            /\ Passed' = {p \in TS : p[1] < t + 1}
        BY <2>3, <3>1, Seeks
      <3>3. \A p \in TS : p[1] < t + 1 <=> p[1] < t \/ p[1] = t
        BY <1>1, <1>2
      <3> QED
        BY <1>4, <2>2, <3>2, <3>3
    <2>4. CASE t + 1 \notin Tracks
      <3>1. ts' = End /\ sent' = {}
        BY <1>6, <2>4 DEF Advance, n, t, gone
      <3>2. \A p \in TS : p[1] < t \/ p[1] = t
        BY <1>1, <1>2, <2>4, D64Assumption DEF Tracks
      <3>3. Passed' = TS
        BY <3>1 DEF Passed
      <3> QED
        BY <1>4, <2>2, <3>1, <3>2, <3>3
    <2> QED
      BY <2>3, <2>4
  <1> QED
    BY <1>5, <1>6

\* The first track, and how many there are.
LEMMA FirstTrack == /\ <<1, 0>> \in TS /\ 1 \in Tracks /\ 1 .. 1 - 1 = {}
                    /\ NumTracks \in Nat /\ Tracks = 1 .. NumTracks
  BY Places, D64Assumption DEF Tracks

-----------------------------------------------------------------------------
(***************************************************************************)
(* Every action keeps IInv: first the facts of each part, then the next.   *)
(***************************************************************************)
\* Every lemma of this section opens the parts of IInv.
USE DEF IInv, TypeOK, Asks, Together, Fresh, Preparing, Underway, Writing, Jobs, Good, Compared,
        Checking, AckedIsOnDisk, OkIsComplete, pc, pcData, c64Data, drv, history

LEMMA HandshakeStep == IInv /\ Handshake => IInv'
  BY DEF Handshake, Meet, Proceed, Finish

LEMMA GarbledStep == IInv /\ Garbled => IInv'
  BY DEF Garbled, Meet

LEMMA LoadStep == IInv /\ Load => IInv'
  BY DEF Load, Meet, Proceed, Finish

LEMMA NoDriveStep == IInv /\ NoDrive => IInv'
  BY DEF NoDrive, Finish

LEMMA FormatStep == IInv /\ Format => IInv'
  <1> SUFFICES ASSUME IInv, Format PROVE IInv'
    OBVIOUS
  <1>1. TypeOK' /\ Together'
    BY DEF Format
  <1>2. Fresh' /\ Underway'
    BY DEF Format
  <1>3. Jobs' /\ Compared' /\ AckedIsOnDisk' /\ OkIsComplete'
    BY DEF Format
  <1> QED
    BY <1>1, <1>2, <1>3

LEMMA CheckTrackStep == IInv /\ CheckTrack => IInv'
  BY DEF CheckTrack

LEMMA TrackBadStep == IInv /\ TrackBad => IInv'
  BY DEF TrackBad, Meet, Finish

\* Writing begins with nothing sent.
LEMMA StartWritingStep ==
    ASSUME IInv, cpc \in {"init", "fmtStatus"}, StartWriting, ppc' = "ts", result' = result,
           UNCHANGED <<pcData, opt, cts, prev, ctrack, buffer, drv, history>>
    PROVE  IInv'
  <1>a. Passed' = {} /\ ts' \in TS
    <2>1. ts \in TS /\ ts # End /\ ts[1] = 1 /\ sent = {}
      BY Places
    <2>2. \A p \in TS : p[1] \in Nat /\ p[1] >= 1
      BY Places
    <2> QED
      BY <2>1, <2>2 DEF Passed
  <1> QED
    BY <1>a DEF StartWriting

LEMMA InitDriveStep == IInv /\ InitDrive => IInv'
  <1> SUFFICES ASSUME IInv, InitDrive PROVE IInv'
    OBVIOUS
  <1>1. CASE drive = "1541" /\ ~opt
    BY <1>1, StartWritingStep DEF InitDrive
  <1>2. CASE ~(drive = "1541" /\ ~opt)
    <2>1. TypeOK' /\ Together'
      BY <1>2 DEF InitDrive
    <2>2. Fresh' /\ Underway'
      BY <1>2 DEF InitDrive
    <2>3. Jobs' /\ Compared' /\ AckedIsOnDisk' /\ OkIsComplete'
      BY <1>2 DEF InitDrive
    <2> QED
      BY <2>1, <2>2, <2>3
  <1> QED
    BY <1>1, <1>2

LEMMA FormattedStep == IInv /\ Formatted => IInv'
  <1> SUFFICES ASSUME IInv, Formatted PROVE IInv'
    OBVIOUS
  <1>1. CASE status = "ok"
    BY <1>1, StartWritingStep DEF Formatted, Meet, Proceed
  <1>2. CASE status # "ok"
    BY <1>2 DEF Formatted, Meet, Finish
  <1> QED
    BY <1>1, <1>2

LEMMA OptionsStep == IInv /\ Options => IInv'
  <1> SUFFICES ASSUME IInv, Options PROVE IInv'
    OBVIOUS
  <1>a. /\ ts' \in TS /\ ts'[1] = 1 /\ sent' = {}
        /\ mode.format \in BOOLEAN
    <2>1. 1 \in Tracks /\ Seek(1)
      BY D64Assumption DEF Options, Tracks
    <2> QED
      BY <2>1, Seeks DEF Modes
  <1> QED
    BY <1>a DEF Options, Meet, Proceed

LEMMA SendTSStep == IInv /\ SendTS => IInv'
  <1> SUFFICES ASSUME IInv, SendTS PROVE IInv'
    OBVIOUS
  <1>a. Passed' = Passed /\ (ts = End => ~first)
    BY Places DEF SendTS, Meet, Passed
  <1> QED
    BY <1>a DEF SendTS, Meet, Proceed

LEMMA WriteStep == IInv /\ Write => IInv'
  <1> SUFFICES ASSUME IInv, Write PROVE IInv'
    OBVIOUS
  <1>a. Passed' = Passed
    BY DEF Write, Passed
  <1> QED
    BY <1>a, Places DEF Write, NoJob

LEMMA SendBlockStep == IInv /\ SendBlock => IInv'
  <1> SUFFICES ASSUME IInv, SendBlock PROVE IInv'
    OBVIOUS
  <1>a. /\ ts \in TS /\ cts = ts /\ ts # End /\ first = cfirst
        /\ sent \subseteq 0 .. Sectors[ts[1]] - 1 /\ ts[2] \notin sent
    BY Places DEF SendBlock, Meet
  <1>1. CASE first
    <2>a. /\ Advance /\ first' = FALSE /\ asked' = ts /\ cpc' = "write"
          /\ ts' \in TS \cup {End} /\ ppc' = "ts" /\ result' = result
          /\ sent' \subseteq Nat
          /\ Passed' = Passed \cup {ts}
          /\ ts' # End => sent' \subseteq 0 .. Sectors[ts'[1]] - 1 /\ ts'[2] \notin sent'
      BY <1>a, <1>1, Advances DEF SendBlock
    <2> QED
      BY <1>a, <1>1, <2>a, ZenonT(60) DEF SendBlock, Meet
  <1>2. CASE ~first
    <2>a. /\ UNCHANGED <<ts, sent, first, asked>> /\ ppc' = "ack" /\ cpc' = "recv" /\ result' = result
          /\ Passed' = Passed /\ first = FALSE
      BY <1>a, <1>2 DEF SendBlock, Proceed, Passed
    <2>1. TypeOK' /\ Together'
      <3>1. TypeOK'
        BY <1>a, <1>2, <2>a, ZenonT(60) DEF SendBlock, Meet
      <3>2. Together'
        BY <1>a, <1>2, <2>a DEF SendBlock, Meet
      <3> QED
        BY <3>1, <3>2
    <2>2. Fresh' /\ Underway'
      BY <1>a, <1>2, <2>a DEF SendBlock, Meet
    <2>3. Jobs' /\ Compared' /\ AckedIsOnDisk' /\ OkIsComplete'
      BY <1>a, <1>2, <2>a DEF SendBlock, Meet
    <2> QED
      BY <2>1, <2>2, <2>3
  <1> QED
    BY <1>1, <1>2

LEMMA StatusStep == IInv /\ Status => IInv'
  <1> SUFFICES ASSUME IInv, Status PROVE IInv'
    OBVIOUS
  <1>a. /\ ts \in TS /\ cts = ts /\ ts # End /\ ~first /\ buffer = ts
        /\ sent \subseteq 0 .. Sectors[ts[1]] - 1 /\ ts[2] \notin sent
        /\ Passed = acked \cup {asked} /\ asked \in TS /\ prev = asked /\ compared = {}
        /\ opt = mode.format /\ first = cfirst /\ job = NoJob /\ done = "none"
    BY Places DEF Status, Meet
  <1>1. CASE status = "ok"
    <2>a. /\ Advance /\ asked' = ts /\ acked' = acked \cup {asked} /\ cpc' = "write"
          /\ ts' \in TS \cup {End} /\ ppc' = "ts" /\ result' = result
          /\ sent' \subseteq Nat
          /\ Passed' = Passed \cup {ts}
          /\ ts' # End => sent' \subseteq 0 .. Sectors[ts'[1]] - 1 /\ ts'[2] \notin sent'
          /\ UNCHANGED <<mode, first, c64Data, drv, compared, flaws, used>>
      BY <1>a, <1>1, Advances DEF Status
    <2>b. Good(asked)
      BY <1>1 DEF Status, Meet
    <2> QED
      BY <1>a, <1>1, <2>a, <2>b DEF Meet, Status
  <1>2. CASE status # "ok"
    <2>a. /\ UNCHANGED <<ts, sent, asked, acked>> /\ ppc' = "idle" /\ cpc' = "cmd" /\ result' = "error"
      BY <1>2 DEF Status, Finish
    <2> QED
      BY <1>a, <1>2, <2>a DEF Status, Meet
  <1> QED
    BY <1>1, <1>2

LEMMA DriveWritesStep == IInv /\ DriveWrites => IInv'
  <1> SUFFICES ASSUME IInv, DriveWrites PROVE IInv'
    OBVIOUS
  <1>a. /\ Passed' = Passed /\ job.ts = asked /\ job.data = asked /\ asked \in TS
        /\ ~first /\ cpc \in {"ts", "block", "recv"} /\ ppc # "idle" /\ result = "none"
    BY DEF DriveWrites, Passed
  <1>b. /\ disk' \in [TS -> Contents] /\ flaws' \in 0 .. MaxFlaws /\ done' \in {"ok", "error"}
        /\ \A p \in TS : Good(p) => Good(p)'
        /\ done' = "ok" => Good(asked)'
    <2>1. CASE done' = "error" /\ UNCHANGED <<disk, flaws>>
      BY <2>1
    <2>2. CASE /\ done' = "ok" /\ flaws' <= MaxFlaws
               /\ \E c \in {job.data, Both, Half} :
                     /\ disk' = [disk EXCEPT ![job.ts] = c]
                     /\ flaws' = IF c = job.data THEN flaws ELSE flaws + 1
      <3>1. PICK c \in {asked, Both, Half} :
                     /\ disk' = [disk EXCEPT ![asked] = c]
                     /\ flaws' = IF c = asked THEN flaws ELSE flaws + 1
        BY <1>a, <2>2
      <3>2. c \in Contents /\ disk \in [TS -> Contents] /\ flaws \in Nat /\ MaxFlaws \in Nat
        BY <1>a, D64Assumption DEF Contents
      <3>3. disk' \in [TS -> Contents] /\ flaws' \in 0 .. MaxFlaws
        BY <1>a, <2>2, <3>1, <3>2
      <3>4. \A p \in TS : disk'[p] = IF p = asked THEN c ELSE disk[p]
        BY <3>1, <3>2
      <3>5. \A p \in TS : disk[p] \in {p, Both, Half} => disk'[p] \in {p, Both, Half}
        BY <3>1, <3>4
      <3>6. disk'[asked] \in {asked, Both, Half}
        BY <1>a, <3>1, <3>4
      <3> QED
        BY <1>a, <2>2, <3>3, <3>5, <3>6 DEF DriveWrites
    <2> QED
      BY <2>1, <2>2 DEF DriveWrites
  <1>1. TypeOK'
    BY <1>b DEF DriveWrites
  <1>2. Together'
    BY <1>a DEF DriveWrites
  <1>3. Fresh'
    BY <1>a DEF DriveWrites
  <1>4. Underway'
    BY <1>a DEF DriveWrites
  <1>5. Jobs'
    BY <1>a, <1>b DEF DriveWrites
  <1>6. Compared'
    BY <1>a DEF DriveWrites
  <1>7. AckedIsOnDisk'
    <2> SUFFICES ASSUME NEW p \in acked PROVE Good(p)'
      BY DEF DriveWrites
    <2>1. p \in TS /\ Good(p)
      OBVIOUS
    <2> QED
      BY <1>b, <2>1
  <1>8. OkIsComplete'
    BY <1>a DEF DriveWrites
  <1> QED
    BY <1>1, <1>2, <1>3, <1>4, <1>5, <1>6, <1>7, <1>8

LEMMA ReceiveStep == IInv /\ Receive => IInv'
  <1> SUFFICES ASSUME IInv, Receive PROVE IInv'
    OBVIOUS
  <1>a. Passed' = Passed
    BY DEF Receive, Passed
  <1>b. NoJob \in [ts : TS \cup {End}, data : TS \cup {Old}]
    BY DEF NoJob
  <1> QED
    BY <1>b, <1>a DEF Receive

LEMMA LastStatusStep == IInv /\ LastStatus => IInv'
  <1> SUFFICES ASSUME IInv, LastStatus PROVE IInv'
    OBVIOUS
  <1>a. /\ ppc = "endAck" /\ cpc = "wstatus" /\ ts = End /\ ~first /\ result = "none"
        /\ opt = mode.format /\ mode.format = mode.verify /\ mode.verify \in BOOLEAN
        /\ TS = acked \cup {asked} /\ asked \in TS /\ compared = {} /\ cts = End
        /\ job = NoJob /\ done = "none"
    BY DEF LastStatus, Meet, Passed, Modes
  <1>1. CASE status = "ok" /\ mode.verify
    <2>a. /\ ppc' = "vstatus" /\ result' = "none" /\ ts' = <<1, 0>> /\ ts'[1] = 1
          /\ cpc' = "check" /\ ctrack' = 1 /\ acked' = TS /\ prev' = End
          /\ UNCHANGED <<mode, sent, first, opt, cts, cfirst, status, buffer, drv,
                         asked, compared, flaws, used>>
      BY <1>a, <1>1 DEF LastStatus, Proceed
    <2>b. Good(asked)
      BY <1>a, <1>1
    <2> QED
      BY <1>a, <1>1, <2>a, <2>b, FirstTrack
  <1>2. CASE status = "ok" /\ ~mode.verify
    <2>a. /\ ppc' = "idle" /\ result' = "ok" /\ ts' = ts
          /\ cpc' = "cmd" /\ ctrack' = ctrack /\ acked' = TS /\ prev' = End
          /\ UNCHANGED <<mode, sent, first, opt, cts, cfirst, status, buffer, drv,
                         asked, compared, flaws, used>>
      BY <1>a, <1>2 DEF LastStatus, Finish
    <2>b. Good(asked)
      BY <1>a, <1>2
    <2> QED
      BY <1>a, <1>2, <2>a, <2>b
  <1>3. CASE status # "ok"
    BY <1>a, <1>3 DEF LastStatus, Finish
  <1> QED
    BY <1>a, <1>1, <1>2, <1>3

LEMMA TrackStatusStep == IInv /\ TrackStatus => IInv'
  <1> SUFFICES ASSUME IInv, TrackStatus PROVE IInv'
    OBVIOUS
  <1>a. /\ ts[1] \in Tracks /\ ctrack = ts[1] /\ mode.verify /\ acked = TS /\ job = NoJob
        /\ ts[1] \in 1 .. NumTracks /\ NumTracks \in Nat /\ Tracks = 1 .. NumTracks
        /\ compared = 1 .. ts[1] - 1 /\ result = "none"
        /\ \A p \in TS : p[1] \in compared => disk[p] \in {p, Half}
    BY D64Assumption DEF TrackStatus, Meet, Tracks
  <1>1. CASE status = "ok"
    <2>a. /\ ppc' = "vdata" /\ cpc' = "vdata" /\ result' = result
          /\ UNCHANGED <<ts, sent, mode, first, c64Data, drv, history>>
      BY <1>1 DEF TrackStatus, Proceed
    <2> QED
      BY <1>a, <1>1, <2>a
  <1>2. CASE status # "ok" /\ ts[1] + 1 \in Tracks
    <2>a. /\ ppc' = "vstatus" /\ cpc' = "cmd" /\ result' = result /\ ts' \in TS
          /\ UNCHANGED <<sent, mode, first, c64Data, drv, history>>
      BY <1>2, Places DEF TrackStatus, Verified, Proceed
    <2> QED
      BY <1>a, <2>a
  <1>3. CASE status # "ok" /\ ts[1] + 1 \notin Tracks
    <2>a. /\ ppc' = "idle" /\ cpc' = "cmd" /\ result' = "ok"
          /\ UNCHANGED <<ts, sent, mode, first, c64Data, drv, history>>
      BY <1>3 DEF TrackStatus, Verified, Finish
    <2>b. Tracks \ compared \subseteq {NumTracks}
      BY <1>a, <1>3
    <2> QED
      BY <1>a, <2>a, <2>b
  <1> QED
    BY <1>1, <1>2, <1>3

LEMMA TrackDataStep == IInv /\ TrackData => IInv'
  <1> SUFFICES ASSUME IInv, TrackData PROVE IInv'
    OBVIOUS
  <1>a. /\ ts[1] \in Tracks /\ ctrack = ts[1] /\ mode.verify /\ acked = TS /\ job = NoJob
        /\ ts[1] \in 1 .. NumTracks /\ NumTracks \in Nat /\ Tracks = 1 .. NumTracks
        /\ compared = 1 .. ts[1] - 1 /\ result = "none"
        /\ \A p \in TS : p[1] \in compared => disk[p] \in {p, Half}
    BY D64Assumption DEF TrackData, Meet, Tracks
  <1>b. /\ compared' = 1 .. ts[1] /\ compared' \subseteq Tracks
        /\ \A t \in compared' : t \in compared \/ t = ts[1]
    BY <1>a DEF TrackData
  <1>c. ppc' # "bad" => \A p \in TS : p[1] \in compared' => disk[p] \in {p, Half}
    <2> SUFFICES ASSUME ppc' # "bad", NEW p \in TS, p[1] \in compared' PROVE disk[p] \in {p, Half}
      OBVIOUS
    <2>1. Matches(ts[1])
      BY DEF TrackData, Proceed
    <2>2. p = <<p[1], p[2]>> /\ p[2] \in 0 .. Sectors[p[1]] - 1
      BY Places
    <2>3. CASE p[1] = ts[1]
      BY <2>1, <2>2, <2>3 DEF Matches
    <2> QED
      BY <1>a, <1>b, <2>3
  <1>d. /\ ppc' \in {"good", "bad"} /\ cpc' = "vresult" /\ result' = result
        /\ UNCHANGED <<pcData, c64Data, drv, asked, acked, flaws, used>>
    BY DEF TrackData, Proceed
  <1> QED
    BY <1>a, <1>b, <1>c, <1>d

LEMMA TrackGoodStep == IInv /\ TrackGood => IInv'
  <1> SUFFICES ASSUME IInv, TrackGood PROVE IInv'
    OBVIOUS
  <1>a. /\ ts[1] \in Tracks /\ ctrack = ts[1] /\ mode.verify /\ acked = TS /\ job = NoJob
        /\ ts[1] \in 1 .. NumTracks /\ NumTracks \in Nat /\ Tracks = 1 .. NumTracks
        /\ compared = 1 .. ts[1] /\ result = "none"
        /\ \A p \in TS : p[1] \in compared => disk[p] \in {p, Half}
    BY D64Assumption DEF TrackGood, Meet, Tracks
  <1>1. CASE ts[1] + 1 \in Tracks
    <2>a. /\ ppc' = "vstatus" /\ cpc' = "check" /\ result' = result
          /\ ts' \in TS /\ ts'[1] = ts[1] + 1 /\ ctrack' = ts[1] + 1
          /\ UNCHANGED <<sent, mode, first, opt, cts, prev, cfirst, status, buffer, drv, history>>
      <3>1. ts' = <<ts[1] + 1, 0>> /\ ppc' = "vstatus" /\ result' = result /\ sent' = sent
        BY <1>1 DEF TrackGood, Verified, Proceed
      <3>2. cpc' = "check" /\ ctrack' = ts[1] + 1
        BY <1>a, <1>1 DEF TrackGood
      <3>3. <<ts[1] + 1, 0>> \in TS
        BY <1>1, Places, SMTT(60)
      <3> QED
        BY <3>1, <3>2, <3>3 DEF TrackGood
    <2>b. 1 .. ts'[1] - 1 = 1 .. ts[1]
      BY <1>a, <2>a
    <2> QED
      BY <1>a, <1>1, <2>a, <2>b
  <1>2. CASE ts[1] + 1 \notin Tracks
    <2>a. /\ ppc' = "idle" /\ cpc' = "cmd" /\ result' = "ok"
          /\ ctrack' = ctrack /\ ts' = ts
          /\ UNCHANGED <<sent, mode, first, opt, cts, prev, cfirst, status, buffer, drv, history>>
      BY <1>a, <1>2 DEF TrackGood, Verified, Finish
    <2>b. Tracks \ compared \subseteq {NumTracks}
      BY <1>a, <1>2
    <2> QED
      BY <1>a, <2>a, <2>b
  <1> QED
    BY <1>1, <1>2

\* Between sessions the drive has no job, so that another disk is safe.
LEMMA BeginStep ==
    ASSUME IInv, NEW m \in Modes, NEW d \in {"1541", "other", "absent"}, Begin(m, d)
    PROVE  IInv'
  <1>a. /\ cpc \in {"cmd", "opts"} /\ job = NoJob /\ done = "none" /\ used < MaxSessions
        /\ disk' \in [TS -> Contents] /\ MaxSessions \in Nat
    BY D64Assumption DEF Begin, Contents
  <1> QED
    BY <1>a DEF Begin

LEMMA InitStep == Init => IInv
  <1> SUFFICES ASSUME Init PROVE IInv
    OBVIOUS
  <1> USE DEF Init, NoJob
  <1>1. TypeOK
    <2>1. disk \in [TS -> Contents] /\ job \in [ts : TS \cup {End}, data : TS \cup {Old}]
      BY DEF Contents
    <2>2. flaws \in 0 .. MaxFlaws /\ used \in 0 .. MaxSessions
      BY D64Assumption
    <2> QED
      BY <2>1, <2>2
  <1>2. Together
    OBVIOUS
  <1>3. Fresh
    OBVIOUS
  <1>4. Underway
    OBVIOUS
  <1>5. Jobs
    OBVIOUS
  <1>6. Compared
    OBVIOUS
  <1>7. AckedIsOnDisk
    OBVIOUS
  <1>8. OkIsComplete
    OBVIOUS
  <1> QED
    BY <1>1, <1>2, <1>3, <1>4, <1>5, <1>6, <1>7, <1>8

LEMMA StutterStep == IInv /\ UNCHANGED vars => IInv'
  BY DEF vars, Passed

LEMMA NextStep == IInv /\ [Next]_vars => IInv'
  <1>1. IInv /\ Work => IInv'
    BY HandshakeStep, GarbledStep, LoadStep, OptionsStep, InitDriveStep, NoDriveStep, FormatStep, FormattedStep,
       SendTSStep, SendBlockStep, WriteStep, DriveWritesStep, ReceiveStep, StatusStep, LastStatusStep,
       CheckTrackStep, TrackStatusStep, TrackDataStep, TrackGoodStep, TrackBadStep
       DEF Work
  <1>2. IInv /\ (\E m \in Modes, d \in {"1541", "other", "absent"} : Begin(m, d)) => IInv'
    BY BeginStep
  <1> QED
    BY <1>1, <1>2, StutterStep DEF Next

HIDE DEF IInv, TypeOK, Asks, Together, Fresh, Preparing, Underway, Writing, Jobs, Good, Compared,
         Checking, AckedIsOnDisk, OkIsComplete, pc, pcData, c64Data, drv, history

-----------------------------------------------------------------------------
LEMMA Inductive == Spec => []IInv
  <1> QED
    BY InitStep, NextStep, PTL DEF Spec

(***************************************************************************)
(* With every disk, drive and fault: a status that the PC reads belongs to *)
(* the sector it takes it for, and both sides compare the same track.      *)
(***************************************************************************)
THEOREM Lockstep == Spec => []D64Inv
  <1>1. IInv => D64Inv
    <2> SUFFICES ASSUME IInv PROVE D64Inv
      OBVIOUS
    <2> USE DEF IInv
    <2>1. TypeOK
      OBVIOUS
    <2>2. ppc \in {"ack", "endAck"} /\ cpc = "wstatus" => prev = asked
      BY DEF Underway, Writing
    <2>3. ppc \in {"vstatus", "vdata", "good", "bad"} /\ cpc # "cmd" => cpc \in Checking
      BY DEF TypeOK, Together, Checking
    <2>4. ppc \in {"vstatus", "vdata", "good", "bad"} /\ cpc # "cmd" => ctrack = ts[1]
      BY <2>3 DEF Compared
    <2>5. cpc = "block" => ppc = "block" /\ cts = ts
      BY DEF Together, Underway, Writing
    <2> QED
      BY <2>1, <2>2, <2>4, <2>5 DEF D64Inv, InStep
  <1> QED
    BY <1>1, Inductive, PTL

(***************************************************************************)
(* What the PC has been told is written is on the disk, in its own place.  *)
(***************************************************************************)
THEOREM Acknowledged == Spec => []AckedIsOnDisk
  BY Inductive, PTL DEF IInv

(***************************************************************************)
(* "OK" is said when all sectors were written, and after verifying only    *)
(* when all tracks were compared, but possibly the last.                   *)
(***************************************************************************)
THEOREM OkMeansAll == Spec => []OkIsComplete
  BY Inductive, PTL DEF IInv
=============================================================================
