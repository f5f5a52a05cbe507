---------------------------- MODULE ChMonProofs ----------------------------
(***************************************************************************)
(* Proofs about the monitor and its server, for packets, memory and files  *)
(* of every size, and any number of commands: both programs stay in step,  *)
(* files arrive, and commands take effect in the order they were entered.  *)
(***************************************************************************)
EXTENDS ChMon, SequenceTheorems, TLAPS

(***************************************************************************)
(* Packets, and which of them are answered.                                *)
(***************************************************************************)
Packets == [op : Ops, at : Addr, count : Nat, bytes : Seq(Nat)]
Answered == Asks \cup Loops \cup {"XWRITE"}

\* An answer is under way; what the PC gets next of it.
Answering == cpc = "send" /\ (out # <<>> \/ toPC # <<>>)
Given == IF toPC # <<>> THEN toPC ELSE out[1]

HasZero(s) == \E i \in DOMAIN s : s[i] = Zero

Shape ==
    /\ toC64 \in Packets \cup {None, Lost} /\ data \in Packets \cup {None}
    /\ cpc \in {"exec", "fill", "send"} => data \in Packets
    /\ toC64.op = "FILL" => toC64.count \in Addr
    /\ data.op = "FILL" => data.count \in Addr
    /\ \A i \in DOMAIN out : out[i] # <<>>

\* The filling of a region that is not empty has come to ptr.
Filling ==
    cpc = "fill" =>
        /\ data.op = "FILL" /\ data.at # data.count
        /\ Distance(data.at, ptr) < Distance(data.at, data.count)
        /\ \A x \in Addr : Distance(data.at, x) < Distance(data.at, ptr) => ram[x] = Filled

(***************************************************************************)
(* Whose turn it is.                                                       *)
(***************************************************************************)
Turns ==
    /\ toC64.op \in Answered => ppc = "recv" /\ Sent(toC64.op)
    /\ cpc = "exec" /\ data.op \in Answered => ppc = "recv" /\ Sent(data.op) /\ toC64 = None
    /\ Answering => ppc = "recv" /\ Sent(data.op) /\ toC64 = None
    /\ cpc = "send" => data.op \in Answered
    /\ out # <<>> \/ toPC # <<>> => cpc = "send"
    /\ ppc = "recv" =>
          \/ toC64.op \in Answered
          \/ cpc = "exec" /\ data.op \in Answered
          \/ Answering
          \/ cpc = "gone"
          \/ EndlessRead
          \/ toC64 = Lost
    /\ toC64 = Lost => cpc \in {"main", "gone"}

\* Most answers are one packet; a directory ends with the only zero in it.
Replies ==
    /\ Answering /\ data.op \notin {"READ", "DIR"} =>
          \/ toPC = <<>> /\ Len(out) = 1
          \/ toPC # <<>> /\ out = <<>>
    /\ Answering /\ data.op = "DIR" =>
          /\ \A i \in DOMAIN out : HasZero(out[i]) <=> i = Len(out)
          /\ toPC # <<>> => (HasZero(toPC) <=> out = <<>>)

(***************************************************************************)
(* Files.                                                                  *)
(***************************************************************************)
\* Packets of the file that have left the server's buffer.
Taken == Len(Blocks(stream)) - Len(out)

Before(k) == Smaller(k * Packet, Len(stream))

Reading ==
    /\ toC64.op = "READ" \/ (cpc = "exec" /\ data.op = "READ") => file = <<>>
    /\ Answering /\ data.op = "READ" =>
          /\ Taken \in Nat
          /\ \A i \in DOMAIN out : out[i] = Blocks(stream)[Taken + i]
          /\ IF toPC = <<>>
             THEN file = SubSeq(stream, 1, Before(Taken))
             ELSE /\ Taken >= 1 /\ toPC = Blocks(stream)[Taken]
                  /\ file = SubSeq(stream, 1, Before(Taken - 1))
    /\ pcmd = "READ" /\ ppc = "prompt" =>
          /\ file = stream
          /\ toC64 = None /\ cpc \in {"send", "main", "gone"}

\* What the drive sent was the file, or began with it.
Origin ==
    (Answering /\ data.op = "READ") \/ (pcmd = "READ" /\ ppc = "prompt") =>
        stream \in Cuts \cup {disk}

\* What of the file has been sent.
Part == SubSeq(file, 1, Len(file) - left)

Opening == left = Len(file) /\ ~eof

Stored(s) == wopen = "open" /\ disk \o s = Part

Writing ==
    /\ pcmd \in {"WRITE", "PUT"} => left <= Len(file) /\ (eof => left = 0)
    /\ toC64.op = "WRITE" \/ (cpc = "exec" /\ data.op = "WRITE") => Opening
    /\ Answering /\ data.op = "WRITE" =>
          /\ Opening
          /\ Given[1] = Fail \/ (clean => Stored(<<>>))
    /\ toC64.op = "XWRITE" => cpc \in {"send", "main", "gone"} /\ (clean => Stored(toC64.bytes))
    /\ clean /\ cpc = "exec" /\ data.op = "XWRITE" => Stored(data.bytes)
    /\ clean /\ Answering /\ data.op = "XWRITE" => Stored(<<>>)
    /\ pcmd = "WRITE" /\ ppc = "more" =>
          /\ toC64 = None /\ cpc \in {"send", "main", "gone"}
          /\ clean => Stored(<<>>)
    /\ pcmd = "WRITE" /\ ppc = "prompt" =>
          /\ toC64.op \in {"none", "XDONE"} /\ cpc \in {"exec", "send", "main", "gone"}
          /\ cpc = "exec" => data.op = "XDONE"
          /\ clean => disk = file

(***************************************************************************)
(* Memory.                                                                 *)
(***************************************************************************)
State == [mode |-> access, ram |-> ram, reu |-> reu]

Effect(p, s) ==
    CASE p.op \in Modes -> [s EXCEPT !.mode = p.op]
      [] p.op = "INIT" -> [s EXCEPT !.mode = "ROM"]
      [] p.op = "POKE" -> [s EXCEPT !.ram = Store(@, p.at, p.bytes)]
      [] p.op = "FILL" -> [s EXCEPT !.ram = Fill(@, p.at, p.count)]
      [] p.op = "PUT" /\ s.mode = "REU" -> [s EXCEPT !.reu = Store(@, p.at, p.bytes)]
      [] p.op = "PUT" /\ s.mode # "REU" -> [s EXCEPT !.ram = Store(@, p.at, p.bytes)]
      [] OTHER -> s

\* What the server makes of the packet it is at.
Present == IF cpc \in {"exec", "fill"} THEN Effect(data, State) ELSE State

Pending == clean /\ cpc # "gone" /\ toC64 # Lost => must = Effect(toC64, Present)

\* Only a packet that is not clean is empty.
Counts ==
    /\ clean /\ toC64.op \in {"PUT", "XWRITE"} => toC64.count # 0
    /\ clean /\ cpc = "exec" /\ data.op \in {"PUT", "XWRITE"} => data.count # 0

Asked(p) == p.at = at /\ p.count = Step /\ left > 0

Getting ==
    /\ toC64.op = "GET" => Asked(toC64)
    /\ cpc = "exec" /\ data.op = "GET" => Asked(data)
    /\ clean /\ Answering /\ data.op = "GET" =>
          Given = View(must.mode, must.ram, must.reu, at, Step)

IInv ==
    /\ TypeOK /\ Shape /\ Filling /\ Turns /\ Replies
    /\ Reading /\ Origin /\ Writing
    /\ Pending /\ Counts /\ Getting

-----------------------------------------------------------------------------
(***************************************************************************)
(* Numbers, memory and sequences.                                          *)
(***************************************************************************)
LEMMA Consts ==
    /\ Packet \in Nat /\ Packet >= 1 /\ Top \in Nat
    /\ Size \in Nat /\ Size = Top + 1 /\ Page \in Nat /\ Page > Packet /\ Page <= Size
    /\ 0 \in Addr
    /\ Zero \in Nat /\ Fail \in Nat /\ Poked \in Nat /\ Filled \in Nat /\ Rom \in Nat /\ Junk \in Nat
    /\ Zero # Fail
BY MonAssumption DEF Size, Addr, Zero, Fail, Poked, Filled, Rom, Junk

LEMMA Wrap ==
    ASSUME NEW n \in Int
    PROVE  n % Size \in Addr
<1>1. Size \in Nat /\ Size > 0 /\ Size = Top + 1 /\ Top \in Nat
    BY Consts
<1>2. n % Size \in 0 .. Size - 1
    BY <1>1
<1> QED
    BY <1>1, <1>2 DEF Addr

LEMMA DistanceType ==
    ASSUME NEW a \in Addr, NEW b \in Addr
    PROVE  /\ Distance(a, b) \in 0 .. Top
           /\ Distance(a, b) = IF b >= a THEN b - a ELSE b - a + Size
<1>1. a \in Int /\ b \in Int /\ 0 <= a /\ a <= Top /\ 0 <= b /\ b <= Top /\ Size = Top + 1 /\ Top \in Nat
    BY Consts DEF Addr
<1>2. CASE b >= a
    <2>1. b - a + Size = (b - a) + 1 * Size /\ b - a \in 0 .. Size - 1
        BY <1>1, <1>2
    <2>2. (b - a + Size) % Size = b - a
        BY <1>1, <2>1
    <2> QED
        BY <1>1, <1>2, <2>1, <2>2 DEF Distance
<1>3. CASE b < a
    <2>1. b - a + Size \in 0 .. Size - 1
        BY <1>1, <1>3
    <2>2. (b - a + Size) % Size = b - a + Size
        BY <1>1, <2>1
    <2> QED
        BY <1>1, <1>3, <2>1, <2>2 DEF Distance
<1> QED
    BY <1>1, <1>2, <1>3

\* The pointer of a fill moves on by one, and stops where it should.
LEMMA DistanceNext ==
    ASSUME NEW a \in Addr, NEW b \in Addr, NEW p \in Addr, Distance(a, p) < Distance(a, b)
    PROVE  /\ (p + 1) % Size \in Addr
           /\ Distance(a, (p + 1) % Size) = Distance(a, p) + 1
           /\ (p + 1) % Size # b => Distance(a, p) + 1 < Distance(a, b)
           /\ \A x \in Addr : Distance(a, x) = Distance(a, p) => x = p
<1>1. /\ a \in 0 .. Top /\ b \in 0 .. Top /\ p \in 0 .. Top /\ Size = Top + 1 /\ Top \in Nat
      /\ Distance(a, b) = (IF b >= a THEN b - a ELSE b - a + Size)
      /\ Distance(a, p) = (IF p >= a THEN p - a ELSE p - a + Size)
    BY Consts, DistanceType DEF Addr
<1> DEFINE q == (p + 1) % Size
<1>2. q = IF p = Top THEN 0 ELSE p + 1
    <2>1. CASE p = Top
        <3>1. p + 1 = Size /\ Size \in Nat /\ Size > 0
            BY <1>1, <2>1
        <3> QED
            BY <2>1, <3>1
    <2>2. CASE p # Top
        <3>1. p + 1 \in 0 .. Size - 1 /\ Size \in Nat /\ Size > 0
            BY <1>1, <2>2
        <3> QED
            BY <2>2, <3>1
    <2> QED
        BY <2>1, <2>2
<1> HIDE DEF q
<1>3. q \in Addr
    BY <1>1, <1>2 DEF Addr
<1>4. Distance(a, q) = IF q >= a THEN q - a ELSE q - a + Size
    BY <1>3, DistanceType
<1>5. \A x \in Addr : Distance(a, x) = IF x >= a THEN x - a ELSE x - a + Size
    BY DistanceType
<1>6. Distance(a, q) = Distance(a, p) + 1 /\ (q # b => Distance(a, p) + 1 < Distance(a, b))
    BY <1>1, <1>2, <1>4
<1>7. \A x \in Addr : Distance(a, x) = Distance(a, p) => x = p
    BY <1>1, <1>5 DEF Addr
<1> QED
    BY <1>3, <1>6, <1>7 DEF q

Memory == [Addr -> Nat]

LEMMA StoreType ==
    ASSUME NEW m \in Memory, NEW a \in Addr, NEW s \in Seq(Nat)
    PROVE  Store(m, a, s) \in Memory
<1> SUFFICES ASSUME NEW x \in Addr
             PROVE  (IF Distance(a, x) < Len(s) THEN s[Distance(a, x) + 1] ELSE m[x]) \in Nat
    BY DEF Store, Memory
<1>1. Distance(a, x) \in Nat /\ Len(s) \in Nat
    BY DistanceType, Consts
<1> QED
    BY <1>1 DEF Memory

LEMMA FillType ==
    ASSUME NEW m \in Memory, NEW a \in Addr, NEW b \in Addr
    PROVE  Fill(m, a, b) \in Memory
BY Consts DEF Fill, Memory

LEMMA ViewType ==
    ASSUME NEW mode, NEW m \in Memory, NEW r \in Memory, NEW a \in Addr, NEW n \in Nat
    PROVE  View(mode, m, r, a, n) \in Seq(Nat) /\ Len(View(mode, m, r, a, n)) = n
<1>1. ASSUME NEW i \in 1 .. n PROVE Cell(mode, m, r, (a + i - 1) % Size) \in Nat
    <2>1. a + i - 1 \in Int
        BY DEF Addr
    <2>2. (a + i - 1) % Size \in Addr
        BY <2>1, Wrap
    <2> QED
        BY <2>2, Consts DEF Cell, Memory
<1>2. View(mode, m, r, a, n) \in [1 .. n -> Nat]
    BY <1>1 DEF View
<1> QED
    BY <1>2

LEMMA SmallerType ==
    ASSUME NEW m \in Nat, NEW n \in Nat
    PROVE  Smaller(m, n) \in Nat /\ Smaller(m, n) <= m /\ Smaller(m, n) <= n
BY DEF Smaller

LEMMA FileType ==
    ASSUME NEW n \in Nat
    PROVE  /\ File(n) \in Seq(Nat) /\ Len(File(n)) = n
           /\ \A i \in 1 .. n : File(n)[i] = i
<1>1. File(n) \in [1 .. n -> Nat]
    BY DEF File
<1> QED
    BY <1>1 DEF File

LEMMA CountedType ==
    ASSUME NEW p \in Packets
    PROVE  Counted(p) \in Seq(Nat)
<1>1. [i \in 1 .. Page |-> Junk] \in Seq(Nat)
    <2>1. [i \in 1 .. Page |-> Junk] \in [1 .. Page -> Nat]
        BY Consts
    <2> QED
        BY <2>1, Consts
<1> QED
    BY <1>1 DEF Counted, Packets

LEMMA Segment ==
    ASSUME NEW f \in Seq(Nat), NEW m \in Nat, NEW n \in Nat, m >= 1, n <= Len(f)
    PROVE  /\ SubSeq(f, m, n) \in Seq(Nat)
           /\ Len(SubSeq(f, m, n)) = IF m <= n THEN n - m + 1 ELSE 0
           /\ \A i \in 1 .. n - m + 1 : SubSeq(f, m, n)[i] = f[m + i - 1]
<1>1. \A i \in m .. n : f[i] \in Nat
    <2> SUFFICES ASSUME NEW i \in m .. n PROVE f[i] \in Nat
        OBVIOUS
    <2>1. i \in 1 .. Len(f)
        OBVIOUS
    <2> QED
        BY <2>1
<1>2. m \in Int /\ n \in Int
    OBVIOUS
<1> QED
    BY <1>1, <1>2, SubSeqProperties

\* What a packet takes of the file is what is missing in front.
LEMMA ChunkFacts ==
    ASSUME NEW f \in Seq(Nat), NEW l \in Nat, l <= Len(f)
    PROVE  LET c == SubSeq(f, Len(f) - l + 1, Len(f) - l + Smaller(l, Packet)) IN
           /\ c \in Seq(Nat) /\ Len(c) = Smaller(l, Packet)
           /\ l - Len(c) \in Nat /\ l - Len(c) <= Len(f)
           /\ l < Packet => l - Len(c) = 0
           /\ l > 0 => Len(c) # 0
           /\ SubSeq(f, 1, Len(f) - l) \o c = SubSeq(f, 1, Len(f) - (l - Len(c)))
<1> DEFINE n == Smaller(l, Packet)
           i == Len(f) - l
           c == SubSeq(f, i + 1, i + n)
<1>1. n \in Nat /\ n <= l /\ n <= Packet /\ (l < Packet => n = l) /\ (l > 0 => n # 0)
    BY Consts DEF Smaller
<1>2. i \in Nat /\ i + n <= Len(f) /\ Len(f) \in Nat
    BY <1>1
<1>3. l - n \in Nat /\ l - n <= Len(f) /\ Len(f) - (l - n) = i + n
    BY <1>1, <1>2
<1> HIDE DEF n, i
<1>5. c \in Seq(Nat) /\ Len(c) = n
    <2> DEFINE m == i + 1
               e == i + n
    <2>1. m \in Nat /\ e \in Nat /\ m >= 1 /\ e <= Len(f)
        BY <1>1, <1>2
    <2>2. (IF m <= e THEN e - m + 1 ELSE 0) = n
        BY <1>1, <1>2
    <2> HIDE DEF m, e
    <2>3. SubSeq(f, m, e) \in Seq(Nat) /\ Len(SubSeq(f, m, e)) = n
        BY <2>1, <2>2, Segment
    <2> QED
        BY <2>3 DEF m, e
<1>6. SubSeq(f, 1, i) \o c = SubSeq(f, 1, i + n)
    <2>1. 1 \in 1 .. Len(f) + 1 /\ i \in 1 - 1 .. Len(f) /\ i + n \in i .. Len(f)
        BY <1>1, <1>2
    <2> QED
        BY <2>1, ConcatAdjacentSubSeq
<1> HIDE DEF c
<1>7. /\ c \in Seq(Nat) /\ Len(c) = n
      /\ l - Len(c) \in Nat /\ l - Len(c) <= Len(f)
      /\ l < Packet => l - Len(c) = 0
      /\ l > 0 => Len(c) # 0
      /\ SubSeq(f, 1, i) \o c = SubSeq(f, 1, Len(f) - (l - Len(c)))
    <2>1. Len(c) = n /\ c \in Seq(Nat)
        BY <1>5
    <2>2. Len(f) - (l - Len(c)) = i + n
        BY <1>3, <2>1
    <2>3. l - Len(c) \in Nat /\ l - Len(c) <= Len(f) /\ (l < Packet => l - Len(c) = 0)
        BY <1>1, <1>3, <2>1
    <2> QED
        BY <1>1, <1>6, <2>1, <2>2, <2>3
<1> QED
    BY <1>7 DEF c, i, n

-----------------------------------------------------------------------------
(***************************************************************************)
(* What putbyte makes of a stream.                                         *)
(***************************************************************************)
LEMMA BlockCount ==
    ASSUME NEW s \in Seq(Nat)
    PROVE  /\ Len(Blocks(s)) \in Nat /\ DOMAIN Blocks(s) = 1 .. Len(Blocks(s))
           /\ Blocks(s) = [k \in DOMAIN Blocks(s) |-> Blocks(s)[k]]
           /\ \A k \in DOMAIN Blocks(s) :
                 Blocks(s)[k] = SubSeq(s, (k - 1) * Packet + 1, Smaller(k * Packet, Len(s)))
           /\ Len(s) <= Len(Blocks(s)) * Packet
           /\ \A k \in 1 .. Len(Blocks(s)) :
                 /\ (k - 1) * Packet \in Nat /\ k * Packet = (k - 1) * Packet + Packet
                 /\ (k - 1) * Packet < Len(s)
                 /\ k < Len(Blocks(s)) => k * Packet < Len(s)
<1> DEFINE n == (Len(s) + Packet - 1) \div Packet
<1>1. /\ n \in Nat /\ Len(s) \in Nat
      /\ n * Packet \in Nat
      /\ n * Packet <= Len(s) + Packet - 1 /\ Len(s) + Packet - 1 < n * Packet + Packet
    <2> DEFINE m == Len(s) + Packet - 1
    <2>1. m \in Nat /\ Packet \in Nat /\ Packet > 0 /\ Len(s) \in Nat
        BY Consts
    <2>2. n = m \div Packet
        OBVIOUS
    <2> HIDE DEF m, n
    <2>3. m \div Packet \in Nat /\ m % Packet \in 0 .. Packet - 1 /\ m = Packet * (m \div Packet) + (m % Packet)
        BY <2>1
    <2>4. n \in Nat /\ n * Packet \in Nat /\ n * Packet <= m /\ m < n * Packet + Packet
        BY <2>1, <2>2, <2>3
    <2> QED
        BY <2>1, <2>4 DEF m
<1>2. /\ Len(Blocks(s)) = n /\ DOMAIN Blocks(s) = 1 .. n
      /\ Blocks(s) = [k \in DOMAIN Blocks(s) |-> Blocks(s)[k]]
      /\ \A k \in DOMAIN Blocks(s) :
            Blocks(s)[k] = SubSeq(s, (k - 1) * Packet + 1, Smaller(k * Packet, Len(s)))
    <2>1. Blocks(s) = [k \in 1 .. n |-> SubSeq(s, (k - 1) * Packet + 1, Smaller(k * Packet, Len(s)))]
        BY DEF Blocks
    <2> HIDE DEF n
    <2>2. DOMAIN Blocks(s) = 1 .. n
        BY <2>1
    <2>3. \A k \in 1 .. n :
             Blocks(s)[k] = SubSeq(s, (k - 1) * Packet + 1, Smaller(k * Packet, Len(s)))
        BY <2>1
    <2>4. Blocks(s) = [k \in DOMAIN Blocks(s) |-> Blocks(s)[k]]
        BY <2>1, <2>2, <2>3, Zenon
    <2>5. Len(Blocks(s)) = n
        BY <1>1, <2>1
    <2> QED
        BY <2>2, <2>3, <2>4, <2>5
<1> HIDE DEF n
<1>3. Len(s) <= n * Packet
    BY <1>1, Consts
<1>4. ASSUME NEW k \in 1 .. n
      PROVE  /\ (k - 1) * Packet \in Nat /\ k * Packet = (k - 1) * Packet + Packet
             /\ (k - 1) * Packet < Len(s)
             /\ k < n => k * Packet < Len(s)
    <2>1. n - k \in Nat /\ n = k + (n - k) /\ k \in Nat /\ k - 1 \in Nat
        BY <1>1
    <2>2. k * Packet = (k - 1) * Packet + Packet /\ (k - 1) * Packet \in Nat
        BY <2>1, Consts
    <2>3. n * Packet = k * Packet + (n - k) * Packet /\ (n - k) * Packet >= 0
        BY <2>1, <1>1, Consts
    <2>4. k < n => (n - k) * Packet >= Packet
        <3>1. SUFFICES ASSUME k < n PROVE (n - k) * Packet >= Packet
            OBVIOUS
        <3>2. PICK d \in Nat : n - k = 1 + d
            <4>1. n - k = 1 + (n - k - 1) /\ n - k - 1 \in Nat
                BY <1>1, <2>1, <3>1
            <4> QED
                BY <4>1
        <3>3. (1 + d) * Packet = Packet + d * Packet /\ d * Packet >= 0
            BY <3>2, Consts
        <3> QED
            BY <3>2, <3>3, Consts
    <2> DEFINE u == k * Packet
               v == (n - k) * Packet
               w == (k - 1) * Packet
               x == n * Packet
    <2>5. /\ u = w + Packet /\ w \in Nat /\ x = u + v /\ v >= 0 /\ (k < n => v >= Packet)
          /\ x <= Len(s) + Packet - 1 /\ v \in Int /\ u \in Int
        BY <2>1, <2>2, <2>3, <2>4, <1>1, Consts
    <2> HIDE DEF u, v, w, x
    <2>6. w < Len(s) /\ (k < n => u < Len(s))
        BY <2>5, <1>1, Consts
    <2> QED
        BY <2>2, <2>6 DEF u, w
<1> QED
    BY <1>1, <1>2, <1>3, <1>4

\* Of nothing there is no packet.
LEMMA NoBlocks == Blocks(<<>>) = <<>>
<1>1. Len(<<>>) = 0 /\ <<>> \in Seq(Nat)
    OBVIOUS
<1>2. (0 + Packet - 1) \div Packet = 0
    BY Consts
<1>3. 1 .. (Len(<<>>) + Packet - 1) \div Packet = {}
    BY <1>1, <1>2
<1> QED
    BY <1>3 DEF Blocks

LEMMA BlockAt ==
    ASSUME NEW s \in Seq(Nat), NEW k \in 1 .. Len(Blocks(s))
    PROVE  LET a == (k - 1) * Packet
               b == Smaller(k * Packet, Len(s)) IN
           /\ a \in Nat /\ b \in Nat /\ a < b /\ b <= Len(s) /\ b - a <= Packet
           /\ k < Len(Blocks(s)) => b - a = Packet /\ b < Len(s)
           /\ k = Len(Blocks(s)) => b = Len(s)
           /\ Blocks(s)[k] = SubSeq(s, a + 1, b)
           /\ Blocks(s)[k] \in Seq(Nat) /\ Len(Blocks(s)[k]) = b - a
           /\ \A i \in 1 .. b - a : Blocks(s)[k][i] = s[a + i]
<1> DEFINE a == (k - 1) * Packet
           u == k * Packet
           b == Smaller(u, Len(s))
           n == Len(Blocks(s))
<1>1. /\ n \in Nat /\ k \in 1 .. n /\ a \in Nat /\ u = a + Packet /\ a < Len(s)
      /\ k < n => u < Len(s)
      /\ k = n => Len(s) <= u
    BY BlockCount
<1>2. Len(s) \in Nat
    OBVIOUS
<1>3. Blocks(s)[k] = SubSeq(s, a + 1, b)
    BY BlockCount
<1> HIDE DEF n, u, a
<1>4. /\ b \in Nat /\ a < b /\ b <= Len(s) /\ b - a <= Packet
      /\ k < n => b - a = Packet /\ b < Len(s)
      /\ k = n => b = Len(s)
    BY <1>1, <1>2, Consts DEF Smaller
<1> HIDE DEF b
<1>5. /\ SubSeq(s, a + 1, b) \in Seq(Nat) /\ Len(SubSeq(s, a + 1, b)) = b - a
      /\ \A i \in 1 .. b - a : SubSeq(s, a + 1, b)[i] = s[a + i]
    <2> DEFINE m == a + 1
    <2>1. m \in Nat /\ m >= 1 /\ b - m + 1 = b - a /\ m <= b /\ b \in Nat /\ b <= Len(s)
        BY <1>1, <1>4
    <2>2. \A i \in 1 .. b - a : m + i - 1 = a + i
        BY <1>1, <1>4
    <2> HIDE DEF m
    <2>3. /\ SubSeq(s, m, b) \in Seq(Nat) /\ Len(SubSeq(s, m, b)) = b - m + 1
          /\ \A i \in 1 .. b - m + 1 : SubSeq(s, m, b)[i] = s[m + i - 1]
        BY <2>1, Segment
    <2>4. \A i \in 1 .. b - a : SubSeq(s, m, b)[i] = s[a + i]
        BY <2>1, <2>2, <2>3
    <2> QED
        BY <2>1, <2>3, <2>4 DEF m
<1> QED
    BY <1>1, <1>3, <1>4, <1>5 DEF a, b, n, u

LEMMA BlocksType ==
    ASSUME NEW s \in Seq(Nat)
    PROVE  /\ Blocks(s) \in Seq(Seq(Nat)) /\ DOMAIN Blocks(s) = 1 .. Len(Blocks(s))
           /\ \A k \in DOMAIN Blocks(s) : Blocks(s)[k] # <<>>
<1>1. Len(Blocks(s)) \in Nat
    BY BlockCount
<1>2. \A k \in 1 .. Len(Blocks(s)) : Blocks(s)[k] \in Seq(Nat) /\ Blocks(s)[k] # <<>>
    <2> SUFFICES ASSUME NEW k \in 1 .. Len(Blocks(s))
                 PROVE  Blocks(s)[k] \in Seq(Nat) /\ Blocks(s)[k] # <<>>
        OBVIOUS
    <2>1. Blocks(s)[k] \in Seq(Nat) /\ Len(Blocks(s)[k]) > 0
        BY BlockAt
    <2> QED
        BY <2>1
<1>3. DOMAIN Blocks(s) = 1 .. Len(Blocks(s)) /\ Blocks(s) = [k \in DOMAIN Blocks(s) |-> Blocks(s)[k]]
    BY BlockCount
<1>4. Blocks(s) \in [1 .. Len(Blocks(s)) -> Seq(Nat)]
    BY <1>2, <1>3
<1> QED
    BY <1>1, <1>2, <1>3, <1>4

\* A directory, or the answer of a drive: the zero is in the last packet.
LEMMA ListingBlocks ==
    ASSUME NEW n \in Nat, NEW s, s = Append(File(n), Zero)
    PROVE  /\ s \in Seq(Nat) /\ Len(Blocks(s)) >= 1
           /\ \A k \in DOMAIN Blocks(s) : HasZero(Blocks(s)[k]) <=> k = Len(Blocks(s))
           /\ n <= Packet - 1 => Len(Blocks(s)) = 1
<1>1. /\ s \in Seq(Nat) /\ Len(s) = n + 1 /\ s[n + 1] = Zero
      /\ \A i \in 1 .. n : s[i] = i
    <2>1. File(n) \in Seq(Nat) /\ Len(File(n)) = n /\ \A i \in 1 .. n : File(n)[i] = i
        BY FileType
    <2>2. Zero \in Nat
        BY Consts
    <2> QED
        BY <2>1, <2>2, AppendProperties
<1>2. Len(Blocks(s)) \in Nat /\ Len(s) <= Len(Blocks(s)) * Packet /\ DOMAIN Blocks(s) = 1 .. Len(Blocks(s))
    BY <1>1, BlockCount
<1>3. Len(Blocks(s)) >= 1
    <2>1. Len(Blocks(s)) = 0 => Len(Blocks(s)) * Packet = 0
        BY Consts
    <2> QED
        BY <1>1, <1>2, <2>1
<1>4. ASSUME NEW k \in 1 .. Len(Blocks(s))
      PROVE  HasZero(Blocks(s)[k]) <=> k = Len(Blocks(s))
    <2> DEFINE a == (k - 1) * Packet
               b == Smaller(k * Packet, Len(s))
               t == Blocks(s)[k]
    <2>1. /\ a \in Nat /\ b \in Nat /\ a < b /\ b <= Len(s)
          /\ k < Len(Blocks(s)) => b < Len(s)
          /\ k = Len(Blocks(s)) => b = Len(s)
          /\ t \in Seq(Nat) /\ Len(t) = b - a
          /\ \A i \in 1 .. b - a : t[i] = s[a + i]
        BY <1>1, BlockAt
    <2> HIDE DEF a, b, t
    <2>2. DOMAIN t = 1 .. b - a
        BY <2>1
    <2>3. CASE k = Len(Blocks(s))
        <3>1. b - a \in 1 .. b - a /\ a + (b - a) = n + 1
            BY <1>1, <2>1, <2>3
        <3>2. t[b - a] = Zero
            BY <1>1, <2>1, <3>1
        <3>3. HasZero(t)
            BY <2>2, <3>1, <3>2 DEF HasZero
        <3> QED
            BY <2>3, <3>3 DEF t
    <2>4. CASE k # Len(Blocks(s))
        <3>1. ASSUME NEW i \in 1 .. b - a PROVE t[i] # Zero
            <4>1. k < Len(Blocks(s))
                <5> DEFINE N == Len(Blocks(s))
                <5>1. N \in Nat /\ k \in 1 .. N /\ k # N
                    BY <1>2, <1>4, <2>4
                <5> HIDE DEF N
                <5>2. k < N
                    BY <5>1
                <5> QED
                    BY <5>2 DEF N
            <4>2. b <= n /\ a + i <= b /\ a + i >= 1
                BY <1>1, <2>1, <4>1
            <4>3. a + i \in 1 .. n
                BY <2>1, <4>2
            <4>4. t[i] = a + i
                BY <1>1, <2>1, <4>3
            <4> QED
                BY <4>3, <4>4 DEF Zero
        <3>2. ~HasZero(t)
            BY <2>2, <3>1 DEF HasZero
        <3> QED
            BY <2>4, <3>2 DEF t
    <2> QED
        BY <2>3, <2>4
<1>5. ASSUME n <= Packet - 1 PROVE Len(Blocks(s)) = 1
    <2> SUFFICES ASSUME Len(Blocks(s)) > 1 PROVE FALSE
        BY <1>2, <1>3
    <2>1. 1 \in 1 .. Len(Blocks(s)) /\ 1 < Len(Blocks(s))
        BY <1>2
    <2>2. 1 * Packet < Len(s)
        BY <1>1, <2>1, BlockCount
    <2> QED
        BY <1>1, <1>5, <2>2, Consts
<1> QED
    BY <1>1, <1>2, <1>3, <1>4, <1>5

LEMMA MultipleMod ==
    ASSUME NEW k \in Nat, NEW n \in Nat, n > 0
    PROVE  (k * n) % n = 0
<1> DEFINE m == k * n
           q == m \div n
           r == m % n
<1>1. m \in Nat
    OBVIOUS
<1>2. q \in Nat /\ r \in 0 .. n - 1 /\ m = n * q + r
    <2> HIDE DEF m
    <2> QED
        BY <1>1
<1>3. k * n = q * n + r
    BY <1>2
<1> HIDE DEF q, r, m
<1>4. CASE k <= q
    <2>1. PICK d \in Nat : q = k + d
        <3>1. q - k \in Nat /\ q = k + (q - k)
            BY <1>2, <1>4
        <3> QED
            BY <3>1
    <2>2. (k + d) * n = k * n + d * n /\ d * n >= 0 /\ d * n \in Int /\ k * n \in Int
        BY <2>1
    <2>3. r = 0
        BY <1>2, <1>3, <2>1, <2>2
    <2> QED
        BY <2>3 DEF r, m
<1>5. CASE k > q
    <2>1. PICK d \in Nat : k = q + 1 + d
        <3>1. k - q - 1 \in Nat /\ k = q + 1 + (k - q - 1)
            BY <1>2, <1>5
        <3> QED
            BY <3>1
    <2>2. (q + 1 + d) * n = q * n + n + d * n /\ d * n >= 0 /\ d * n \in Int /\ q * n \in Int
        BY <1>2, <2>1
    <2>3. r >= n
        BY <1>2, <1>3, <2>1, <2>2
    <2> QED
        BY <1>2, <2>3
<1> QED
    BY <1>2, <1>4, <1>5

\* The packets of a file, put together again.
LEMMA BlockJoin ==
    ASSUME NEW s \in Seq(Nat), NEW k \in 1 .. Len(Blocks(s)), NEW t, t = Blocks(s)[k]
    PROVE  /\ SubSeq(s, 1, Smaller((k - 1) * Packet, Len(s))) \o t
                 = SubSeq(s, 1, Smaller(k * Packet, Len(s)))
           /\ Len(t) # Packet => k = Len(Blocks(s))
           /\ k = Len(Blocks(s)) => SubSeq(s, 1, Smaller(k * Packet, Len(s))) = s
           /\ k = Len(Blocks(s)) /\ Len(t) = Packet => Len(s) % Packet = 0
<1> DEFINE a == (k - 1) * Packet
           b == Smaller(k * Packet, Len(s))
           n == Len(Blocks(s))
<1>1. /\ a \in Nat /\ b \in Nat /\ a < b /\ b <= Len(s)
      /\ k < n => b - a = Packet
      /\ k = n => b = Len(s)
      /\ t = SubSeq(s, a + 1, b) /\ Len(t) = b - a
    BY BlockAt
<1>2. Smaller(a, Len(s)) = a
    BY <1>1 DEF Smaller
<1>3. n \in Nat /\ k * Packet = a + Packet
    BY BlockCount
<1>4. k = n /\ Len(t) = Packet => Len(s) % Packet = 0
    <2> SUFFICES ASSUME k = n, Len(t) = Packet PROVE Len(s) % Packet = 0
        OBVIOUS
    <2>1. Len(s) = k * Packet
        BY <1>1, <1>3, SMTT(60)
    <2>2. k \in Nat /\ Packet \in Nat /\ Packet > 0
        BY <1>3, Consts
    <2>3. (k * Packet) % Packet = 0
        BY <2>2, MultipleMod
    <2> QED
        BY <2>1, <2>3
<1> HIDE DEF a, b, n
<1>5. SubSeq(s, 1, a) \o SubSeq(s, a + 1, b) = SubSeq(s, 1, b)
    <2>1. 1 \in 1 .. Len(s) + 1 /\ a \in 1 - 1 .. Len(s) /\ b \in a .. Len(s)
        BY <1>1
    <2> QED
        BY <2>1, ConcatAdjacentSubSeq
<1>6. k = n => SubSeq(s, 1, b) = s
    BY <1>1, SubSeqFull
<1>7. Len(t) # Packet => k = n
    BY <1>1, <1>3 DEF n
<1> QED
    BY <1>1, <1>2, <1>4, <1>5, <1>6, <1>7 DEF a, b, n

-----------------------------------------------------------------------------
(***************************************************************************)
(* The invariant holds at first and is kept by every step.                 *)
(***************************************************************************)
LEMMA PackType ==
    ASSUME NEW op \in Ops, NEW a \in Addr, NEW n \in Nat, NEW s \in Seq(Nat)
    PROVE  /\ Pack(op, a, n, s) \in Packets /\ Pack(op, a, n, s).op = op
           /\ Pack(op, a, n, s).at = a /\ Pack(op, a, n, s).count = n
           /\ Pack(op, a, n, s).bytes = s
BY DEF Pack, Packets

LEMMA PlainType ==
    ASSUME NEW op \in Ops
    PROVE  /\ Plain(op) \in Packets /\ Plain(op).op = op
           /\ Plain(op).count = 0 /\ Plain(op).bytes = <<>>
<1> DEFINE e == <<>>
<1>1. 0 \in Addr /\ 0 \in Nat /\ e \in Seq(Nat)
    BY Consts
<1>2. Plain(op) = Pack(op, 0, 0, e)
    BY DEF Plain
<1> HIDE DEF e
<1>3. /\ Pack(op, 0, 0, e) \in Packets /\ Pack(op, 0, 0, e).op = op
      /\ Pack(op, 0, 0, e).count = 0 /\ Pack(op, 0, 0, e).bytes = e
    BY <1>1, PackType
<1> QED
    BY <1>2, <1>3 DEF e

LEMMA PokeType ==
    ASSUME NEW n \in Nat
    PROVE  [i \in 1 .. n |-> Poked] \in Seq(Nat)
<1>1. [i \in 1 .. n |-> Poked] \in [1 .. n -> Nat]
    BY Consts
<1> QED
    BY <1>1

\* An answer of one packet, which says how it went.
Short(x) == << <<x, Junk>> >>

LEMMA ShortType ==
    /\ \A x \in {Zero, Fail, Junk} :
          /\ Short(x) \in Seq(Seq(Nat)) /\ Len(Short(x)) = 1
          /\ \A i \in DOMAIN Short(x) : Short(x)[i] # <<>>
          /\ Short(x)[1][1] = x
BY Consts DEF Short

\* What the server gets from the drive for a READ.
LEMMA StreamType ==
    ASSUME TypeOK, C64Read
    PROVE  stream' \in Seq(Nat)
<1>1. disk \in Seq(Nat) /\ Len(disk) \in Nat /\ <<Junk>> \in Seq(Nat) /\ <<>> \in Seq(Nat)
    BY Consts DEF TypeOK
<1>2. ASSUME NEW n \in 0 .. Len(disk) - 1
      PROVE  SubSeq(disk, 1, n) \o <<Junk>> \in Seq(Nat)
    <2>1. SubSeq(disk, 1, n) \in Seq(Nat)
        BY <1>1, <1>2
    <2> QED
        BY <1>1, <2>1, ConcatProperties
<1>3. Cuts \subseteq Seq(Nat)
    BY <1>2 DEF Cuts
<1> QED
    BY <1>1, <1>3 DEF C64Read

LEMMA InitTypes == Init => TypeOK /\ Shape
<1> SUFFICES ASSUME Init PROVE TypeOK /\ Shape
    OBVIOUS
<1>1. PICK n \in FileLengths : disk = File(n)
    BY DEF Init
<1>2. disk \in Seq(Nat)
    BY <1>1, FileType, MonAssumption
<1>3. [x \in Addr |-> 0] \in [Addr -> Nat]
    OBVIOUS
<1>7. file \in Seq(Nat) /\ toPC \in Seq(Nat) /\ out \in Seq(Seq(Nat))
    BY EmptySeq DEF Init
<1>4. /\ ppc \in {"prompt", "more", "recv"} /\ pcmd \in CmdOps
      /\ at \in Addr /\ left \in Nat /\ eof \in BOOLEAN
      /\ toC64 = None /\ data = None
      /\ cpc \in {"main", "exec", "fill", "send", "gone"}
      /\ ptr \in Addr
      /\ access \in Modes /\ wopen \in {"open", "refused", "closed"}
      /\ used \in Nat /\ clean \in BOOLEAN
    BY Consts DEF Init, CmdOps, Modes
<1>5. must \in [mode : Modes, ram : [Addr -> Nat], reu : [Addr -> Nat]]
    BY <1>3, <1>4 DEF Init
<1>6. TypeOK
    BY <1>2, <1>3, <1>4, <1>5, <1>7 DEF TypeOK, Init
<1>8. Shape
    BY DEF Shape, Init, None
<1> QED
    BY <1>6, <1>8

LEMMA UserTypes ==
    ASSUME TypeOK, Shape, User
    PROVE  TypeOK' /\ Shape'
<1>1. ASSUME NEW op \in Tells, PCTell(op) PROVE TypeOK' /\ Shape'
    <2>1. op \in Ops /\ op \in CmdOps /\ op # "FILL"
        BY DEF Ops, CmdOps, Tells, Modes
    <2>2. Plain(op) \in Packets /\ Plain(op).op = op
        BY <2>1, PlainType
    <2>3. must' \in [mode : Modes, ram : [Addr -> Nat], reu : [Addr -> Nat]]
        BY <1>1 DEF PCTell, TypeOK, Modes
    <2>4. used' \in Nat /\ pcmd' = op /\ toC64' = Plain(op) /\ toPC' = toPC
        BY <1>1 DEF PCTell, Enter, Send, TypeOK
    <2>5. TypeOK'
        BY <1>1, <2>1, <2>2, <2>3, <2>4 DEF PCTell, TypeOK, server, c64
    <2>6. Shape'
        BY <1>1, <2>1, <2>2, <2>4 DEF PCTell, Shape, server, c64
    <2> QED
        BY <2>5, <2>6
<1>2. ASSUME NEW op \in Asks, PCAsk(op) PROVE TypeOK' /\ Shape'
    <2>1. op \in Ops /\ op \in CmdOps /\ op # "FILL"
        BY DEF Ops, CmdOps, Asks
    <2>2. Plain(op) \in Packets /\ Plain(op).op = op
        BY <2>1, PlainType
    <2>3. used' \in Nat /\ pcmd' = op /\ toC64' = Plain(op) /\ toPC' = toPC
        BY <1>2 DEF PCAsk, Enter, Send, TypeOK
    <2>4. TypeOK'
        BY <1>2, <2>1, <2>2, <2>3 DEF PCAsk, TypeOK, server, c64
    <2>5. Shape'
        BY <1>2, <2>1, <2>2, <2>3 DEF PCAsk, Shape, server, c64
    <2> QED
        BY <2>4, <2>5
<1>3. ASSUME NEW a \in Addr, NEW b \in Addr, PCPoke(a, b) PROVE TypeOK' /\ Shape'
    <2> DEFINE n == b - a
               bytes == [i \in 1 .. n |-> Poked]
    <2>1. n \in Nat
        BY <1>3 DEF PCPoke, Addr
    <2>2. bytes \in Seq(Nat)
        BY <2>1, PokeType
    <2>3. /\ toC64' = Pack("POKE", a, n, bytes) /\ toPC' = toPC
          /\ must' = [must EXCEPT !.ram = Store(@, a, bytes)]
          /\ Enter("POKE") /\ UNCHANGED <<ppc, at, left, file, eof, server, c64, clean, stream>>
        BY <1>3, Zenon DEF PCPoke, Send
    <2> HIDE DEF n, bytes
    <2>4. /\ toC64' \in Packets /\ toC64'.op = "POKE"
          /\ toPC' = toPC /\ used' \in Nat /\ pcmd' = "POKE" /\ "POKE" \in CmdOps /\ "POKE" \in Ops
        <3>1. "POKE" \in Ops /\ "POKE" \in CmdOps
            BY DEF Ops, CmdOps
        <3>2. toC64' \in Packets /\ toC64'.op = "POKE"
            BY <2>1, <2>2, <2>3, <3>1, PackType
        <3> QED
            BY <2>3, <3>1, <3>2, SMTT(60) DEF Enter, TypeOK
    <2>5. must' \in [mode : Modes, ram : [Addr -> Nat], reu : [Addr -> Nat]]
        <3>1. must.ram \in Memory
            BY DEF TypeOK, Memory
        <3>2. Store(must.ram, a, bytes) \in Memory
            BY <2>2, <3>1, StoreType
        <3> QED
            BY <2>3, <3>2 DEF TypeOK, Memory
    <2>6. TypeOK'
        BY <2>3, <2>4, <2>5 DEF TypeOK, server, c64
    <2>7. Shape'
        BY <1>3, <2>4 DEF PCPoke, Shape, server
    <2> QED
        BY <2>6, <2>7
<1>4. ASSUME NEW a \in Addr, NEW b \in Addr, PCFill(a, b) PROVE TypeOK' /\ Shape'
    <2>1. /\ toC64' = Pack("FILL", a, b, <<>>) /\ toPC' = toPC /\ used' \in Nat
          /\ pcmd' = "FILL" /\ must' = [must EXCEPT !.ram = Fill(@, a, b)]
        BY <1>4, SMTT(60) DEF PCFill, Enter, Send, TypeOK
    <2>2. /\ toC64' \in Packets /\ toC64'.op = "FILL" /\ toC64'.count = b
          /\ "FILL" \in Ops /\ "FILL" \in CmdOps
        <3> DEFINE e == <<>>
        <3>1. "FILL" \in Ops /\ "FILL" \in CmdOps /\ b \in Nat /\ e \in Seq(Nat)
            BY DEF Ops, CmdOps, Addr
        <3>2. toC64' = Pack("FILL", a, b, e)
            BY <2>1
        <3> HIDE DEF e
        <3> QED
            BY <3>1, <3>2, PackType
    <2>3. must' \in [mode : Modes, ram : [Addr -> Nat], reu : [Addr -> Nat]]
        <3>1. must.ram \in Memory
            BY DEF TypeOK, Memory
        <3>2. Fill(must.ram, a, b) \in Memory
            BY <3>1, FillType
        <3> QED
            BY <2>1, <3>2 DEF TypeOK, Memory
    <2>4. TypeOK'
        BY <1>4, <2>1, <2>2, <2>3 DEF PCFill, TypeOK, server, c64
    <2>5. Shape'
        BY <1>4, <2>2 DEF PCFill, Shape, server
    <2> QED
        BY <2>4, <2>5
<1>5. ASSUME NEW a \in Addr, NEW b \in Addr, PCGet(a, b) PROVE TypeOK' /\ Shape'
    <2>1. /\ b - a \in Nat /\ used' \in Nat /\ pcmd' = "GET" /\ "GET" \in CmdOps
        BY <1>5 DEF PCGet, Enter, TypeOK, Addr, CmdOps, Loops
    <2>2. TypeOK'
        BY <1>5, <2>1, SMTT(60) DEF PCGet, TypeOK, server, c64, wire
    <2>3. Shape'
        BY <1>5 DEF PCGet, Shape, server, wire
    <2> QED
        BY <2>2, <2>3
<1>6. ASSUME NEW n \in Nat, PCWrite(n) PROVE TypeOK' /\ Shape'
    <2>1. /\ toC64' = Plain("WRITE") /\ toPC' = toPC /\ used' \in Nat
          /\ pcmd' = "WRITE" /\ "WRITE" \in CmdOps /\ "WRITE" \in Ops
        BY <1>6 DEF PCWrite, Enter, Send, TypeOK, CmdOps, Loops, Ops
    <2>2. toC64' \in Packets /\ toC64'.op = "WRITE" /\ File(n) \in Seq(Nat)
        BY <2>1, PlainType, FileType
    <2>3. TypeOK'
        BY <1>6, <2>1, <2>2 DEF PCWrite, TypeOK, server, c64
    <2>4. Shape'
        BY <1>6, <2>2 DEF PCWrite, Shape, server
    <2> QED
        BY <2>3, <2>4
<1>7. ASSUME NEW n \in Nat, NEW a \in Addr, PCPut(n, a) PROVE TypeOK' /\ Shape'
    <2>1. used' \in Nat /\ pcmd' = "PUT" /\ "PUT" \in CmdOps /\ File(n) \in Seq(Nat)
        BY <1>7, FileType DEF PCPut, Enter, TypeOK, CmdOps, Loops
    <2>2. TypeOK'
        BY <1>7, <2>1 DEF PCPut, TypeOK, server, c64, wire
    <2>3. Shape'
        BY <1>7 DEF PCPut, Shape, server, wire
    <2> QED
        BY <2>2, <2>3
<1>8. \A r \in Regions : r[1] \in Addr /\ r[2] \in Addr
    BY MonAssumption
<1>9. FileLengths \subseteq Nat
    BY MonAssumption
<1> QED
    BY <1>1, <1>2, <1>3, <1>4, <1>5, <1>6, <1>7, <1>8, <1>9 DEF User

LEMMA ChunkOf ==
    ASSUME TypeOK, left <= Len(file)
    PROVE  /\ Chunk \in Seq(Nat) /\ Len(Chunk) \in Nat
           /\ left - Len(Chunk) \in Nat /\ left - Len(Chunk) <= Len(file)
           /\ left < Packet => left - Len(Chunk) = 0
           /\ left > 0 => Len(Chunk) # 0
           /\ Part \o Chunk = SubSeq(file, 1, Len(file) - (left - Len(Chunk)))
<1>1. file \in Seq(Nat) /\ left \in Nat
    BY DEF TypeOK
<1>2. /\ Chunk \in Seq(Nat)
      /\ left - Len(Chunk) \in Nat /\ left - Len(Chunk) <= Len(file)
      /\ left < Packet => left - Len(Chunk) = 0
      /\ left > 0 => Len(Chunk) # 0
      /\ Part \o Chunk = SubSeq(file, 1, Len(file) - (left - Len(Chunk)))
    BY <1>1, ChunkFacts DEF Chunk, Part
<1> QED
    BY <1>2

LEMMA StepType ==
    ASSUME TypeOK
    PROVE  /\ Step \in Nat /\ Step <= Packet /\ left - Step \in Nat
           /\ left > 0 => Step >= 1
           /\ (at + Step) % Size \in Addr
<1>1. left \in Nat /\ at \in Addr /\ at \in Int
    BY DEF TypeOK, Addr
<1>2. Step \in Nat /\ Step <= Packet /\ left - Step \in Nat /\ (left > 0 => Step >= 1)
    BY <1>1, Consts DEF Step, Smaller
<1>3. (at + Step) % Size \in Addr
    BY <1>1, <1>2, Wrap
<1> QED
    BY <1>2, <1>3

\* What a packet of data makes of the memory the user has in mind.
LEMMA SendChunkType ==
    ASSUME TypeOK, Writing, PCSendChunk
    PROVE  /\ left <= Len(file)
           /\ toC64' = Pack(IF pcmd = "PUT" THEN "PUT" ELSE "XWRITE", at, Len(Chunk), Chunk)
           /\ toC64' \in Packets
           /\ toC64'.op = IF pcmd = "PUT" THEN "PUT" ELSE "XWRITE"
           /\ toC64'.at = at /\ toC64'.count = Len(Chunk) /\ toC64'.bytes = Chunk
           /\ must' \in [mode : Modes, ram : [Addr -> Nat], reu : [Addr -> Nat]]
<1>1. left <= Len(file) /\ pcmd \in {"WRITE", "PUT"}
    BY DEF Writing, PCSendChunk
<1>2. Chunk \in Seq(Nat) /\ Len(Chunk) \in Nat /\ at \in Addr
    BY <1>1, ChunkOf DEF TypeOK
<1> DEFINE op == IF pcmd = "PUT" THEN "PUT" ELSE "XWRITE"
<1>3. op \in Ops /\ toC64' = Pack(op, at, Len(Chunk), Chunk)
    BY DEF PCSendChunk, Send, Ops, Loops
<1>4. must.ram \in Memory /\ must.reu \in Memory
    BY DEF TypeOK, Memory
<1>5. Store(must.ram, at, Chunk) \in Memory /\ Store(must.reu, at, Chunk) \in Memory
    BY <1>2, <1>4, StoreType
<1>6. /\ pcmd = "PUT" /\ must.mode = "REU" => must' = [must EXCEPT !.reu = Store(@, at, Chunk)]
      /\ pcmd = "PUT" /\ must.mode # "REU" => must' = [must EXCEPT !.ram = Store(@, at, Chunk)]
      /\ pcmd # "PUT" => must' = must
    BY DEF PCSendChunk
<1>7. must' \in [mode : Modes, ram : [Addr -> Nat], reu : [Addr -> Nat]]
    BY <1>5, <1>6 DEF TypeOK, Memory
<1> DEFINE n == Len(Chunk)
<1>8. n \in Nat /\ toC64' = Pack(op, at, n, Chunk)
    BY <1>2, <1>3
<1> HIDE DEF op, n
<1>9. /\ toC64' \in Packets /\ toC64'.op = op
      /\ toC64'.at = at /\ toC64'.count = n /\ toC64'.bytes = Chunk
    BY <1>2, <1>3, <1>8, PackType
<1> QED
    BY <1>1, <1>3, <1>7, <1>9 DEF op, n

LEMMA PCTypes ==
    ASSUME TypeOK, Shape, Writing, PCStep
    PROVE  TypeOK' /\ Shape'
<1>1. CASE PCSendChunk
    <2>1. /\ toC64' \in Packets /\ toC64'.op \in {"PUT", "XWRITE"} /\ toC64'.op \in Ops
          /\ must' \in [mode : Modes, ram : [Addr -> Nat], reu : [Addr -> Nat]]
          /\ left <= Len(file)
        BY <1>1, SendChunkType DEF Ops, Loops
    <2>2. left' \in Nat /\ at' \in Addr
        <3>1. left - Len(Chunk) \in Nat /\ Len(Chunk) \in Nat
            BY <2>1, ChunkOf
        <3>2. (at + Len(Chunk)) % Size \in Addr
            <4>1. at + Len(Chunk) \in Int
                BY <3>1 DEF TypeOK, Addr
            <4> QED
                BY <4>1, Wrap
        <3>3. left' = left - Len(Chunk) /\ (at' = at \/ at' = (at + Len(Chunk)) % Size)
            BY <1>1 DEF PCSendChunk
        <3> QED
            BY <3>1, <3>2, <3>3 DEF TypeOK
    <2>3. ppc' = "recv" /\ eof' \in BOOLEAN /\ clean' \in BOOLEAN /\ toPC' = toPC
        BY <1>1 DEF PCSendChunk, Send, TypeOK
    <2>4. TypeOK'
        BY <1>1, <2>1, <2>2, <2>3 DEF PCSendChunk, TypeOK, server, c64
    <2>5. Shape'
        BY <1>1, <2>1 DEF PCSendChunk, Shape, server
    <2> QED
        BY <2>4, <2>5
<1>2. CASE PCEndWrite
    <2>1. toC64' \in Packets /\ toC64'.op = "XDONE" /\ "XDONE" \in Ops
        BY <1>2, PlainType DEF PCEndWrite, Send, Ops
    <2>2. TypeOK'
        BY <1>2, <2>1 DEF PCEndWrite, Send, TypeOK, server, c64, history
    <2>3. Shape'
        BY <1>2, <2>1 DEF PCEndWrite, Shape, server
    <2> QED
        BY <2>2, <2>3
<1>3. CASE PCEndLoop
    BY <1>3 DEF PCEndLoop, TypeOK, Shape, server, wire, c64, history
<1>4. CASE PCGetByDma
    <2>1. file' \in Seq(Nat) /\ at' \in Addr /\ left' \in Nat
        <3>1. ram \in Memory /\ reu \in Memory /\ at \in Addr /\ Step \in Nat
            BY StepType DEF TypeOK, Memory
        <3>2. View("RAM", ram, reu, at, Step) \in Seq(Nat) /\ file \in Seq(Nat)
            BY <3>1, ViewType DEF TypeOK
        <3> QED
            BY <1>4, <3>2, ConcatProperties, StepType DEF PCGetByDma
    <2>2. TypeOK'
        BY <1>4, <2>1 DEF PCGetByDma, TypeOK, server, wire, c64, history
    <2>3. Shape'
        BY <1>4 DEF PCGetByDma, Shape, server, wire
    <2> QED
        BY <2>2, <2>3
<1>5. CASE PCGetRequest
    <2> DEFINE e == <<>>
    <2>1. toC64' = Pack("GET", at, Step, e) /\ e \in Seq(Nat) /\ "GET" \in Ops /\ at \in Addr /\ Step \in Nat
        BY <1>5, StepType DEF PCGetRequest, Send, Ops, Loops, TypeOK
    <2> HIDE DEF e
    <2>2. toC64' \in Packets /\ toC64'.op = "GET"
        BY <2>1, PackType
    <2>3. TypeOK'
        BY <1>5, <2>1, <2>2 DEF PCGetRequest, Send, TypeOK, server, c64, history
    <2>4. Shape'
        BY <1>5, <2>2 DEF PCGetRequest, Shape, server
    <2> QED
        BY <2>3, <2>4
<1>6. CASE PCRecvGet
    <2>1. file' \in Seq(Nat) /\ at' \in Addr /\ left' \in Nat
        BY <1>6, StepType, ConcatProperties DEF PCRecvGet, TypeOK
    <2>2. toPC' \in Seq(Nat)
        BY <1>6, EmptySeq DEF PCRecvGet, Receive
    <2>3. TypeOK'
        BY <1>6, <2>1, <2>2 DEF PCRecvGet, Receive, TypeOK, server, c64, history
    <2>4. Shape'
        BY <1>6 DEF PCRecvGet, Receive, Shape, server
    <2> QED
        BY <2>3, <2>4
<1>7. CASE PCRecvRead
    <2>1. file' \in Seq(Nat) /\ ppc' \in {"recv", "prompt"}
        BY <1>7, ConcatProperties DEF PCRecvRead, TypeOK
    <2>2. toPC' \in Seq(Nat)
        BY <1>7, EmptySeq DEF PCRecvRead, Receive
    <2>3. TypeOK'
        BY <1>7, <2>1, <2>2 DEF PCRecvRead, Receive, TypeOK, server, c64, history
    <2>4. Shape'
        BY <1>7 DEF PCRecvRead, Receive, Shape, server
    <2> QED
        BY <2>3, <2>4
<1>8. ASSUME Receive, \/ PCRecvDir \/ PCRecvAck \/ PCRecvAnswer
      PROVE  TypeOK' /\ Shape'
    <2>1. toPC' \in Seq(Nat) /\ toC64' = toC64
        BY <1>8, EmptySeq DEF Receive
    <2>2. ppc' \in {"prompt", "more", "recv"} /\ pcmd' \in CmdOps
        BY <1>8 DEF PCRecvDir, PCRecvAck, PCRecvAnswer, TypeOK, CmdOps
    <2>3. UNCHANGED <<at, left, file, eof, server, c64, history>>
        BY <1>8 DEF PCRecvDir, PCRecvAck, PCRecvAnswer
    <2>4. TypeOK'
        BY <2>1, <2>2, <2>3 DEF TypeOK, server, c64, history
    <2>5. Shape'
        BY <2>1, <2>3 DEF Shape, server
    <2> QED
        BY <2>4, <2>5
<1> QED
    BY <1>1, <1>2, <1>3, <1>4, <1>5, <1>6, <1>7, <1>8 DEF PCStep, PCRecvDir, PCRecvAck, PCRecvAnswer

LEMMA C64Types ==
    ASSUME TypeOK, Shape, Getting, C64Step
    PROVE  TypeOK' /\ Shape'
<1>1. CASE C64Take
    <2>1. data' \in Packets /\ toC64' = None /\ data'.op \in Ops
        BY <1>1 DEF C64Take, Shape, TypeOK
    <2>2. TypeOK'
        BY <1>1, <2>1 DEF C64Take, TypeOK, pc, c64, history
    <2>3. Shape'
        <3>1. data'.op = "FILL" => data'.count \in Addr
            BY <1>1 DEF C64Take, Shape
        <3> QED
            BY <1>1, <2>1, <3>1 DEF C64Take, Shape, None
    <2> QED
        BY <2>2, <2>3
<1>2. CASE C64SetRam
    <2>1. access' \in Modes /\ cpc' = "main" /\ out' = out
        BY <1>2 DEF C64SetRam, ToMain, TypeOK, Modes
    <2>2. UNCHANGED <<pc, wire, data, ptr, disk, wopen, ram, reu, history>>
        BY <1>2 DEF C64SetRam
    <2>3. TypeOK'
        BY <2>1, <2>2 DEF TypeOK, pc, wire, history
    <2>4. Shape'
        BY <2>1, <2>2 DEF Shape, wire
    <2> QED
        BY <2>3, <2>4
<1>3. CASE C64Leave
    <2>1. cpc' = "gone" /\ UNCHANGED <<pc, wire, data, out, ptr, c64, history>>
        BY <1>3 DEF C64Leave
    <2> QED
        BY <2>1 DEF TypeOK, Shape, pc, wire, c64, history
<1>17. CASE C64Init
    <2>1. access' \in Modes /\ cpc' = "main" /\ out' = out /\ toC64' \in {None, Lost}
        BY <1>17 DEF C64Init, ToMain, Modes
    <2>2. UNCHANGED <<pc, toPC, data, ptr, disk, wopen, ram, reu, history>>
        BY <1>17 DEF C64Init
    <2>3. TypeOK'
        BY <2>1, <2>2 DEF TypeOK, pc, history
    <2>4. Shape'
        BY <2>1, <2>2 DEF Shape, None, Lost
    <2> QED
        BY <2>3, <2>4
<1>4. CASE C64Poke
    <2>1. data \in Packets
        BY <1>4 DEF C64Poke, Handles, Shape
    <2>2. data.at \in Addr /\ data.bytes \in Seq(Nat) /\ ram \in Memory
        BY <2>1 DEF Packets, TypeOK, Memory
    <2>3. ram' \in [Addr -> Nat]
        BY <1>4, <2>2, StoreType DEF C64Poke, Memory
    <2>4. cpc' = "main" /\ out' = out
        BY <1>4 DEF C64Poke, ToMain
    <2>5. TypeOK'
        BY <1>4, <2>3, <2>4 DEF C64Poke, TypeOK, pc, wire, history
    <2>6. Shape'
        BY <1>4, <2>4 DEF C64Poke, Shape, wire
    <2> QED
        BY <2>5, <2>6
<1>5. CASE C64FillBegin
    <2>1. ptr' \in Addr /\ cpc' = "fill" /\ data \in Packets
        <3>1. data \in Packets
            BY <1>5 DEF C64FillBegin, Handles, Shape
        <3> QED
            BY <1>5, <3>1 DEF C64FillBegin, Packets
    <2>2. TypeOK'
        BY <1>5, <2>1 DEF C64FillBegin, TypeOK, pc, wire, c64, history
    <2>3. Shape'
        BY <1>5, <2>1 DEF C64FillBegin, Shape, wire
    <2> QED
        BY <2>2, <2>3
<1>6. CASE C64FillAll
    <2>1. ram' \in [Addr -> Nat] /\ cpc' = "gone"
        BY <1>6, Consts DEF C64FillAll
    <2>2. TypeOK'
        BY <1>6, <2>1 DEF C64FillAll, TypeOK, pc, wire, history
    <2>3. Shape'
        BY <1>6, <2>1 DEF C64FillAll, Shape, wire
    <2> QED
        BY <2>2, <2>3
<1>7. CASE C64FillStep
    <2>1. ram' \in [Addr -> Nat] /\ ptr' \in Addr /\ cpc' \in {"main", "fill"}
        <3>1. ptr \in Addr /\ ptr + 1 \in Int
            BY DEF TypeOK, Addr
        <3> QED
            BY <1>7, <3>1, Wrap, Consts DEF C64FillStep, TypeOK
    <2>2. TypeOK'
        BY <1>7, <2>1 DEF C64FillStep, TypeOK, pc, wire, history
    <2>3. Shape'
        BY <1>7, <2>1 DEF C64FillStep, Shape, wire
    <2> QED
        BY <2>2, <2>3
<1>8. CASE C64Put
    <2>1. data \in Packets
        BY <1>8 DEF C64Put, Handles, Shape
    <2>2. /\ data.at \in Addr /\ data.bytes \in Seq(Nat) /\ ram \in Memory /\ reu \in Memory
          /\ Counted(data) \in Seq(Nat)
        BY <2>1, CountedType DEF Packets, TypeOK, Memory
    <2>3. ram' \in Memory /\ reu' \in Memory
        <3>1. [x \in Addr |-> Junk] \in Memory
            BY Consts DEF Memory
        <3>2. Store(ram, data.at, Counted(data)) \in Memory /\ Store(reu, data.at, data.bytes) \in Memory
            BY <2>2, StoreType
        <3>3. \/ ram' = ram
              \/ ram' = Store(ram, data.at, Counted(data))
            BY <1>8 DEF C64Put
        <3>4. \/ reu' = reu \/ reu' = [x \in Addr |-> Junk]
              \/ reu' = Store(reu, data.at, data.bytes)
            BY <1>8 DEF C64Put
        <3> QED
            BY <2>2, <3>1, <3>2, <3>3, <3>4
    <2>4. out' \in Seq(Seq(Nat)) /\ (\A i \in DOMAIN out' : out'[i] # <<>>) /\ cpc' = "send"
        BY <1>8, ShortType DEF C64Put, Reply, Short
    <2>5. TypeOK'
        BY <1>8, <2>3, <2>4 DEF C64Put, TypeOK, Memory, pc, wire, history
    <2>6. Shape'
        BY <1>8, <2>1, <2>4 DEF C64Put, Shape, wire
    <2> QED
        BY <2>5, <2>6
<1>9. ASSUME data \in Packets, cpc' = "send", UNCHANGED <<pc, wire, data, ptr, c64>>,
             UNCHANGED <<used, clean, must>>, stream' \in Seq(Nat),
             NEW b \in Seq(Seq(Nat)), out' = b, \A i \in DOMAIN b : b[i] # <<>>
      PROVE  TypeOK' /\ Shape'
    <2>1. TypeOK'
        BY <1>9 DEF TypeOK, pc, wire, c64
    <2>2. Shape'
        BY <1>9 DEF Shape, wire
    <2> QED
        BY <2>1, <2>2
<1>10. CASE C64Get
    <2>1. data \in Packets
        BY <1>10 DEF C64Get, Handles, Shape
    <2> DEFINE v == View(access, ram, reu, data.at, data.count)
    <2>2. data.at \in Addr /\ data.count \in Nat /\ ram \in Memory /\ reu \in Memory
        BY <2>1 DEF Packets, TypeOK, Memory
    <2>3. v \in Seq(Nat) /\ Len(v) = data.count
        BY <2>2, ViewType
    <2>4. /\ out' = <<v>> /\ cpc' = "send" /\ UNCHANGED <<pc, wire, data, ptr, c64>>
          /\ UNCHANGED <<used, clean, must>> /\ stream' \in Seq(Nat)
        BY <1>10 DEF C64Get, Reply, history, TypeOK
    <2>5. data.count # 0
        BY <1>10, StepType DEF C64Get, Handles, Getting, Asked
    <2> HIDE DEF v
    <2>6. v # <<>>
        BY <2>3, <2>5
    <2>7. <<v>> \in Seq(Seq(Nat)) /\ \A i \in DOMAIN <<v>> : <<v>>[i] # <<>>
        BY <2>3, <2>6
    <2> QED
        BY <1>9, <2>1, <2>4, <2>7
<1>11. CASE C64Answer
    <2>1. data \in Packets
        BY <1>11 DEF C64Answer, Handles, Shape
    <2>2. /\ out' = Short(Junk) /\ cpc' = "send" /\ UNCHANGED <<pc, wire, data, ptr, c64>>
          /\ UNCHANGED <<used, clean, must>> /\ stream' \in Seq(Nat)
        BY <1>11 DEF C64Answer, Reply, Short, history, TypeOK
    <2> QED
        BY <1>9, <2>1, <2>2, ShortType
<1>12. ASSUME \/ C64DiskCommand \/ C64Dir \/ C64Read
       PROVE  TypeOK' /\ Shape'
    <2>1. data \in Packets
        BY <1>12 DEF C64DiskCommand, C64Dir, C64Read, Handles, Shape
    <2>2. PICK s \in Seq(Nat) : out' = Blocks(s)
        <3>1. C64Read => stream' \in Seq(Nat) /\ out' = Blocks(stream')
            BY StreamType DEF C64Read, Reply
        <3>2. ASSUME C64DiskCommand \/ C64Dir
              PROVE  \E n \in Nat : out' = Blocks(Append(File(n), Zero))
            BY <3>2, MonAssumption, Consts DEF C64DiskCommand, C64Dir, Reply
        <3>3. \A n \in Nat : Append(File(n), Zero) \in Seq(Nat)
            BY FileType, Consts, AppendProperties
        <3> QED
            BY <1>12, <3>1, <3>2, <3>3
    <2>3. /\ cpc' = "send" /\ UNCHANGED <<pc, wire, data, ptr, c64>>
          /\ UNCHANGED <<used, clean, must>>
        BY <1>12 DEF C64DiskCommand, C64Dir, C64Read, Reply, history
    <2>4. stream' \in Seq(Nat)
        <3>1. CASE C64Read
            BY <3>1, StreamType
        <3>2. CASE ~C64Read
            BY <1>12, <3>2 DEF C64DiskCommand, C64Dir, history, TypeOK
        <3> QED
            BY <3>1, <3>2
    <2> QED
        BY <1>9, <2>1, <2>2, <2>3, <2>4, BlocksType
<1>13. ASSUME \/ C64Write \/ C64XWrite \/ C64XWriteFails
       PROVE  TypeOK' /\ Shape'
    <2>1. data \in Packets
        BY <1>13 DEF C64Write, C64XWrite, C64XWriteFails, Handles, Shape
    <2>2. disk' \in Seq(Nat)
        <3>1. /\ <<>> \in Seq(Nat) /\ <<Junk>> \in Seq(Nat) /\ disk \in Seq(Nat)
              /\ Counted(data) \in Seq(Nat)
            BY <2>1, CountedType, Consts, EmptySeq DEF TypeOK
        <3>2. disk \o Counted(data) \in Seq(Nat)
            BY <3>1, ConcatProperties
        <3>3. disk' \in {<<>>, <<Junk>>, disk, disk \o Counted(data)}
            BY <1>13 DEF C64Write, C64XWrite, C64XWriteFails
        <3> QED
            BY <3>1, <3>2, <3>3
    <2>3. /\ cpc' = "send" /\ (out' = Short(Zero) \/ out' = Short(Fail))
          /\ wopen' \in {"open", "refused", "closed"} /\ clean' \in BOOLEAN
        BY <1>13 DEF C64Write, C64XWrite, C64XWriteFails, Reply, Short, history, TypeOK
    <2>4. UNCHANGED <<pc, wire, data, ptr, access, ram, reu, used, must, stream>>
        BY <1>13 DEF C64Write, C64XWrite, C64XWriteFails, history
    <2>5. out' \in Seq(Seq(Nat)) /\ \A i \in DOMAIN out' : out'[i] # <<>>
        BY <2>3, ShortType
    <2>6. TypeOK'
        BY <2>2, <2>3, <2>4, <2>5 DEF TypeOK, pc, wire
    <2>7. Shape'
        BY <2>1, <2>3, <2>4, <2>5 DEF Shape, wire
    <2> QED
        BY <2>6, <2>7
<1>14. CASE C64XDone
    <2>1. cpc' = "main" /\ out' = out /\ wopen' = "closed"
        BY <1>14 DEF C64XDone, ToMain
    <2>2. TypeOK'
        BY <1>14, <2>1 DEF C64XDone, TypeOK, pc, wire, history
    <2>3. Shape'
        BY <1>14, <2>1 DEF C64XDone, Shape, wire
    <2> QED
        BY <2>2, <2>3
<1>15. CASE C64Send
    <2>1. out \in Seq(Seq(Nat)) /\ out # <<>>
        BY <1>15 DEF C64Send, TypeOK
    <2>2. /\ toPC' = Head(out) /\ Head(out) \in Seq(Nat)
          /\ out' = Tail(out) /\ Tail(out) \in Seq(Seq(Nat))
        BY <1>15, <2>1, HeadTailProperties DEF C64Send
    <2>3. \A i \in DOMAIN Tail(out) : Tail(out)[i] = out[i + 1] /\ i + 1 \in DOMAIN out
        BY <2>1
    <2>4. TypeOK'
        BY <1>15, <2>2 DEF C64Send, TypeOK, pc, c64, history
    <2>5. Shape'
        BY <1>15, <2>2, <2>3 DEF C64Send, Shape
    <2> QED
        BY <2>4, <2>5
<1>16. CASE C64Sent
    BY <1>16 DEF C64Sent, TypeOK, Shape, pc, wire, c64, history
<1> QED
    BY <1>17, <1>1, <1>2, <1>3, <1>4, <1>5, <1>6, <1>7, <1>8, <1>10, <1>11, <1>12, <1>13, <1>14, <1>15, <1>16
    DEF C64Step

LEMMA DistanceFar ==
    ASSUME NEW a \in Addr, NEW b \in Addr
    PROVE  Distance(a, a) = 0 /\ (a # b => Distance(a, b) > 0)
<1>1. Distance(a, a) = IF a >= a THEN a - a ELSE a - a + Size
    BY DistanceType
<1>2. Distance(a, b) = IF b >= a THEN b - a ELSE b - a + Size
    BY DistanceType
<1>3. a \in 0 .. Top /\ b \in 0 .. Top /\ Size = Top + 1 /\ Top \in Nat
    BY Consts DEF Addr
<1> QED
    BY <1>1, <1>2, <1>3

LEMMA FillFacts ==
    ASSUME TypeOK, Shape, Filling, cpc = "fill"
    PROVE  /\ data.at \in Addr /\ data.count \in Addr /\ data.op = "FILL"
           /\ Distance(data.at, (ptr + 1) % Size) = Distance(data.at, ptr) + 1
           /\ (ptr + 1) % Size # data.count =>
                 Distance(data.at, ptr) + 1 < Distance(data.at, data.count)
           /\ \A x \in Addr : Distance(data.at, x) < Distance(data.at, ptr) + 1
                                => x = ptr \/ ram[x] = Filled
           /\ (ptr + 1) % Size = data.count =>
                 Distance(data.at, data.count) = Distance(data.at, ptr) + 1
<1>1. data \in Packets /\ data.op = "FILL" /\ ptr \in Addr
    BY DEF Shape, Filling, TypeOK
<1>2. data.at \in Addr /\ data.count \in Addr
    BY <1>1 DEF Shape, Packets
<1>3. Distance(data.at, ptr) < Distance(data.at, data.count)
    BY DEF Filling
<1>4. /\ Distance(data.at, (ptr + 1) % Size) = Distance(data.at, ptr) + 1
      /\ (ptr + 1) % Size # data.count =>
            Distance(data.at, ptr) + 1 < Distance(data.at, data.count)
      /\ \A x \in Addr : Distance(data.at, x) = Distance(data.at, ptr) => x = ptr
    BY <1>1, <1>2, <1>3, DistanceNext
<1>5. ASSUME NEW x \in Addr, Distance(data.at, x) < Distance(data.at, ptr) + 1
      PROVE  x = ptr \/ ram[x] = Filled
    <2>1. Distance(data.at, x) \in Int /\ Distance(data.at, ptr) \in Int
        BY <1>1, <1>2, DistanceType
    <2>2. CASE Distance(data.at, x) < Distance(data.at, ptr)
        BY <2>2 DEF Filling
    <2>3. CASE Distance(data.at, x) = Distance(data.at, ptr)
        BY <2>3, <1>4
    <2> QED
        BY <1>5, <2>1, <2>2, <2>3
<1> QED
    BY <1>1, <1>2, <1>4, <1>5

LEMMA FillingStep ==
    ASSUME TypeOK, Shape, Filling, [Next]_vars
    PROVE  Filling'
<1>1. ASSUME UNCHANGED <<cpc, data, ptr, ram>> PROVE Filling'
    BY <1>1 DEF Filling
<1>2. ASSUME cpc' # "fill" PROVE Filling'
    BY <1>2 DEF Filling
<1>3. CASE UNCHANGED vars
    BY <1>1, <1>3 DEF vars, server, c64
<1>4. CASE User
    BY <1>1, <1>4, Zenon DEF User, PCTell, PCAsk, PCPoke, PCFill, PCGet, PCWrite, PCPut, server, c64
<1>5. CASE PCStep
    BY <1>1, <1>5, Zenon DEF PCStep, PCSendChunk, PCEndWrite, PCEndLoop, PCGetByDma, PCGetRequest,
       PCRecvGet, PCRecvRead, PCRecvDir, PCRecvAck, PCRecvAnswer, server, c64
<1>6. CASE C64FillBegin
    <2>1. data \in Packets /\ data.op = "FILL" /\ data.at # data.count
        BY <1>6 DEF C64FillBegin, Handles, Shape
    <2>2. data.at \in Addr /\ data.count \in Addr
        BY <2>1 DEF Shape, Packets
    <2>3. Distance(data.at, data.at) = 0
        BY <2>2, DistanceFar
    <2>4. Distance(data.at, data.count) > 0
        BY <2>1, <2>2, DistanceFar
    <2>5. \A x \in Addr : ~(Distance(data.at, x) < 0)
        BY <2>2, DistanceType
    <2>6. ptr' = data.at /\ data' = data
        BY <1>6 DEF C64FillBegin
    <2> QED
        BY <2>1, <2>3, <2>4, <2>5, <2>6 DEF Filling
<1>7. CASE C64FillStep
    <2> SUFFICES ASSUME cpc' = "fill" PROVE Filling'
        BY <1>2
    <2>1. /\ cpc = "fill" /\ ptr' = (ptr + 1) % Size /\ ptr' # data.count /\ data' = data
          /\ ram' = [ram EXCEPT ![ptr] = Filled]
        BY <1>7 DEF C64FillStep
    <2>2. /\ data.op = "FILL" /\ data.at # data.count
          /\ Distance(data.at, ptr') = Distance(data.at, ptr) + 1
          /\ Distance(data.at, ptr) + 1 < Distance(data.at, data.count)
          /\ \A x \in Addr : Distance(data.at, x) < Distance(data.at, ptr) + 1
                               => x = ptr \/ ram[x] = Filled
        BY <2>1, FillFacts DEF Filling
    <2>3. \A x \in Addr : x = ptr \/ ram[x] = Filled => ram'[x] = Filled
        BY <2>1 DEF TypeOK
    <2> QED
        BY <2>1, <2>2, <2>3 DEF Filling
<1>8. CASE C64Take \/ C64SetRam \/ C64Init \/ C64Leave \/ C64Poke \/ C64FillAll \/ C64Stop
    BY <1>2, <1>8 DEF C64Take, C64SetRam, C64Init, C64Leave, C64Poke, C64FillAll, C64Stop, ToMain
<1>9. CASE C64Put \/ C64Get \/ C64Answer \/ C64DiskCommand \/ C64Dir \/ C64Read \/ C64Write
           \/ C64XWrite \/ C64XWriteFails
    BY <1>2, <1>9 DEF C64Put, C64Get, C64Answer, C64DiskCommand, C64Dir, C64Read, C64Write,
       C64XWrite, C64XWriteFails, Reply
<1>10. CASE C64XDone \/ C64Send \/ C64Sent
    BY <1>2, <1>10 DEF C64XDone, C64Send, C64Sent, ToMain
<1> QED
    BY <1>3, <1>4, <1>5, <1>6, <1>7, <1>8, <1>9, <1>10 DEF Next, C64Step

\* Without the PC waiting, no answer is due.
LEMMA NoAnswerDue ==
    ASSUME Turns, ppc # "recv"
    PROVE  /\ toC64.op \notin Answered /\ (cpc = "exec" => data.op \notin Answered)
           /\ out = <<>> /\ toPC = <<>> /\ ~Answering
BY DEF Turns, Answering

\* Without the server sending, no answer is under way.
LEMMA NoAnswerYet ==
    ASSUME Turns, Shape, cpc # "send"
    PROVE  /\ out = <<>> /\ toPC = <<>> /\ ~Answering
           /\ cpc = "exec" => data \in Packets /\ data.op \in Ops
           /\ cpc = "exec" /\ data.op \in Answered => ppc = "recv" /\ Sent(data.op) /\ toC64 = None
BY DEF Turns, Answering, Shape, Packets

LEMMA Receiving ==
    ASSUME TypeOK, Shape, Turns, Replies, Receive
    PROVE  /\ ppc = "recv" /\ cpc = "send" /\ Answering /\ toPC # <<>> /\ toC64 = None
           /\ data \in Packets /\ data.op \in Answered /\ Sent(data.op)
           /\ data.op \notin {"READ", "DIR"} => out = <<>>
           /\ data.op = "DIR" => (HasZero(toPC) <=> out = <<>>)
           /\ pcmd \in Answered \ {"XWRITE"} /\ (pcmd # "WRITE" => data.op = pcmd)
           /\ pcmd = "WRITE" => data.op \in {"WRITE", "XWRITE"}
           /\ toPC' = <<>> /\ toC64' = toC64 /\ Given = toPC
<1>1. /\ ppc = "recv" /\ toPC # <<>> /\ toPC' = <<>> /\ toC64' = toC64
    BY DEF Receive
<1>2. cpc = "send" /\ Answering
    BY <1>1 DEF Turns, Answering
<1>3. toC64 = None /\ Sent(data.op) /\ data.op \in Answered /\ data \in Packets
    BY <1>2 DEF Turns, Shape
<1>4. /\ data.op \notin {"READ", "DIR"} => out = <<>>
      /\ data.op = "DIR" => (HasZero(toPC) <=> out = <<>>)
    BY <1>1, <1>2 DEF Replies
<1>5. /\ pcmd \in Answered \ {"XWRITE"} /\ (pcmd # "WRITE" => data.op = pcmd)
      /\ pcmd = "WRITE" => data.op \in {"WRITE", "XWRITE"}
    BY <1>3 DEF Sent, TypeOK, CmdOps, Answered, Asks, Loops, Tells, Modes
<1> QED
    BY <1>1, <1>2, <1>3, <1>4, <1>5 DEF Given

\* What the PC has got of the file, and how it knows whether there is more.
LEMMA ReadingOn ==
    ASSUME TypeOK, Shape, Turns, Replies, Reading, Receive, data.op = "READ"
    PROVE  /\ Taken \in 1 .. Len(Blocks(stream)) /\ toPC = Blocks(stream)[Taken]
           /\ file \o toPC = SubSeq(stream, 1, Before(Taken))
           /\ out # <<>> => Len(toPC) = Packet
           /\ out = <<>> => file \o toPC = stream
           /\ out = <<>> /\ Len(toPC) = Packet => Len(stream) % Packet = 0
<1>1. Answering /\ toPC # <<>>
    BY Receiving
<1>2. /\ Taken \in Nat /\ Taken >= 1 /\ toPC = Blocks(stream)[Taken]
      /\ file = SubSeq(stream, 1, Before(Taken - 1))
    BY <1>1 DEF Reading
<1>3. stream \in Seq(Nat) /\ out \in Seq(Seq(Nat)) /\ Len(Blocks(stream)) \in Nat
    BY BlockCount DEF TypeOK
<1>4. Len(out) \in Nat /\ Taken + Len(out) = Len(Blocks(stream)) /\ (out = <<>> <=> Len(out) = 0)
    BY <1>3, EmptySeq DEF Taken
<1>5. PICK k \in 1 .. Len(Blocks(stream)) : k = Taken
    BY <1>2, <1>3, <1>4
<1>6. /\ SubSeq(stream, 1, Smaller((k - 1) * Packet, Len(stream))) \o toPC
             = SubSeq(stream, 1, Smaller(k * Packet, Len(stream)))
      /\ Len(toPC) # Packet => k = Len(Blocks(stream))
      /\ k = Len(Blocks(stream)) => SubSeq(stream, 1, Smaller(k * Packet, Len(stream))) = stream
      /\ k = Len(Blocks(stream)) /\ Len(toPC) = Packet => Len(stream) % Packet = 0
    BY <1>2, <1>3, <1>5, BlockJoin
<1>7. out = <<>> <=> k = Len(Blocks(stream))
    BY <1>3, <1>4, <1>5
<1> QED
    BY <1>2, <1>5, <1>6, <1>7 DEF Before

LEMMA TurnsStep ==
    ASSUME TypeOK, Shape, Turns, Replies, Reading, [Next]_vars
    PROVE  Turns'
<1> USE DEF Answering
<1>1. /\ None.op = "none" /\ "none" \notin Answered
      /\ Lost.op = "lost" /\ "lost" \notin Answered /\ "lost" \notin Ops
    BY DEF None, Lost, Answered, Asks, Loops, Ops, Tells, Modes
<1>2. CASE UNCHANGED vars
    BY <1>2 DEF vars, pc, wire, server, history, Turns, Sent, EndlessRead
\* The PC sends a packet that is not answered, or none.
<1>3. ASSUME ppc # "recv", ppc' # "recv", toC64'.op \notin Answered, toPC' = toPC, UNCHANGED server,
             toC64' = Lost => toC64 = Lost
      PROVE  Turns'
    BY <1>3, NoAnswerDue DEF Turns, server
\* It sends one that is, and waits.
<1>4. ASSUME ppc # "recv", ppc' = "recv", toC64'.op \in Answered, Sent(toC64.op)', toPC' = toPC,
             UNCHANGED server
      PROVE  Turns'
    BY <1>1, <1>4, NoAnswerDue DEF Turns, server
<1>5. ASSUME NEW op \in Tells, PCTell(op) PROVE Turns'
    <2>1. op \in Ops /\ op \notin Answered
        BY DEF Ops, Tells, Modes, Answered, Asks, Loops
    <2>2. toC64'.op = op /\ toPC' = toPC
        BY <1>5, <2>1, PlainType DEF PCTell, Send
    <2> QED
        BY <1>1, <1>3, <1>5, <2>1, <2>2 DEF PCTell, Enter, Prompted, Served
<1>6. ASSUME NEW op \in Asks, PCAsk(op) PROVE Turns'
    <2>1. op \in Ops /\ op \in Answered /\ op # "WRITE"
        BY DEF Ops, Answered, Asks
    <2>2. toC64'.op = op /\ toPC' = toPC /\ pcmd' = op
        BY <1>6, <2>1, PlainType DEF PCAsk, Send, Enter
    <2>3. Sent(toC64.op)'
        BY <2>1, <2>2 DEF Sent
    <2> QED
        BY <1>4, <1>6, <2>1, <2>2, <2>3 DEF PCAsk, Enter, Prompted, Served
<1>7. ASSUME NEW a \in Addr, NEW b \in Addr, PCPoke(a, b) \/ PCFill(a, b) \/ PCGet(a, b)
      PROVE  Turns'
    <2>1. ppc = "prompt" /\ ppc' # "recv" /\ toPC' = toPC /\ UNCHANGED server
        BY <1>7, Zenon DEF PCPoke, PCFill, PCGet, Enter, Prompted, Served, Send, wire
    <2>2. toC64'.op \in {"POKE", "FILL"} \/ toC64' = toC64
        <3>1. \/ \E n, s : toC64' = Pack("POKE", a, n, s)
              \/ \E n, s : toC64' = Pack("FILL", a, n, s)
              \/ toC64' = toC64
            BY <1>7, Zenon DEF PCPoke, PCFill, PCGet, Send, wire
        <3> QED
            BY <3>1 DEF Pack
    <2>3. toC64'.op \notin Answered
        BY <2>1, <2>2, NoAnswerDue DEF Answered, Asks, Loops
    <2> QED
        BY <1>1, <1>3, <2>1, <2>2, <2>3
<1>8. ASSUME NEW n \in Nat, PCWrite(n) PROVE Turns'
    <2>1. "WRITE" \in Ops /\ "WRITE" \in Answered
        BY DEF Ops, Answered, Loops
    <2>2. toC64'.op = "WRITE" /\ toPC' = toPC /\ pcmd' = "WRITE"
        BY <1>8, <2>1, PlainType DEF PCWrite, Send, Enter
    <2>3. Sent(toC64.op)'
        BY <2>2 DEF Sent
    <2> QED
        BY <1>4, <1>8, <2>1, <2>2, <2>3 DEF PCWrite, Enter, Prompted, Served
<1>9. ASSUME NEW n \in Nat, NEW a \in Addr, PCPut(n, a) PROVE Turns'
    BY <1>3, <1>9, NoAnswerDue DEF PCPut, Enter, Prompted, Served, wire
<1>10. CASE User
    BY <1>5, <1>6, <1>7, <1>8, <1>9, <1>10, MonAssumption DEF User
<1>11. CASE PCSendChunk
    <2>1. toC64'.op = (IF pcmd = "PUT" THEN "PUT" ELSE "XWRITE") /\ toPC' = toPC
        BY <1>11 DEF PCSendChunk, Send, Pack
    <2>2. toC64'.op \in Answered /\ Sent(toC64.op)'
        BY <1>11, <2>1 DEF PCSendChunk, Answered, Loops, Sent
    <2> QED
        BY <1>4, <1>11, <2>1, <2>2 DEF PCSendChunk
<1>12. CASE PCEndWrite
    <2>1. toC64'.op = "XDONE" /\ toPC' = toPC
        BY <1>12 DEF PCEndWrite, Send, Plain, Pack
    <2> QED
        BY <1>1, <1>3, <1>12, <2>1 DEF PCEndWrite, Answered, Asks, Loops
<1>13. CASE PCEndLoop \/ PCGetByDma
    BY <1>3, <1>13, NoAnswerDue DEF PCEndLoop, PCGetByDma, wire
<1>14. CASE PCGetRequest
    <2>1. toC64'.op = "GET" /\ toPC' = toPC /\ pcmd' = "GET"
        BY <1>14 DEF PCGetRequest, Send, Pack
    <2>2. toC64'.op \in Answered /\ Sent(toC64.op)'
        BY <2>1 DEF Answered, Loops, Sent
    <2> QED
        BY <1>4, <1>14, <2>1, <2>2 DEF PCGetRequest
\* The last packet of an answer has come, or another one.
<1>15. ASSUME Receive, UNCHANGED server, ppc' # "recv", out = <<>>
       PROVE  Turns'
    BY <1>1, <1>15, Receiving DEF Turns, server
<1>16. ASSUME Receive, UNCHANGED server, ppc' = "recv", pcmd' = pcmd, stream' = stream,
              out # <<>> \/ (data.op = "READ" /\ Len(stream) % Packet = 0)
       PROVE  Turns'
    <2>1. /\ toC64' = None /\ cpc' = "send" /\ data.op \in Answered /\ Sent(data.op) /\ toPC' = <<>>
          /\ data.op = "READ" => pcmd = "READ"
        BY <1>16, Receiving DEF server, Sent
    <2>2. out # <<>> \/ EndlessRead'
        BY <1>16, <2>1 DEF EndlessRead, server
    <2> QED
        BY <1>1, <1>16, <2>1, <2>2 DEF Turns, server, Sent
<1>17. CASE PCRecvGet \/ PCRecvAck \/ PCRecvAnswer
    <2>1. Receive /\ UNCHANGED server /\ ppc' # "recv"
        BY <1>17 DEF PCRecvGet, PCRecvAck, PCRecvAnswer
    <2>2. pcmd \notin {"READ", "DIR"}
        BY <1>17 DEF PCRecvGet, PCRecvAck, PCRecvAnswer
    <2>3. data.op \notin {"READ", "DIR"}
        BY <2>1, <2>2, Receiving
    <2>4. out = <<>>
        BY <2>1, <2>3, Receiving
    <2> QED
        BY <1>15, <2>1, <2>4
<1>18. CASE PCRecvRead
    <2>1. Receive /\ UNCHANGED server /\ pcmd' = pcmd /\ stream' = stream /\ data.op = "READ"
          /\ ppc' = IF Len(toPC) = Packet THEN "recv" ELSE "prompt"
        <3>1. Receive /\ pcmd = "READ"
            BY <1>18 DEF PCRecvRead
        <3> QED
            BY <1>18, <3>1, Receiving DEF PCRecvRead, history
    <2>2. /\ out # <<>> => Len(toPC) = Packet
          /\ out = <<>> /\ Len(toPC) = Packet => Len(stream) % Packet = 0
        BY <2>1, ReadingOn
    <2> QED
        BY <1>15, <1>16, <2>1, <2>2
<1>19. CASE PCRecvDir
    <2>1. /\ Receive /\ UNCHANGED server /\ pcmd' = pcmd /\ stream' = stream /\ data.op = "DIR"
          /\ ppc' = IF HasZero(toPC) THEN "prompt" ELSE "recv"
        <3>1. Receive /\ pcmd = "DIR"
            BY <1>19 DEF PCRecvDir
        <3> QED
            BY <1>19, <3>1, Receiving DEF PCRecvDir, history, HasZero
    <2>2. HasZero(toPC) <=> out = <<>>
        BY <2>1, Receiving
    <2> QED
        BY <1>15, <1>16, <2>1, <2>2
<1>20. CASE PCStep
    BY <1>11, <1>12, <1>13, <1>14, <1>17, <1>18, <1>19, <1>20 DEF PCStep
<1>21. CASE C64Take
    <2>1. /\ cpc = "main" /\ toC64 # None /\ data' = toC64 /\ toC64' = None /\ cpc' = "exec"
          /\ toPC' = toPC /\ out' = out /\ ppc' = ppc /\ pcmd' = pcmd /\ toC64 # Lost
        BY <1>21 DEF C64Take, pc
    <2>2. out = <<>> /\ toPC = <<>>
        BY <2>1, NoAnswerYet
    <2> QED
        BY <1>1, <2>1, <2>2 DEF Turns, Sent, EndlessRead
\* What the PC has announced is lost, and it stays where it is.
<1>33. CASE C64Init
    <2>1. /\ cpc = "exec" /\ data.op = "INIT" /\ cpc' = "main" /\ out' = out /\ toPC' = toPC
          /\ toC64' = (IF toC64 = None THEN None ELSE Lost) /\ ppc' = ppc /\ pcmd' = pcmd
        BY <1>33 DEF C64Init, Handles, ToMain, pc
    <2>2. data.op \notin Answered
        BY <2>1 DEF Answered, Asks, Loops
    <2>3. out = <<>> /\ toPC = <<>>
        BY <2>1, NoAnswerYet
    <2> QED
        BY <1>1, <2>1, <2>2, <2>3 DEF Turns, EndlessRead
\* The server is done with a packet it does not answer, or gone.
<1>22. ASSUME cpc \in {"exec", "fill"}, cpc = "exec" => data.op \notin Answered \/ cpc' = "gone",
              cpc' \in {"main", "fill", "gone"}, out' = out, UNCHANGED <<pc, wire>>
       PROVE  Turns'
    <2>1. out = <<>> /\ toPC = <<>>
        BY <1>22, NoAnswerYet
    <2>2. /\ toC64' = toC64 /\ toPC' = toPC /\ ppc' = ppc /\ pcmd' = pcmd
        BY <1>22 DEF pc, wire
    <2> QED
        BY <1>22, <2>1, <2>2 DEF Turns, Sent, EndlessRead
<1>23. CASE C64SetRam \/ C64Poke \/ C64XDone
    <2>1. cpc = "exec" /\ data.op \in {"RAM", "ROM", "REU", "SETDEV", "POKE", "XDONE"}
        BY <1>23 DEF C64SetRam, C64Poke, C64XDone, Handles, Modes
    <2>2. data.op \notin Answered
        BY <2>1 DEF Answered, Asks, Loops
    <2>3. cpc' = "main" /\ out' = out /\ UNCHANGED <<pc, wire>>
        BY <1>23 DEF C64SetRam, C64Poke, C64XDone, ToMain
    <2> QED
        BY <1>22, <2>1, <2>2, <2>3
<1>24. CASE C64Leave \/ C64FillAll \/ C64FillBegin \/ C64FillStep
    <2>1. cpc \in {"exec", "fill"} /\ cpc' \in {"main", "fill", "gone"} /\ out' = out /\ UNCHANGED <<pc, wire>>
        BY <1>24 DEF C64Leave, C64FillAll, C64FillBegin, C64FillStep, Handles
    <2>2. cpc = "exec" => data.op = "FILL" \/ cpc' = "gone"
        BY <1>24 DEF C64Leave, C64FillAll, C64FillBegin, C64FillStep, Handles
    <2> QED
        BY <1>22, <2>1, <2>2 DEF Answered, Asks, Loops
<1>25. CASE C64Stop
    <2>1. out = <<>> /\ toPC = <<>> /\ cpc' = "gone"
        BY <1>25, NoAnswerYet DEF C64Stop
    <2> QED
        BY <1>25, <2>1 DEF C64Stop, Turns, Sent, pc, wire
\* The server answers.
<1>26. ASSUME cpc = "exec", data.op \in Answered, cpc' = "send", UNCHANGED <<pc, wire, data>>,
              out' # <<>> \/ (data.op = "READ" /\ Len(stream') % Packet = 0)
       PROVE  Turns'
    <2>1. ppc = "recv" /\ Sent(data.op) /\ toC64 = None /\ toPC = <<>>
        BY <1>26, NoAnswerYet
    <2>2. data.op = "READ" => pcmd = "READ"
        BY <2>1 DEF Sent
    <2>3. ppc' = ppc /\ pcmd' = pcmd /\ toC64' = toC64 /\ toPC' = toPC /\ data' = data
        BY <1>26 DEF pc, wire
    <2> QED
        BY <1>1, <1>26, <2>1, <2>2, <2>3 DEF Turns, Sent, EndlessRead
<1>27. CASE C64Put \/ C64Get \/ C64Answer \/ C64Write \/ C64XWrite \/ C64XWriteFails
    <2>1. /\ cpc = "exec" /\ data.op \in {"PUT", "GET", "TELLDEV", "STATUS", "SYS", "WRITE", "XWRITE"}
          /\ cpc' = "send" /\ out' # <<>> /\ UNCHANGED <<pc, wire, data>>
        BY <1>27 DEF C64Put, C64Get, C64Answer, C64Write, C64XWrite, C64XWriteFails, Handles, Reply
    <2> QED
        BY <1>26, <2>1 DEF Answered, Asks, Loops
<1>28. CASE C64DiskCommand \/ C64Dir
    <2>1. /\ cpc = "exec" /\ data.op \in {"DISKCOMMAND", "DIR"}
          /\ cpc' = "send" /\ UNCHANGED <<pc, wire, data>>
          /\ \E n \in Nat : out' = Blocks(Append(File(n), Zero))
        BY <1>28, MonAssumption, Consts DEF C64DiskCommand, C64Dir, Handles, Reply
    <2>2. out' # <<>>
        <3>1. PICK n \in Nat : out' = Blocks(Append(File(n), Zero))
            BY <2>1
        <3>2. Len(out') >= 1
            BY <3>1, ListingBlocks
        <3> QED
            BY <3>2
    <2> QED
        BY <1>26, <2>1, <2>2 DEF Answered, Asks
<1>29. CASE C64Read
    <2>1. /\ cpc = "exec" /\ data.op = "READ" /\ cpc' = "send" /\ UNCHANGED <<pc, wire, data>>
          /\ out' = Blocks(stream')
        BY <1>29 DEF C64Read, Handles, Reply
    <2>2. PICK s \in Seq(Nat) : s = stream'
        BY <1>29, StreamType
    <2>3. Blocks(s) = <<>> => Len(s) % Packet = 0
        <3> SUFFICES ASSUME Blocks(s) = <<>> PROVE Len(s) % Packet = 0
            OBVIOUS
        <3>1. Len(Blocks(s)) = 0
            OBVIOUS
        <3>2. Len(s) \in Nat /\ Len(s) <= 0 * Packet
            BY <3>1, BlockCount
        <3>3. Len(s) = 0
            BY <3>2, Consts
        <3>4. 0 % Packet = 0
            BY Consts
        <3> QED
            BY <3>3, <3>4
    <2> QED
        BY <1>26, <2>1, <2>2, <2>3 DEF Answered, Asks
<1>30. CASE C64Send
    <2>1. /\ cpc = "send" /\ out # <<>> /\ toPC = <<>> /\ toPC' = Head(out) /\ out' = Tail(out)
          /\ toC64' = toC64 /\ cpc' = cpc /\ data' = data /\ ppc' = ppc /\ pcmd' = pcmd
        BY <1>30 DEF C64Send, pc
    <2>2. toPC' # <<>>
        BY <2>1 DEF Shape, TypeOK
    <2> QED
        BY <2>1, <2>2 DEF Turns, Sent
<1>31. CASE C64Sent
    <2>1. /\ cpc = "send" /\ out = <<>> /\ toPC = <<>> /\ cpc' = "main" /\ out' = out /\ toPC' = toPC
          /\ toC64' = toC64 /\ data' = data /\ ppc' = ppc /\ pcmd' = pcmd /\ stream' = stream
        BY <1>31 DEF C64Sent, pc, wire, history
    <2> QED
        BY <2>1 DEF Turns, Sent, EndlessRead
<1>32. CASE C64Step
    BY <1>33, <1>21, <1>23, <1>24, <1>27, <1>28, <1>29, <1>30, <1>31, <1>32 DEF C64Step
<1> QED
    BY <1>2, <1>10, <1>20, <1>25, <1>32 DEF Next

\* What steps of the PC leave alone.
LEMMA UserFrame ==
    ASSUME User
    PROVE  /\ ppc = "prompt" /\ toC64 = None /\ toPC' = toPC /\ clean' = clean /\ stream' = stream
           /\ UNCHANGED server /\ UNCHANGED c64
BY Zenon DEF User, PCTell, PCAsk, PCPoke, PCFill, PCGet, PCWrite, PCPut, Enter, Prompted, Served, Send, wire

LEMMA PCFrame ==
    ASSUME PCStep
    PROVE  /\ UNCHANGED server /\ UNCHANGED c64 /\ stream' = stream
           /\ \/ Receive
              \/ ppc = "more" /\ toPC' = toPC
BY Zenon DEF PCStep, PCSendChunk, PCEndWrite, PCEndLoop, PCGetByDma, PCGetRequest, PCRecvGet,
   PCRecvRead, PCRecvDir, PCRecvAck, PCRecvAnswer, Send, wire, history

\* A server that starts again.
LEMMA InitStep ==
    ASSUME C64Init
    PROVE  /\ cpc = "exec" /\ data.op = "INIT" /\ cpc' = "main" /\ access' = "ROM"
           /\ toC64' = IF toC64 = None THEN None ELSE Lost
           /\ UNCHANGED pc /\ UNCHANGED history
           /\ UNCHANGED <<toPC, data, out, ptr, disk, wopen, ram, reu>>
BY DEF C64Init, Handles, ToMain

\* Steps of the server that do not answer.
Quiet ==
    \/ C64Take \/ C64SetRam \/ C64Init \/ C64Leave \/ C64Poke \/ C64FillBegin \/ C64FillAll \/ C64FillStep
    \/ C64XDone \/ C64Sent \/ C64Stop

\* Steps that answer with a packet that says how it went.
Brief == C64Put \/ C64Get \/ C64Answer \/ C64Write \/ C64XWrite \/ C64XWriteFails

LEMMA ServerSteps == C64Step \/ C64Stop =>
    Quiet \/ Brief \/ C64DiskCommand \/ C64Dir \/ C64Read \/ C64Send
BY DEF C64Step, Quiet, Brief

LEMMA QuietSteps ==
    ASSUME TypeOK, Shape, Turns, Quiet
    PROVE  ~Answering' /\ UNCHANGED pc /\ toPC' = toPC /\ UNCHANGED history
<1>1. UNCHANGED pc /\ UNCHANGED history /\ toPC' = toPC
    BY DEF Quiet, C64Take, C64SetRam, C64Init, C64Leave, C64Poke, C64FillBegin, C64FillAll, C64FillStep,
       C64XDone, C64Sent, C64Stop, wire
<1>2. cpc' # "send"
    BY DEF Quiet, C64Take, C64SetRam, C64Init, C64Leave, C64Poke, C64FillBegin, C64FillAll, C64FillStep,
       C64XDone, C64Sent, C64Stop, ToMain
<1> QED
    BY <1>1, <1>2 DEF Answering

LEMMA BriefSteps ==
    ASSUME TypeOK, Shape, Turns, Brief
    PROVE  /\ cpc = "exec" /\ cpc' = "send" /\ UNCHANGED pc /\ UNCHANGED wire /\ data' = data
           /\ data.op \in {"PUT", "GET", "TELLDEV", "STATUS", "SYS", "WRITE", "XWRITE"}
           /\ Len(out') = 1 /\ toPC = <<>> /\ Answering'
<1>1. /\ cpc = "exec" /\ cpc' = "send" /\ UNCHANGED pc /\ UNCHANGED wire /\ data' = data
      /\ data.op \in {"PUT", "GET", "TELLDEV", "STATUS", "SYS", "WRITE", "XWRITE"}
    BY DEF Brief, C64Put, C64Get, C64Answer, C64Write, C64XWrite, C64XWriteFails, Handles, Reply
<1>2. \E r : out' = <<r>>
    BY DEF Brief, C64Put, C64Get, C64Answer, C64Write, C64XWrite, C64XWriteFails, Reply
<1>3. Len(out') = 1
    BY <1>2
<1>4. toPC = <<>>
    BY <1>1, NoAnswerYet
<1>5. out' # <<>>
    BY <1>2
<1> QED
    BY <1>1, <1>3, <1>4, <1>5 DEF Answering

LEMMA ListingSteps ==
    ASSUME TypeOK, Shape, Turns, C64DiskCommand \/ C64Dir
    PROVE  /\ cpc = "exec" /\ cpc' = "send" /\ toPC = <<>>
           /\ UNCHANGED pc /\ UNCHANGED wire /\ data' = data /\ UNCHANGED c64 /\ UNCHANGED history
           /\ data.op \in {"DISKCOMMAND", "DIR"}
           /\ data.op = "DISKCOMMAND" => Len(out') = 1
           /\ \A i \in DOMAIN out' : HasZero(out'[i]) <=> i = Len(out')
<1>1. /\ cpc = "exec" /\ cpc' = "send"
      /\ UNCHANGED pc /\ UNCHANGED wire /\ data' = data /\ UNCHANGED c64 /\ UNCHANGED history
      /\ \E n \in Nat : /\ out' = Blocks(Append(File(n), Zero))
                        /\ data.op = "DISKCOMMAND" => n <= Packet - 1
      /\ data.op \in {"DISKCOMMAND", "DIR"}
    BY MonAssumption, Consts DEF C64DiskCommand, C64Dir, Handles, Reply
<1>2. PICK n \in Nat : out' = Blocks(Append(File(n), Zero)) /\ (data.op = "DISKCOMMAND" => n <= Packet - 1)
    BY <1>1
<1>3. toPC = <<>>
    BY <1>1, NoAnswerYet
<1> DEFINE s == Append(File(n), Zero)
<1>4. /\ \A k \in DOMAIN Blocks(s) : HasZero(Blocks(s)[k]) <=> k = Len(Blocks(s))
      /\ n <= Packet - 1 => Len(Blocks(s)) = 1
    BY ListingBlocks
<1> QED
    BY <1>1, <1>2, <1>3, <1>4

\* What is left of an answer when a packet of it has gone.
LEMMA SendStep ==
    ASSUME TypeOK, Shape, C64Send
    PROVE  /\ cpc = "send" /\ Answering /\ Answering' /\ toPC = <<>> /\ cpc' = cpc /\ data' = data
           /\ UNCHANGED pc /\ toC64' = toC64 /\ UNCHANGED c64 /\ UNCHANGED history
           /\ toPC' = out[1] /\ toPC' # <<>> /\ Given' = Given
           /\ out' = Tail(out) /\ Len(out) \in Nat /\ Len(out) >= 1 /\ Len(out') = Len(out) - 1
           /\ DOMAIN out' = 1 .. Len(out) - 1 /\ DOMAIN out = 1 .. Len(out)
           /\ \A i \in 1 .. Len(out) - 1 : out'[i] = out[i + 1]
           /\ out' = <<>> <=> Len(out) = 1
<1>1. /\ cpc = "send" /\ toPC = <<>> /\ cpc' = cpc /\ data' = data /\ toPC' = Head(out)
      /\ out # <<>> /\ out' = Tail(out) /\ UNCHANGED pc /\ toC64' = toC64
      /\ UNCHANGED c64 /\ UNCHANGED history /\ out \in Seq(Seq(Nat))
    BY DEF C64Send, TypeOK
<1>2. /\ Len(out) \in Nat /\ Len(out) >= 1 /\ Len(Tail(out)) = Len(out) - 1
      /\ DOMAIN Tail(out) = 1 .. Len(out) - 1 /\ DOMAIN out = 1 .. Len(out)
      /\ \A i \in 1 .. Len(out) - 1 : Tail(out)[i] = out[i + 1]
      /\ Head(out) = out[1]
    BY <1>1
<1>3. out[1] # <<>>
    BY <1>2 DEF Shape
<1>4. Tail(out) = <<>> <=> Len(out) = 1
    <2>1. Tail(out) \in Seq(Seq(Nat))
        BY <1>1, HeadTailProperties
    <2> DEFINE t == Tail(out)
    <2>2. t \in Seq(Seq(Nat)) /\ Len(t) = Len(out) - 1
        BY <1>2, <2>1
    <2> HIDE DEF t
    <2>3. t = <<>> <=> Len(t) = 0
        BY <2>2, EmptySeq
    <2> QED
        BY <1>2, <2>2, <2>3 DEF t
<1> QED
    BY <1>1, <1>2, <1>3, <1>4 DEF Answering, Given

LEMMA RepliesStep ==
    ASSUME TypeOK, Shape, Turns, Replies, Reading, [Next]_vars
    PROVE  Replies'
<1>1. ASSUME UNCHANGED <<cpc, data, out, toPC>> PROVE Replies'
    BY <1>1 DEF Replies, Answering
<1>2. ASSUME ~Answering' PROVE Replies'
    BY <1>2 DEF Replies
<1>3. CASE UNCHANGED vars
    BY <1>1, <1>3 DEF vars, server, wire
<1>4. CASE User
    BY <1>1, <1>4, UserFrame DEF server
<1>5. CASE PCStep
    <2>1. CASE Receive
        <3>1. /\ cpc = "send" /\ toPC' = <<>> /\ Answering /\ toPC # <<>>
              /\ data.op \notin {"READ", "DIR"} => out = <<>>
            BY <2>1, Receiving
        <3>2. cpc' = cpc /\ data' = data /\ out' = out
            BY <1>5, PCFrame DEF server
        <3> QED
            BY <3>1, <3>2 DEF Replies, Answering
    <2>2. CASE ~Receive
        BY <1>1, <1>5, <2>2, PCFrame DEF server
    <2> QED
        BY <2>1, <2>2
<1>6. CASE Quiet
    BY <1>2, <1>6, QuietSteps
<1>7. CASE Brief
    BY <1>7, BriefSteps DEF Replies, wire
<1>8. CASE C64DiskCommand \/ C64Dir
    <2>1. toPC' = <<>>
        BY <1>8, ListingSteps DEF wire
    <2> QED
        BY <1>8, <2>1, ListingSteps DEF Replies
<1>9. CASE C64Read
    <2>1. data'.op = "READ"
        BY <1>9 DEF C64Read, Handles
    <2> QED
        BY <2>1 DEF Replies
<1>10. CASE C64Send
    <2>1. ASSUME data.op \notin {"READ", "DIR"} PROVE out' = <<>>
        <3>1. Len(out) = 1
            BY <1>10, <2>1, SendStep DEF Replies
        <3> QED
            BY <1>10, <3>1, SendStep
    <2>2. ASSUME data.op = "DIR"
          PROVE  /\ \A i \in DOMAIN out' : HasZero(out'[i]) <=> i = Len(out')
                 /\ HasZero(toPC') <=> out' = <<>>
        <3>1. \A i \in DOMAIN out : HasZero(out[i]) <=> i = Len(out)
            BY <1>10, <2>2, SendStep DEF Replies
        <3>2. out' = <<>> <=> Len(out) = 1
            BY <1>10, SendStep
        <3>3. HasZero(out[1]) <=> Len(out) = 1
            BY <1>10, <3>1, SendStep
        <3>4. ASSUME NEW i \in 1 .. Len(out) - 1 PROVE HasZero(out'[i]) <=> i = Len(out) - 1
            <4>1. Len(out) \in Nat /\ i + 1 \in DOMAIN out /\ out'[i] = out[i + 1]
                BY <1>10, SendStep
            <4> QED
                BY <3>1, <4>1
        <3> QED
            BY <1>10, <3>2, <3>3, <3>4, SendStep
    <2>3. data' = data /\ toPC' # <<>>
        BY <1>10, SendStep
    <2> QED
        BY <2>1, <2>2, <2>3 DEF Replies
<1> QED
    BY <1>3, <1>4, <1>5, <1>6, <1>7, <1>8, <1>9, <1>10, ServerSteps DEF Next

\* What the PC sends is new; what of it is a command that asks for a file.
LEMMA UserSends ==
    ASSUME TypeOK, User
    PROVE  /\ toC64' = toC64 \/ toC64'.op = pcmd'
           /\ pcmd' \in {"READ", "WRITE"} => ppc' = "recv"
           /\ pcmd' = "READ" => file' = <<>> /\ UNCHANGED <<left, eof>>
           /\ pcmd' = "WRITE" =>
                 /\ toC64'.op = "WRITE" /\ left' = Len(file') /\ eof' = FALSE
                 /\ file' \in Seq(Nat)
           /\ pcmd' = "PUT" =>
                 /\ left' = Len(file') /\ eof' = FALSE /\ file' \in Seq(Nat) /\ ppc' = "more"
           /\ pcmd' \in {"PUT", "GET"} => toC64' = toC64
           /\ pcmd' # "none" /\ pcmd' # "XWRITE"
<1>1. ASSUME NEW op \in Tells, PCTell(op)
      PROVE  toC64'.op = op /\ pcmd' = op /\ op \notin {"READ", "WRITE", "PUT", "GET", "none", "XWRITE"}
    BY <1>1 DEF PCTell, Enter, Send, Plain, Pack, Tells, Modes
<1>2. ASSUME NEW op \in Asks, PCAsk(op)
      PROVE  /\ toC64'.op = op /\ pcmd' = op /\ op \notin {"WRITE", "PUT", "GET", "none", "XWRITE"}
             /\ ppc' = "recv" /\ file' = <<>> /\ UNCHANGED <<left, eof>>
    BY <1>2 DEF PCAsk, Enter, Send, Plain, Pack, Asks
<1>3. ASSUME NEW a, NEW b, PCPoke(a, b)
      PROVE  toC64'.op = "POKE" /\ pcmd' = "POKE"
    <2>1. (\E n, s : toC64' = Pack("POKE", a, n, s)) /\ pcmd' = "POKE"
        BY <1>3, Zenon DEF PCPoke, Enter, Send
    <2> QED
        BY <2>1 DEF Pack
<1>4. ASSUME NEW a, NEW b, PCFill(a, b)
      PROVE  toC64'.op = "FILL" /\ pcmd' = "FILL"
    <2>1. (\E n, s : toC64' = Pack("FILL", a, n, s)) /\ pcmd' = "FILL"
        BY <1>4, Zenon DEF PCFill, Enter, Send
    <2> QED
        BY <2>1 DEF Pack
<1>5. ASSUME NEW a, NEW b, PCGet(a, b)
      PROVE  toC64' = toC64 /\ pcmd' = "GET"
    BY <1>5 DEF PCGet, Enter, wire
<1>6. ASSUME NEW n \in FileLengths, PCWrite(n)
      PROVE  /\ toC64'.op = "WRITE" /\ pcmd' = "WRITE" /\ ppc' = "recv"
             /\ left' = Len(file') /\ eof' = FALSE /\ file' \in Seq(Nat)
    <2>1. toC64'.op = "WRITE" /\ pcmd' = "WRITE" /\ ppc' = "recv" /\ left' = n /\ eof' = FALSE
        BY <1>6 DEF PCWrite, Enter, Send, Plain, Pack
    <2>2. file' = File(n) /\ File(n) \in Seq(Nat) /\ Len(File(n)) = n
        BY <1>6, FileType, MonAssumption DEF PCWrite
    <2> QED
        BY <2>1, <2>2
<1>7. ASSUME NEW n \in FileLengths, NEW a, PCPut(n, a)
      PROVE  /\ toC64' = toC64 /\ pcmd' = "PUT" /\ ppc' = "more"
             /\ left' = Len(file') /\ eof' = FALSE /\ file' \in Seq(Nat)
    <2>1. toC64' = toC64 /\ pcmd' = "PUT" /\ ppc' = "more" /\ left' = n /\ eof' = FALSE
        BY <1>7 DEF PCPut, Enter, wire
    <2>2. file' = File(n) /\ File(n) \in Seq(Nat) /\ Len(File(n)) = n
        BY <1>7, FileType, MonAssumption DEF PCPut
    <2> QED
        BY <2>1, <2>2
<1> QED
    BY <1>1, <1>2, <1>3, <1>4, <1>5, <1>6, <1>7 DEF User

LEMMA ReadingStep ==
    ASSUME TypeOK, Shape, Turns, Replies, Reading, [Next]_vars
    PROVE  Reading'
<1> DEFINE Asking == toC64.op = "READ" \/ (cpc = "exec" /\ data.op = "READ") => file = <<>>
           Coming ==
               Answering /\ data.op = "READ" =>
                  /\ Taken \in Nat
                  /\ \A i \in DOMAIN out : out[i] = Blocks(stream)[Taken + i]
                  /\ IF toPC = <<>>
                     THEN file = SubSeq(stream, 1, Before(Taken))
                     ELSE /\ Taken >= 1 /\ toPC = Blocks(stream)[Taken]
                          /\ file = SubSeq(stream, 1, Before(Taken - 1))
           Come ==
               pcmd = "READ" /\ ppc = "prompt" =>
                  /\ file = stream
                  /\ toC64 = None /\ cpc \in {"send", "main", "gone"}
<1>0. Reading = (Asking /\ Coming /\ Come) /\ Reading' = (Asking' /\ Coming' /\ Come')
    BY DEF Reading
<1>1. "READ" \in Answered /\ None.op = "none" /\ "none" \notin Answered
    BY DEF Answered, Asks, Loops, None
<1>2. CASE UNCHANGED vars
    <2>1. UNCHANGED <<toC64, toPC, cpc, data, out, file, stream, pcmd, ppc>>
        BY <1>2 DEF vars, pc, wire, server, history
    <2> QED
        BY <2>1 DEF Reading, Answering, Taken, Before
<1>3. CASE User
    <2>1. /\ ppc = "prompt" /\ toPC' = toPC /\ cpc' = cpc /\ data' = data /\ out' = out /\ stream' = stream
        BY <1>3, UserFrame DEF server, c64
    <2>2. toC64.op \notin Answered /\ (cpc = "exec" => data.op \notin Answered) /\ ~Answering
        BY <2>1, NoAnswerDue
    <2>3. ~Answering'
        BY <2>1, <2>2 DEF Answering
    <2>4. toC64'.op = "READ" => file' = <<>>
        BY <1>1, <1>3, <2>2, UserSends
    <2>5. pcmd' = "READ" => ppc' # "prompt"
        BY <1>3, UserSends
    <2> QED
        BY <1>0, <1>1, <2>1, <2>2, <2>3, <2>4, <2>5
<1>4. CASE PCStep /\ ~Receive
    <2>1. /\ ppc = "more" /\ toPC' = toPC /\ cpc' = cpc /\ data' = data /\ out' = out /\ stream' = stream
        BY <1>4, PCFrame DEF server, c64
    <2>2. toC64.op \notin Answered /\ (cpc = "exec" => data.op \notin Answered) /\ ~Answering
        BY <2>1, NoAnswerDue
    <2>3. ~Answering'
        BY <2>1, <2>2 DEF Answering
    <2>4. toC64'.op # "READ" /\ pcmd' = pcmd /\ pcmd # "READ"
        <3>1. PCSendChunk \/ PCEndWrite \/ PCEndLoop \/ PCGetByDma \/ PCGetRequest
            BY <1>4 DEF PCStep, PCRecvGet, PCRecvRead, PCRecvDir, PCRecvAck, PCRecvAnswer
        <3> QED
            BY <1>1, <2>2, <3>1 DEF PCSendChunk, PCEndWrite, PCEndLoop, PCGetByDma, PCGetRequest,
               Send, Plain, Pack, wire
    <2> QED
        BY <1>0, <1>1, <2>1, <2>2, <2>3, <2>4
<1>5. CASE PCStep /\ Receive
    <2>1. /\ cpc' = cpc /\ data' = data /\ out' = out /\ stream' = stream
          /\ cpc = "send" /\ toC64' = None /\ toPC' = <<>>
        BY <1>5, PCFrame, Receiving DEF server, c64
    <2>2. CASE data.op = "READ"
        <3>1. PCRecvRead
            BY <1>5, <2>2, Receiving DEF PCStep, PCRecvGet, PCRecvDir, PCRecvAck, PCRecvAnswer,
               PCSendChunk, PCEndWrite, PCEndLoop, PCGetByDma, PCGetRequest, Receive, Sent
        <3>2. /\ file' = file \o toPC
              /\ ppc' = IF Len(toPC) = Packet THEN "recv" ELSE "prompt"
            BY <3>1 DEF PCRecvRead
        <3>3. /\ Taken \in 1 .. Len(Blocks(stream))
              /\ file \o toPC = SubSeq(stream, 1, Before(Taken))
              /\ out # <<>> => Len(toPC) = Packet
              /\ out = <<>> => file \o toPC = stream
            BY <1>5, <2>2, ReadingOn
        <3>4. Taken' = Taken /\ Before(Taken)' = Before(Taken)
            BY <2>1 DEF Taken, Before
        <3>5. \A i \in DOMAIN out : out[i] = Blocks(stream)[Taken + i]
            BY <1>5, <2>2, Receiving DEF Reading
        <3>6. Coming'
            BY <2>1, <3>2, <3>3, <3>4, <3>5
        <3> QED
            BY <1>0, <1>1, <2>1, <3>2, <3>3, <3>6
    <2>3. CASE data.op # "READ"
        <3>1. pcmd' # "READ"
            <4>1. pcmd # "READ"
                BY <1>5, <2>3, Receiving
            <4> QED
                BY <1>5, <4>1 DEF PCStep, PCRecvGet, PCRecvRead, PCRecvDir, PCRecvAck, PCRecvAnswer,
                   PCSendChunk, PCEndWrite, PCEndLoop, PCGetByDma, PCGetRequest
        <3> QED
            BY <1>0, <1>1, <2>1, <2>3, <3>1
    <2> QED
        BY <2>2, <2>3
<1>6. CASE Quiet
    <2>1. ~Answering' /\ file' = file /\ ppc' = ppc /\ pcmd' = pcmd /\ stream' = stream
        BY <1>6, QuietSteps DEF pc, history
    <2>2. CASE C64Take
        <3>1. /\ toC64 # None /\ toC64' = None /\ data' = toC64
            BY <2>2 DEF C64Take
        <3> QED
            BY <1>0, <1>1, <2>1, <3>1
    <2>4. CASE C64Init
        <3>1. /\ cpc = "exec" /\ cpc' = "main" /\ toC64' \in {None, Lost} /\ Lost.op = "lost"
              /\ data' = data
            BY <2>4, InitStep DEF Lost
        <3> QED
            BY <1>0, <1>1, <2>1, <3>1
    <2>3. CASE ~C64Take /\ ~C64Init
        <3>1. toC64' = toC64 /\ cpc' # "exec" /\ data' = data
            BY <1>6, <2>3 DEF Quiet, C64SetRam, C64Leave, C64Poke, C64FillBegin, C64FillAll,
               C64FillStep, C64XDone, C64Sent, C64Stop, ToMain, wire
        <3>2. CASE pcmd = "READ" /\ ppc = "prompt"
            <4>1. cpc \in {"send", "main", "gone"}
                BY <1>0, <3>2
            <4>2. cpc' \in {"main", "gone"}
                BY <1>6, <2>3, <4>1 DEF Quiet, C64SetRam, C64Leave, C64Poke, C64FillBegin,
                   C64FillAll, C64FillStep, C64XDone, C64Sent, C64Stop, Handles, c64
            <4> QED
                BY <1>0, <2>1, <3>1, <4>1, <4>2
        <3>3. CASE ~(pcmd = "READ" /\ ppc = "prompt")
            BY <1>0, <2>1, <3>1, <3>3
        <3> QED
            BY <3>2, <3>3
    <2> QED
        BY <2>2, <2>3, <2>4
\* The server answers something else.
<1>7. ASSUME cpc = "exec", cpc' = "send", UNCHANGED pc, UNCHANGED wire, data' = data, data.op # "READ",
             stream' = stream
      PROVE  Reading'
    BY <1>0, <1>7 DEF pc, wire
<1>8. CASE Brief
    <2>1. data.op # "READ"
        BY <1>8, BriefSteps
    <2>2. stream' = stream
        BY <1>8 DEF Brief, C64Put, C64Get, C64Answer, C64Write, C64XWrite, C64XWriteFails, history
    <2> QED
        BY <1>7, <1>8, <2>1, <2>2, BriefSteps
<1>9. CASE C64DiskCommand \/ C64Dir
    <2>1. data.op # "READ" /\ stream' = stream
        BY <1>9, ListingSteps DEF C64DiskCommand, C64Dir, history
    <2> QED
        BY <1>7, <1>9, <2>1, ListingSteps
<1>10. CASE C64Read
    <2>1. /\ cpc = "exec" /\ data.op = "READ" /\ cpc' = "send" /\ out' = Blocks(stream')
          /\ UNCHANGED pc /\ UNCHANGED wire /\ data' = data
        BY <1>10 DEF C64Read, Handles, Reply
    <2>2. toPC = <<>> /\ ppc = "recv" /\ file = <<>> /\ toC64 = None
        BY <1>0, <1>1, <2>1, NoAnswerYet
    <2>3. /\ toPC' = toPC /\ ppc' = ppc /\ file' = file /\ toC64' = toC64
        BY <2>1 DEF pc, wire
    <2>8. PICK s \in Seq(Nat) : s = stream'
        BY <1>10, StreamType
    <2>4. Taken' = 0
        <3>1. Len(Blocks(s)) \in Nat
            BY BlockCount
        <3>2. Taken' = Len(Blocks(s)) - Len(Blocks(s))
            BY <2>1, <2>8 DEF Taken
        <3> QED
            BY <3>1, <3>2
    <2>5. SubSeq(s, 1, 0) = <<>> /\ Before(0)' = 0
        <3>1. 0 * Packet = 0 /\ Len(s) \in Nat
            BY Consts
        <3>2. Smaller(0 * Packet, Len(s)) = 0
            BY <3>1 DEF Smaller
        <3>3. SubSeq(s, 1, 0) = <<>>
            BY SubSeqEmpty
        <3> QED
            BY <2>8, <3>2, <3>3 DEF Before
    <2>6. \A i \in DOMAIN Blocks(s) : i = 0 + i
        BY BlocksType
    <2>7. Coming'
        BY <2>1, <2>2, <2>3, <2>4, <2>5, <2>6, <2>8
    <2> QED
        BY <1>0, <1>1, <2>1, <2>2, <2>3, <2>7
<1>11. CASE C64Send
    <2>1. /\ cpc = "send" /\ Answering /\ toPC = <<>> /\ cpc' = cpc /\ data' = data
          /\ file' = file /\ pcmd' = pcmd /\ ppc' = ppc /\ toC64' = toC64 /\ stream' = stream
          /\ toPC' = out[1] /\ toPC' # <<>> /\ DOMAIN out = 1 .. Len(out)
          /\ Len(out) \in Nat /\ Len(out) >= 1 /\ Len(out') = Len(out) - 1
          /\ DOMAIN out' = 1 .. Len(out) - 1
          /\ \A i \in 1 .. Len(out) - 1 : out'[i] = out[i + 1]
        BY <1>11, SendStep DEF pc, history
    <2>2. CASE data.op = "READ"
        <3>1. /\ Taken \in Nat
              /\ \A i \in DOMAIN out : out[i] = Blocks(stream)[Taken + i]
              /\ file = SubSeq(stream, 1, Before(Taken))
            BY <1>0, <2>1, <2>2
        <3>2. Len(Blocks(stream)) \in Nat
            BY BlockCount DEF TypeOK
        <3>3. Taken' = Taken + 1
            BY <2>1, <3>2 DEF Taken
        <3>4. toPC' = Blocks(stream)[Taken + 1]
            BY <2>1, <3>1
        <3>5. ASSUME NEW i \in 1 .. Len(out) - 1 PROVE out'[i] = Blocks(stream)[(Taken + 1) + i]
            <4>1. i + 1 \in 1 .. Len(out) /\ out'[i] = out[i + 1]
                BY <2>1
            <4>2. Taken + (i + 1) = (Taken + 1) + i
                BY <3>1
            <4> QED
                BY <2>1, <3>1, <4>1, <4>2
        <3>6. (Taken + 1) - 1 = Taken /\ Taken + 1 \in Nat /\ Taken + 1 >= 1 /\ Taken' \in Nat
            BY <3>1, <3>3
        <3>7. Before(Taken - 1)' = Before(Taken)
            BY <2>1, <3>3, <3>6 DEF Before
        <3>8. Coming'
            BY <2>1, <3>1, <3>3, <3>4, <3>5, <3>6, <3>7
        <3> QED
            BY <1>0, <2>1, <3>8
    <2>3. CASE data.op # "READ"
        BY <1>0, <2>1, <2>3
    <2> QED
        BY <2>2, <2>3
<1> QED
    BY <1>2, <1>3, <1>4, <1>5, <1>6, <1>8, <1>9, <1>10, <1>11, ServerSteps DEF Next

\* The drive's part of the invariant.
LEMMA OriginStep ==
    ASSUME TypeOK, Shape, Turns, Replies, Origin, [Next]_vars
    PROVE  Origin'
<1>1. "READ" \in Answered /\ "WRITE" \in Answered /\ "XWRITE" \in Answered
    BY DEF Answered, Asks, Loops
<1>2. ASSUME disk' = disk, stream' = stream,
             (Answering /\ data.op = "READ")' => Answering /\ data.op = "READ",
             (pcmd = "READ" /\ ppc = "prompt")' =>
                 (Answering /\ data.op = "READ") \/ (pcmd = "READ" /\ ppc = "prompt")
      PROVE  Origin'
    <2>1. Cuts' = Cuts
        BY <1>2 DEF Cuts
    <2> QED
        BY <1>2, <2>1 DEF Origin
<1>3. CASE UNCHANGED vars
    BY <1>2, <1>3 DEF vars, pc, wire, server, c64, history, Answering
<1>4. CASE User
    <2>1. /\ cpc' = cpc /\ data' = data /\ out' = out /\ toPC' = toPC /\ disk' = disk /\ stream' = stream
        BY <1>4, UserFrame DEF server, c64
    <2>2. pcmd' = "READ" => ppc' # "prompt"
        BY <1>4, UserSends
    <2> QED
        BY <1>2, <2>1, <2>2 DEF Answering
<1>5. CASE PCStep
    <2>1. /\ cpc' = cpc /\ data' = data /\ out' = out /\ disk' = disk /\ stream' = stream
        BY <1>5, PCFrame DEF server, c64
    <2>2. CASE Receive
        <3>1. Answering /\ toPC' = <<>> /\ (pcmd = "READ" => data.op = "READ")
            BY <2>2, Receiving
        <3>2. pcmd' = "READ" => pcmd = "READ"
            BY <1>5 DEF PCStep, PCRecvGet, PCRecvRead, PCRecvDir, PCRecvAck, PCRecvAnswer,
               PCSendChunk, PCEndWrite, PCEndLoop, PCGetByDma, PCGetRequest
        <3> QED
            BY <1>2, <2>1, <3>1, <3>2 DEF Answering
    <2>3. CASE ~Receive
        <3>1. toPC' = toPC
            BY <1>5, <2>3, PCFrame
        <3>2. PCSendChunk \/ PCEndWrite \/ PCEndLoop \/ PCGetByDma \/ PCGetRequest
            BY <1>5, <2>3 DEF PCStep, PCRecvGet, PCRecvRead, PCRecvDir, PCRecvAck, PCRecvAnswer
        <3>3. pcmd' # "READ"
            BY <3>2 DEF PCSendChunk, PCEndWrite, PCEndLoop, PCGetByDma, PCGetRequest
        <3> QED
            BY <1>2, <2>1, <3>1, <3>3 DEF Answering
    <2> QED
        BY <2>2, <2>3
<1>6. CASE Quiet
    <2>1. ~Answering' /\ ppc' = ppc /\ pcmd' = pcmd /\ stream' = stream
        BY <1>6, QuietSteps DEF pc, history
    <2>2. disk' = disk
        BY <1>6 DEF Quiet, C64Take, C64SetRam, C64Init, C64Leave, C64Poke, C64FillBegin, C64FillAll,
           C64FillStep, C64XDone, C64Sent, C64Stop, c64
    <2> QED
        BY <1>2, <2>1, <2>2
\* While something is answered the PC waits; a READ is answered by no other handler.
<1>7. ASSUME cpc = "exec", data.op \in Answered, data.op # "READ", UNCHANGED pc, data' = data
      PROVE  Origin'
    <2>1. ppc = "recv"
        BY <1>7, NoAnswerYet
    <2> QED
        BY <1>7, <2>1 DEF Origin, pc
<1>8. CASE Brief
    <2>1. data.op \in Answered
        BY <1>8, BriefSteps DEF Answered, Asks, Loops
    <2> QED
        BY <1>7, <1>8, <2>1, BriefSteps
<1>9. CASE C64DiskCommand \/ C64Dir
    <2>1. data.op \in {"DISKCOMMAND", "DIR"}
        BY <1>9 DEF C64DiskCommand, C64Dir, Handles
    <2>2. data.op \in Answered /\ data.op # "READ"
        BY <2>1 DEF Answered, Asks
    <2> QED
        BY <1>7, <1>9, <2>2, ListingSteps
<1>10. CASE C64Read
    <2>1. /\ cpc = "exec" /\ data.op = "READ" /\ cpc' = "send" /\ out' = Blocks(stream')
          /\ UNCHANGED pc /\ UNCHANGED wire /\ disk' = disk /\ stream' \in Cuts \cup {disk, <<>>}
        BY <1>10 DEF C64Read, Handles, Reply, c64
    <2>2. ppc' = "recv" /\ toPC' = <<>>
        BY <1>1, <2>1, NoAnswerYet DEF pc, wire
    <2>3. Cuts' = Cuts
        BY <2>1 DEF Cuts
    <2>4. Blocks(<<>>) = <<>>
        BY NoBlocks
    <2>5. stream' = <<>> => ~Answering'
        BY <2>1, <2>2, <2>4 DEF Answering
    <2> QED
        BY <2>1, <2>2, <2>3, <2>5 DEF Origin
<1>11. CASE C64Send
    <2>1. /\ Answering /\ data' = data /\ ppc' = ppc /\ pcmd' = pcmd /\ stream' = stream /\ disk' = disk
        BY <1>11, SendStep DEF pc, c64, history
    <2> QED
        BY <1>2, <2>1
<1> QED
    BY <1>3, <1>4, <1>5, <1>6, <1>8, <1>9, <1>10, <1>11, ServerSteps DEF Next

LEMMA Emptied ==
    ASSUME NEW s \in Seq(Nat)
    PROVE  s \o <<>> = s /\ <<>> \o s = s /\ SubSeq(s, 1, Len(s)) = s /\ SubSeq(s, 1, Len(s) - Len(s)) = <<>>
<1>1. s \o <<>> = s /\ <<>> \o s = s
    BY ConcatEmptySeq
<1>2. SubSeq(s, 1, Len(s)) = s
    BY SubSeqFull
<1>3. SubSeq(s, 1, 0) = <<>> /\ Len(s) - Len(s) = 0
    BY SubSeqEmpty
<1> QED
    BY <1>1, <1>2, <1>3

\* The parts of Writing.
InBounds == pcmd \in {"WRITE", "PUT"} => left <= Len(file) /\ (eof => left = 0)
ToOpen == toC64.op = "WRITE" \/ (cpc = "exec" /\ data.op = "WRITE") => Opening
Opened ==
    Answering /\ data.op = "WRITE" =>
        /\ Opening
        /\ Given[1] = Fail \/ (clean => Stored(<<>>))
DataOut ==
    toC64.op = "XWRITE" => cpc \in {"send", "main", "gone"} /\ (clean => Stored(toC64.bytes))
DataIn == clean /\ cpc = "exec" /\ data.op = "XWRITE" => Stored(data.bytes)
DataStored == clean /\ Answering /\ data.op = "XWRITE" => Stored(<<>>)
Between ==
    pcmd = "WRITE" /\ ppc = "more" =>
        /\ toC64 = None /\ cpc \in {"send", "main", "gone"}
        /\ clean => Stored(<<>>)
Written ==
    pcmd = "WRITE" /\ ppc = "prompt" =>
        /\ toC64.op \in {"none", "XDONE"} /\ cpc \in {"exec", "send", "main", "gone"}
        /\ cpc = "exec" => data.op = "XDONE"
        /\ clean => disk = file

LEMMA WritingParts ==
    /\ Writing = (/\ InBounds /\ ToOpen /\ Opened /\ DataOut /\ DataIn /\ DataStored
                  /\ Between /\ Written)
    /\ Writing' = (/\ InBounds' /\ ToOpen' /\ Opened' /\ DataOut' /\ DataIn' /\ DataStored'
                   /\ Between' /\ Written')
BY DEF Writing, InBounds, ToOpen, Opened, DataOut, DataIn, DataStored, Between, Written

LEMMA WritingByUser ==
    ASSUME TypeOK, Shape, Turns, Writing, User
    PROVE  Writing'
<1>1. ppc = "prompt" /\ toPC' = toPC /\ clean' = clean /\ cpc' = cpc /\ data' = data /\ out' = out
      /\ disk' = disk /\ wopen' = wopen
    BY UserFrame DEF server, c64
<1>2. /\ toC64.op \notin {"WRITE", "XWRITE"} /\ (cpc = "exec" => data.op \notin {"WRITE", "XWRITE"})
      /\ ~Answering /\ ~Answering'
    BY <1>1, NoAnswerDue DEF Answering, Answered, Loops
<1>3. InBounds'
    <2> SUFFICES ASSUME pcmd' \in {"WRITE", "PUT"} PROVE left' <= Len(file') /\ (eof' => left' = 0)
        BY DEF InBounds
    <2>1. left' = Len(file') /\ eof' = FALSE /\ file' \in Seq(Nat)
        BY UserSends
    <2>2. Len(file') \in Nat
        BY <2>1
    <2> QED
        BY <2>1, <2>2
<1>4. ToOpen'
    BY <1>1, <1>2, UserSends DEF ToOpen, Opening
<1>5. DataOut' /\ DataIn' /\ DataStored' /\ Opened'
    BY <1>1, <1>2, UserSends DEF DataOut, DataIn, DataStored, Opened
<1>6. Between' /\ Written'
    BY UserSends DEF Between, Written
<1> QED
    BY <1>3, <1>4, <1>5, <1>6, WritingParts

LEMMA WritingByPC ==
    ASSUME TypeOK, Shape, Turns, Replies, Writing, PCStep
    PROVE  Writing'
<1>0. /\ InBounds /\ ToOpen /\ Opened /\ DataOut /\ DataIn /\ DataStored /\ Between /\ Written
    BY WritingParts
<1>1. cpc' = cpc /\ data' = data /\ out' = out /\ disk' = disk /\ wopen' = wopen
    BY PCFrame DEF server, c64
<1>2. file \in Seq(Nat) /\ left \in Nat /\ disk \in Seq(Nat)
    BY DEF TypeOK
<1>3. CASE PCStep /\ ~Receive
    <2>1. ppc = "more" /\ toPC' = toPC /\ pcmd' = pcmd
        <3>1. PCSendChunk \/ PCEndWrite \/ PCEndLoop \/ PCGetByDma \/ PCGetRequest
            BY <1>3 DEF PCStep, PCRecvGet, PCRecvRead, PCRecvDir, PCRecvAck, PCRecvAnswer
        <3> QED
            BY <3>1, <1>3, PCFrame DEF PCSendChunk, PCEndWrite, PCEndLoop, PCGetByDma, PCGetRequest
    <2>2. /\ toC64.op \notin {"WRITE", "XWRITE"} /\ (cpc = "exec" => data.op \notin {"WRITE", "XWRITE"})
          /\ ~Answering /\ ~Answering'
        BY <1>1, <2>1, NoAnswerDue DEF Answering, Answered, Loops
    <2>3. Opened' /\ DataIn' /\ DataStored'
        BY <1>1, <2>2 DEF Opened, DataIn, DataStored
    <2>4. CASE PCSendChunk
        <3>1. /\ pcmd \in {"WRITE", "PUT"} /\ left <= Len(file)
              /\ file' = file /\ left' = left - Len(Chunk) /\ eof' = (left < Packet) /\ ppc' = "recv"
              /\ clean' => clean
            BY <1>0, <2>4 DEF PCSendChunk, InBounds
        <3>2. /\ left - Len(Chunk) \in Nat /\ left - Len(Chunk) <= Len(file)
              /\ left < Packet => left - Len(Chunk) = 0
              /\ Part \o Chunk = SubSeq(file, 1, Len(file) - (left - Len(Chunk)))
            BY <3>1, ChunkOf
        <3>3. toC64'.op = (IF pcmd = "PUT" THEN "PUT" ELSE "XWRITE") /\ toC64'.bytes = Chunk
            BY <2>4, SendChunkType
        <3>4. InBounds' /\ ToOpen' /\ Between' /\ Written'
            BY <1>1, <2>2, <3>1, <3>2, <3>3 DEF InBounds, ToOpen, Between, Written
        <3>5. ASSUME toC64'.op = "XWRITE"
              PROVE  cpc' \in {"send", "main", "gone"} /\ (clean' => Stored(toC64.bytes)')
            <4>1. pcmd = "WRITE"
                BY <3>1, <3>3, <3>5
            <4>2. cpc \in {"send", "main", "gone"} /\ (clean => Stored(<<>>))
                BY <1>0, <2>1, <4>1 DEF Between
            <4>3. clean => wopen = "open" /\ disk = Part
                BY <1>2, <4>2, Emptied DEF Stored
            <4>4. Part' = Part \o Chunk
                BY <3>1, <3>2 DEF Part
            <4> QED
                BY <1>1, <3>1, <3>3, <4>2, <4>3, <4>4 DEF Stored
        <3>6. DataOut'
            BY <3>5 DEF DataOut
        <3> QED
            BY <2>3, <3>4, <3>6, WritingParts
    <2>5. CASE PCEndWrite
        <3>1. /\ pcmd = "WRITE" /\ eof /\ ppc' = "prompt" /\ toC64'.op = "XDONE"
              /\ file' = file /\ left' = left /\ eof' = eof /\ clean' = clean
            BY <2>5 DEF PCEndWrite, Send, Plain, Pack, history
        <3>2. left = 0 /\ left <= Len(file) /\ cpc \in {"send", "main", "gone"} /\ (clean => Stored(<<>>))
            BY <1>0, <2>1, <3>1 DEF InBounds, Between
        <3>3. Part = file
            BY <1>2, <3>2, Emptied DEF Part
        <3>4. clean => disk = file
            BY <1>2, <3>2, <3>3, Emptied DEF Stored
        <3>5. InBounds' /\ ToOpen' /\ DataOut' /\ Between'
            BY <1>0, <1>1, <2>2, <3>1 DEF InBounds, ToOpen, DataOut, Between
        <3>6. Written'
            BY <1>1, <3>1, <3>2, <3>4 DEF Written
        <3> QED
            BY <2>3, <3>5, <3>6, WritingParts
    <2>6. CASE PCEndLoop
        <3>1. /\ pcmd \in {"PUT", "GET"} /\ toC64' = toC64
              /\ file' = file /\ left' = left /\ eof' = eof
            BY <2>6 DEF PCEndLoop, wire
        <3> QED
            BY <1>0, <1>1, <2>1, <2>2, <2>3, <3>1, WritingParts
            DEF InBounds, ToOpen, DataOut, Between, Written
    <2>7. CASE PCGetByDma \/ PCGetRequest
        <3>1. pcmd = "GET" /\ (toC64' = toC64 \/ toC64'.op = "GET")
            BY <2>7 DEF PCGetByDma, PCGetRequest, Send, Pack, wire
        <3> QED
            BY <1>1, <2>1, <2>2, <2>3, <3>1, WritingParts
            DEF InBounds, ToOpen, DataOut, Between, Written
    <2> QED
        BY <1>3, <2>4, <2>5, <2>6, <2>7 DEF PCStep, PCRecvGet, PCRecvRead, PCRecvDir, PCRecvAck, PCRecvAnswer
<1>4. CASE PCStep /\ Receive
    <2>1. /\ cpc = "send" /\ Answering /\ toC64' = None /\ toPC' = <<>> /\ Given = toPC
          /\ data.op \in {"WRITE", "XWRITE"} => out = <<>>
          /\ pcmd # "WRITE" => data.op = pcmd
          /\ pcmd = "WRITE" => data.op \in {"WRITE", "XWRITE"}
        BY <1>4, Receiving
    <2>2. clean' = clean
        BY <1>4 DEF PCStep, PCRecvGet, PCRecvRead, PCRecvDir, PCRecvAck, PCRecvAnswer, Receive,
           PCSendChunk, PCEndWrite, PCEndLoop, PCGetByDma, PCGetRequest, history
    <2>3. ToOpen' /\ DataOut' /\ DataIn'
        BY <1>1, <2>1 DEF ToOpen, DataOut, DataIn, None
    <2>4. Opened' /\ DataStored'
        BY <1>1, <2>1 DEF Opened, DataStored, Answering
    <2>5. CASE PCRecvAck
        <3>1. file' = file /\ left' = left /\ eof' = eof
            BY <2>5 DEF PCRecvAck
        <3>2. /\ pcmd \in {"WRITE", "PUT"}
              /\ IF pcmd = "WRITE" /\ Opening /\ toPC[1] = Fail
                 THEN ppc' = "prompt" /\ pcmd' = "none"
                 ELSE ppc' = "more" /\ pcmd' = pcmd
            BY <2>5 DEF PCRecvAck, Opening
        <3>3. InBounds' /\ Written'
            BY <1>0, <3>1, <3>2 DEF InBounds, Written
        <3>4. Between'
            <4> SUFFICES ASSUME pcmd' = "WRITE", ppc' = "more", clean PROVE Stored(<<>>)
                BY <1>1, <2>1, <2>2, <3>1 DEF Between, Stored, Part
            <4>1. pcmd = "WRITE" /\ ~(Opening /\ toPC[1] = Fail)
                BY <3>2
            <4>2. data.op \in {"WRITE", "XWRITE"}
                BY <2>1, <4>1
            <4> QED
                BY <1>0, <2>1, <4>1, <4>2 DEF Opened, DataStored
        <3> QED
            BY <2>3, <2>4, <3>3, <3>4, WritingParts
    <2>6. CASE PCRecvGet \/ PCRecvRead \/ PCRecvDir \/ PCRecvAnswer
        <3>1. pcmd' = pcmd /\ pcmd \notin {"WRITE", "PUT"}
            BY <2>6 DEF PCRecvGet, PCRecvRead, PCRecvDir, PCRecvAnswer
        <3> QED
            BY <2>3, <2>4, <3>1, WritingParts DEF InBounds, Between, Written
    <2> QED
        BY <1>4, <2>5, <2>6 DEF PCStep, PCSendChunk, PCEndWrite, PCEndLoop, PCGetByDma, PCGetRequest, Receive
<1> QED
    BY <1>3, <1>4

LEMMA WritingByServer ==
    ASSUME TypeOK, Shape, Turns, Replies, Writing, Counts, C64Step \/ C64Stop
    PROVE  Writing'
<1>0. /\ InBounds /\ ToOpen /\ Opened /\ DataOut /\ DataIn /\ DataStored /\ Between /\ Written
    BY WritingParts
<1>1. None.op = "none" /\ {"WRITE", "XWRITE"} \subseteq Answered /\ None.op \notin Answered
    BY DEF None, Answered, Asks, Loops
<1>2. CASE Quiet
    <2>1. /\ ~Answering' /\ ppc' = ppc /\ pcmd' = pcmd /\ file' = file /\ left' = left /\ eof' = eof
          /\ clean' = clean
        BY <1>2, QuietSteps DEF pc, history
    <2>2. InBounds' /\ Opened' /\ DataStored'
        BY <1>0, <2>1 DEF InBounds, Opened, DataStored
    <2>3. CASE C64Take
        <3>1. /\ toC64 # None /\ toC64' = None /\ data' = toC64 /\ cpc' = "exec" /\ wopen' = wopen
              /\ disk' = disk /\ toC64 \in Packets /\ toC64.op \in Ops
            BY <2>3 DEF C64Take, c64, Shape, Packets
        <3>2. ToOpen' /\ DataOut' /\ Between'
            BY <1>0, <1>1, <2>1, <3>1 DEF ToOpen, DataOut, Between, Opening
        <3>3. DataIn'
            BY <1>0, <2>1, <3>1 DEF DataIn, DataOut, Stored, Part
        <3>4. Written'
            BY <1>0, <1>1, <2>1, <3>1 DEF Written, Ops, Tells, Modes, Asks, Loops
        <3> QED
            BY <2>2, <3>2, <3>3, <3>4, WritingParts
    <2>5. CASE C64Init
        <3>1. /\ cpc = "exec" /\ data.op = "INIT" /\ cpc' = "main" /\ toC64'.op \in {"none", "lost"}
            BY <2>5, InitStep DEF None, Lost
        <3>2. ToOpen' /\ DataOut' /\ DataIn'
            BY <3>1 DEF ToOpen, DataOut, DataIn
        <3>3. ~(pcmd = "WRITE" /\ ppc \in {"more", "prompt"})
            BY <1>0, <3>1 DEF Between, Written
        <3>4. Between' /\ Written'
            BY <2>1, <3>3 DEF Between, Written
        <3> QED
            BY <2>2, <3>2, <3>4, WritingParts
    <2>4. CASE ~C64Take /\ ~C64Init
        <3>1. toC64' = toC64 /\ cpc' \in {"main", "fill", "gone"} /\ data' = data
            BY <1>2, <2>4 DEF Quiet, C64SetRam, C64Leave, C64Poke, C64FillBegin, C64FillAll,
               C64FillStep, C64XDone, C64Sent, C64Stop, ToMain, wire
        <3>2. disk' = disk /\ (wopen' = wopen \/ C64XDone)
            BY <1>2, <2>4 DEF Quiet, C64SetRam, C64Leave, C64Poke, C64FillBegin, C64FillAll,
               C64FillStep, C64XDone, C64Sent, C64Stop, c64
        <3>3. cpc \in {"send", "main", "gone"} => cpc' \in {"main", "gone"} /\ wopen' = wopen
            BY <1>2, <2>4 DEF Quiet, C64SetRam, C64Leave, C64Poke, C64FillBegin, C64FillAll,
               C64FillStep, C64XDone, C64Sent, C64Stop, c64, Handles
        <3>4. cpc = "exec" /\ data.op = "XDONE" => cpc' \in {"main", "gone"}
            BY <1>2, <2>4 DEF Quiet, C64SetRam, C64Leave, C64Poke, C64FillBegin, C64FillAll,
               C64FillStep, C64XDone, C64Sent, C64Stop, ToMain, Handles
        <3>5. ToOpen' /\ DataIn'
            BY <1>0, <2>1, <3>1 DEF ToOpen, DataIn, Opening
        <3>6. DataOut' /\ Between'
            BY <1>0, <2>1, <3>1, <3>2, <3>3 DEF DataOut, Between, Stored, Part
        <3>7. Written'
            BY <1>0, <2>1, <3>1, <3>2, <3>3, <3>4 DEF Written
        <3> QED
            BY <2>2, <3>5, <3>6, <3>7, WritingParts
    <2> QED
        BY <2>3, <2>4, <2>5
\* The server answers: the PC waits for it, and nothing is on its way to the server.
<1>3. ASSUME cpc = "exec", data.op \in Answered, cpc' = "send", UNCHANGED pc, UNCHANGED wire, data' = data,
             Opened', DataStored'
      PROVE  Writing'
    <2>1. /\ ppc = "recv" /\ toC64 = None
          /\ ppc' = ppc /\ pcmd' = pcmd /\ file' = file /\ left' = left /\ eof' = eof /\ toC64' = toC64
        BY <1>3, NoAnswerYet DEF pc, wire
    <2>2. InBounds' /\ ToOpen' /\ DataOut' /\ DataIn' /\ Between' /\ Written'
        BY <1>0, <1>1, <1>3, <2>1 DEF InBounds, ToOpen, DataOut, DataIn, Between, Written, Opening
    <2> QED
        BY <1>3, <2>2, WritingParts
<1>4. ASSUME cpc = "exec", cpc' = "send", UNCHANGED pc, UNCHANGED wire, data' = data,
             data.op \in {"PUT", "GET", "TELLDEV", "STATUS", "SYS", "DISKCOMMAND", "DIR", "READ"}
      PROVE  Writing'
    <2>1. data.op \in Answered
        BY <1>4 DEF Answered, Asks, Loops
    <2>2. Opened' /\ DataStored'
        BY <1>4 DEF Opened, DataStored
    <2> QED
        BY <1>3, <1>4, <2>1, <2>2
<1>5. CASE C64Put \/ C64Get \/ C64Answer
    <2>1. data.op \in {"PUT", "GET", "TELLDEV", "STATUS", "SYS"}
        BY <1>5 DEF C64Put, C64Get, C64Answer, Handles
    <2>2. Brief
        BY <1>5 DEF Brief
    <2> QED
        BY <1>4, <2>1, <2>2, BriefSteps
<1>6. CASE C64DiskCommand \/ C64Dir
    BY <1>4, <1>6, ListingSteps
<1>7. CASE C64Read
    <2>1. /\ cpc = "exec" /\ data.op = "READ" /\ cpc' = "send"
          /\ UNCHANGED pc /\ UNCHANGED wire /\ data' = data
        BY <1>7 DEF C64Read, Handles, Reply
    <2> QED
        BY <1>4, <2>1
<1>8. CASE C64Write
    <2>1. Brief /\ data.op = "WRITE"
        BY <1>8 DEF Brief, C64Write, Handles
    <2>2. /\ cpc = "exec" /\ cpc' = "send" /\ UNCHANGED pc /\ UNCHANGED wire /\ data' = data /\ toPC = <<>>
        BY <2>1, BriefSteps
    <2>3. Opening /\ Opening' /\ file' = file /\ left' = left /\ file \in Seq(Nat)
        BY <1>0, <2>1, <2>2 DEF ToOpen, Opening, pc, TypeOK
    <2>4. /\ \/ disk' = <<>> /\ wopen' = "open" /\ out' = Short(Zero)
             \/ clean' = FALSE
             \/ out' = Short(Fail)
        BY <1>8 DEF C64Write, Reply, Short
    <2>5. Given' = out'[1]
        BY <2>2 DEF Given, wire
    <2>6. ASSUME out' = Short(Fail) PROVE Given'[1] = Fail
        BY <2>5, <2>6, ShortType
    <2>7. ASSUME disk' = <<>>, wopen' = "open" PROVE Stored(<<>>)'
        <3>1. Part' = SubSeq(file, 1, Len(file) - Len(file))
            BY <2>3 DEF Part, Opening
        <3>2. Part' = <<>>
            BY <2>3, <3>1, Emptied
        <3>3. <<>> \o <<>> = <<>>
            BY <2>3, Emptied, EmptySeq
        <3> QED
            BY <2>7, <3>2, <3>3 DEF Stored
    <2>8. Opened'
        BY <2>3, <2>4, <2>6, <2>7 DEF Opened
    <2>9. DataStored'
        BY <2>1, <2>2 DEF DataStored
    <2> QED
        BY <1>1, <1>3, <2>1, <2>2, <2>8, <2>9
<1>9. CASE C64XWrite
    <2>1. Brief /\ data.op = "XWRITE"
        BY <1>9 DEF Brief, C64XWrite, Handles
    <2>2. /\ cpc = "exec" /\ cpc' = "send" /\ UNCHANGED pc /\ UNCHANGED wire /\ data' = data
        BY <2>1, BriefSteps
    <2>3. /\ clean' = clean /\ wopen' = wopen /\ data.bytes \in Seq(Nat) /\ disk \in Seq(Nat)
          /\ disk' = IF wopen = "open" THEN disk \o Counted(data) ELSE disk
        BY <1>9, <2>2 DEF C64XWrite, history, Shape, Packets, TypeOK
    <2>4. ASSUME clean PROVE Stored(<<>>)'
        <3>1. wopen = "open" /\ disk \o data.bytes = Part
            BY <1>0, <2>1, <2>2, <2>4 DEF DataIn, Stored
        <3>2. Counted(data) = data.bytes
            BY <2>1, <2>2, <2>4 DEF Counted, Counts
        <3>3. disk' = Part /\ Part \in Seq(Nat)
            BY <2>3, <3>1, <3>2, ConcatProperties
        <3>4. Part \o <<>> = Part /\ Part' = Part
            BY <2>2, <3>3, Emptied DEF Part, pc
        <3> QED
            BY <2>3, <3>1, <3>3, <3>4 DEF Stored
    <2>5. Opened' /\ DataStored'
        BY <2>1, <2>2, <2>3, <2>4 DEF Opened, DataStored
    <2> QED
        BY <1>1, <1>3, <2>1, <2>2, <2>5
<1>10. CASE C64XWriteFails
    <2>1. Brief /\ data.op = "XWRITE" /\ clean' = FALSE
        BY <1>10 DEF Brief, C64XWriteFails, Handles
    <2>2. /\ cpc = "exec" /\ cpc' = "send" /\ UNCHANGED pc /\ UNCHANGED wire /\ data' = data
        BY <2>1, BriefSteps
    <2>3. Opened' /\ DataStored'
        BY <2>1, <2>2 DEF Opened, DataStored
    <2> QED
        BY <1>1, <1>3, <2>1, <2>2, <2>3
<1>11. CASE C64Send
    <2>1. /\ Answering /\ Answering' /\ cpc' = cpc /\ data' = data /\ toC64' = toC64 /\ Given' = Given
          /\ ppc' = ppc /\ pcmd' = pcmd /\ file' = file /\ left' = left /\ eof' = eof
          /\ disk' = disk /\ wopen' = wopen /\ clean' = clean
        BY <1>11, SendStep DEF pc, c64, history
    <2>2. InBounds' /\ ToOpen' /\ Opened' /\ DataOut'
        BY <1>0, <2>1 DEF InBounds, ToOpen, Opened, DataOut, Opening, Stored, Part
    <2>3. DataIn' /\ DataStored' /\ Between' /\ Written'
        BY <1>0, <2>1 DEF DataIn, DataStored, Between, Written, Stored, Part
    <2> QED
        BY <2>2, <2>3, WritingParts
<1> QED
    BY <1>2, <1>5, <1>6, <1>7, <1>8, <1>9, <1>10, <1>11, ServerSteps DEF Brief

LEMMA WritingStep ==
    ASSUME TypeOK, Shape, Turns, Replies, Writing, Counts, [Next]_vars
    PROVE  Writing'
<1>1. CASE UNCHANGED vars
    BY <1>1 DEF vars, pc, wire, server, c64, history, Writing, Opening, Stored, Part, Answering, Given
<1> QED
    BY <1>1, WritingByUser, WritingByPC, WritingByServer DEF Next

\* Packets that change memory or the access mode.
Effective == Modes \cup {"INIT", "POKE", "FILL", "PUT"}

LEMMA NoEffect ==
    ASSUME NEW p, p.op \notin Effective, NEW s
    PROVE  Effect(p, s) = s
BY DEF Effect, Effective, Modes

LEMMA NoneHasNoEffect == \A s : Effect(None, s) = s
BY NoEffect DEF None, Effective, Modes

LEMMA CountsStep ==
    ASSUME TypeOK, Shape, Turns, Writing, Counts, [Next]_vars
    PROVE  Counts'
<1>1. CASE UNCHANGED vars
    BY <1>1 DEF vars, wire, server, history, Counts
<1>2. CASE User
    <2>1. ppc = "prompt" /\ clean' = clean /\ cpc' = cpc /\ data' = data
        BY <1>2, UserFrame DEF server
    <2>2. toC64' = toC64 \/ toC64'.op \notin {"PUT", "XWRITE"}
        BY <1>2, UserSends
    <2> QED
        BY <2>1, <2>2 DEF Counts
<1>3. CASE PCStep
    <2>1. cpc' = cpc /\ data' = data
        BY <1>3, PCFrame DEF server
    <2>2. CASE PCSendChunk
        <3>1. left <= Len(file) /\ toC64'.count = Len(Chunk)
            BY <2>2, SendChunkType
        <3>2. left > 0 => Len(Chunk) # 0
            BY <3>1, ChunkOf
        <3>3. clean' => clean /\ left > 0
            BY <2>2 DEF PCSendChunk
        <3> QED
            BY <2>1, <3>1, <3>2, <3>3 DEF Counts
    <2>3. CASE ~PCSendChunk
        <3>1. clean' = clean /\ (toC64' = toC64 \/ toC64'.op \in {"XDONE", "GET"})
            BY <1>3, <2>3 DEF PCStep, PCEndWrite, PCEndLoop, PCGetByDma, PCGetRequest, PCRecvGet,
               PCRecvRead, PCRecvDir, PCRecvAck, PCRecvAnswer, Receive, Send, Plain, Pack, wire, history
        <3> QED
            BY <2>1, <3>1 DEF Counts
    <2> QED
        BY <2>2, <2>3
<1>4. CASE C64Take
    BY <1>4 DEF C64Take, Counts, None, history
<1>6. CASE C64Init
    <2>1. /\ cpc' = "main" /\ clean' = clean /\ toC64'.op \in {"none", "lost"}
        BY <1>6, InitStep DEF None, Lost, history
    <2> QED
        BY <2>1 DEF Counts
<1>5. CASE (C64Step \/ C64Stop) /\ ~C64Take /\ ~C64Init
    <2>1. toC64' = toC64 /\ data' = data
        BY <1>5 DEF C64Step, C64SetRam, C64Leave, C64Poke, C64FillBegin, C64FillAll, C64FillStep,
           C64Put, C64Get, C64Answer, C64DiskCommand, C64Dir, C64Read, C64Write, C64XWrite,
           C64XWriteFails, C64XDone, C64Send, C64Sent, C64Stop, wire
    <2>2. cpc' # "exec" \/ cpc' = cpc
        BY <1>5 DEF C64Step, C64SetRam, C64Leave, C64Poke, C64FillBegin, C64FillAll, C64FillStep,
           C64Put, C64Get, C64Answer, C64DiskCommand, C64Dir, C64Read, C64Write, C64XWrite,
           C64XWriteFails, C64XDone, C64Send, C64Sent, C64Stop, ToMain, Reply
    <2>3. clean' => clean
        BY <1>5 DEF C64Step, C64SetRam, C64Leave, C64Poke, C64FillBegin, C64FillAll, C64FillStep,
           C64Put, C64Get, C64Answer, C64DiskCommand, C64Dir, C64Read, C64Write, C64XWrite,
           C64XWriteFails, C64XDone, C64Send, C64Sent, C64Stop, history
    <2> QED
        BY <2>1, <2>2, <2>3 DEF Counts
<1> QED
    BY <1>1, <1>2, <1>3, <1>4, <1>5, <1>6 DEF Next

\* What the user enters changes what memory should hold as the packet will change it.
LEMMA UserMeans ==
    ASSUME TypeOK, User
    PROVE  \/ toC64' = toC64 /\ must' = must
           \/ toC64 = None /\ must' = Effect(toC64', must)
<1>0. must \in [mode : Modes, ram : [Addr -> Nat], reu : [Addr -> Nat]]
    BY DEF TypeOK
<1>1. ASSUME NEW op \in Tells, PCTell(op)
      PROVE  toC64 = None /\ must' = Effect(toC64', must)
    <2>1. /\ toC64 = None /\ toC64'.op = op
          /\ must' = [must EXCEPT !.mode =
                         IF op \in Modes THEN op ELSE IF op = "INIT" THEN "ROM" ELSE must.mode]
        BY <1>1 DEF PCTell, Send, Plain, Pack
    <2>2. CASE op \in Modes
        <3>1. must' = [must EXCEPT !.mode = op] /\ toC64 = None /\ toC64'.op = op
            BY <2>1, <2>2
        <3>2. Effect(toC64', must) = [must EXCEPT !.mode = toC64'.op]
            BY <2>2, <3>1 DEF Effect, Modes
        <3> QED
            BY <3>1, <3>2
    <2>3. CASE op = "INIT"
        <3>1. op \notin Modes
            BY <2>3 DEF Modes
        <3>2. must' = [must EXCEPT !.mode = "ROM"]
            BY <2>1, <2>3, <3>1
        <3> QED
            BY <2>1, <2>3, <3>1, <3>2 DEF Effect
    <2>4. CASE op \notin Modes /\ op # "INIT"
        <3>1. must' = must
            BY <1>0, <2>1, <2>4
        <3>2. toC64'.op \notin Effective
            BY <2>1, <2>4 DEF Effective, Tells
        <3> QED
            BY <2>1, <3>1, <3>2, NoEffect
    <2> QED
        BY <2>2, <2>3, <2>4
<1>2. ASSUME NEW op \in Asks, PCAsk(op)
      PROVE  toC64 = None /\ must' = Effect(toC64', must)
    <2>1. toC64 = None /\ toC64'.op = op /\ must' = must
        BY <1>2 DEF PCAsk, Send, Plain, Pack
    <2>2. toC64'.op \notin Effective
        BY <2>1 DEF Effective, Asks, Modes
    <2> QED
        BY <2>1, <2>2, NoEffect
<1>3. ASSUME NEW a, NEW b, PCPoke(a, b)
      PROVE  toC64 = None /\ must' = Effect(toC64', must)
    <2> DEFINE bytes == [i \in 1 .. b - a |-> Poked]
    <2>1. /\ toC64 = None /\ toC64' = Pack("POKE", a, b - a, bytes)
          /\ must' = [must EXCEPT !.ram = Store(@, a, bytes)]
        BY <1>3, Zenon DEF PCPoke, Send
    <2> HIDE DEF bytes
    <2>2. toC64'.op = "POKE" /\ toC64'.at = a /\ toC64'.bytes = bytes
        BY <2>1 DEF Pack
    <2>3. Effect(toC64', must) = [must EXCEPT !.ram = Store(@, toC64'.at, toC64'.bytes)]
        BY <2>2 DEF Effect, Modes
    <2> QED
        BY <2>1, <2>2, <2>3, Zenon
<1>4. ASSUME NEW a, NEW b, PCFill(a, b)
      PROVE  toC64 = None /\ must' = Effect(toC64', must)
    <2>1. /\ toC64 = None /\ toC64' = Pack("FILL", a, b, <<>>)
          /\ must' = [must EXCEPT !.ram = Fill(@, a, b)]
        BY <1>4 DEF PCFill, Send
    <2>2. toC64'.op = "FILL" /\ toC64'.at = a /\ toC64'.count = b
        BY <2>1 DEF Pack
    <2> QED
        BY <2>1, <2>2 DEF Effect, Modes
<1>5. ASSUME NEW n, PCWrite(n)
      PROVE  toC64 = None /\ must' = Effect(toC64', must)
    <2>1. toC64 = None /\ toC64'.op = "WRITE" /\ must' = must
        BY <1>5 DEF PCWrite, Send, Plain, Pack
    <2>2. toC64'.op \notin Effective
        BY <2>1 DEF Effective, Modes
    <2> QED
        BY <2>1, <2>2, NoEffect
<1>6. ASSUME NEW n, NEW a, NEW b, PCPut(n, a) \/ PCGet(a, b)
      PROVE  toC64' = toC64 /\ must' = must
    BY <1>6 DEF PCPut, PCGet, wire
<1> QED
    BY <1>1, <1>2, <1>3, <1>4, <1>5, <1>6 DEF User

LEMMA PCMeans ==
    ASSUME TypeOK, Writing, PCStep
    PROVE  /\ clean' => clean
           /\ \/ toC64' = toC64 /\ must' = must
              \/ toC64 = None /\ must' = Effect(toC64', must)
<1>1. CASE PCSendChunk
    <2>1. /\ toC64'.op = (IF pcmd = "PUT" THEN "PUT" ELSE "XWRITE")
          /\ toC64'.at = at /\ toC64'.bytes = Chunk
        BY <1>1, SendChunkType
    <2>2. /\ toC64 = None /\ clean' => clean
          /\ pcmd = "PUT" /\ must.mode = "REU" => must' = [must EXCEPT !.reu = Store(@, at, Chunk)]
          /\ pcmd = "PUT" /\ must.mode # "REU" => must' = [must EXCEPT !.ram = Store(@, at, Chunk)]
          /\ pcmd # "PUT" => must' = must
        BY <1>1 DEF PCSendChunk, Send
    <2>3. must' = Effect(toC64', must)
        <3>1. CASE pcmd = "PUT" /\ must.mode = "REU"
            BY <2>1, <2>2, <3>1 DEF Effect, Modes
        <3>2. CASE pcmd = "PUT" /\ must.mode # "REU"
            BY <2>1, <2>2, <3>2 DEF Effect, Modes
        <3>3. CASE pcmd # "PUT"
            BY <2>1, <2>2, <3>3, NoEffect DEF Effective, Modes
        <3> QED
            BY <3>1, <3>2, <3>3
    <2> QED
        BY <1>1, <2>3 DEF PCSendChunk, Send
<1>2. CASE PCEndWrite \/ PCGetRequest
    <2>1. toC64 = None /\ toC64'.op \in {"XDONE", "GET"} /\ must' = must /\ clean' = clean
        BY <1>2 DEF PCEndWrite, PCGetRequest, Send, Plain, Pack, history
    <2>2. toC64'.op \notin Effective
        BY <2>1 DEF Effective, Modes
    <2> QED
        BY <2>1, <2>2, NoEffect
<1>3. CASE ~PCSendChunk /\ ~PCEndWrite /\ ~PCGetRequest
    BY <1>3 DEF PCStep, PCEndLoop, PCGetByDma, PCRecvGet, PCRecvRead, PCRecvDir, PCRecvAck,
       PCRecvAnswer, Receive, wire, history
<1> QED
    BY <1>1, <1>2, <1>3

\* What the server is at, and what it has done, come to the same.
LEMMA FillGoesOn ==
    ASSUME TypeOK, Shape, Filling, C64FillStep
    PROVE  /\ (ptr + 1) % Size # data.count => Fill(ram', data.at, data.count) = Fill(ram, data.at, data.count)
           /\ (ptr + 1) % Size = data.count => ram' = Fill(ram, data.at, data.count)
<1>1. /\ cpc = "fill" /\ ram' = [ram EXCEPT ![ptr] = Filled] /\ ram \in [Addr -> Nat] /\ ptr \in Addr
    BY DEF C64FillStep, TypeOK
<1>2. /\ data.at \in Addr /\ data.count \in Addr /\ data.at # data.count
      /\ Distance(data.at, ptr) < Distance(data.at, data.count)
      /\ \A x \in Addr : Distance(data.at, x) < Distance(data.at, ptr) + 1
                           => x = ptr \/ ram[x] = Filled
      /\ (ptr + 1) % Size = data.count =>
            Distance(data.at, data.count) = Distance(data.at, ptr) + 1
    BY <1>1, FillFacts DEF Filling
<1> DEFINE a == data.at
           b == data.count
           In(x) == a = b \/ Distance(a, x) < Distance(a, b)
<1>3. \A x \in Addr : ram'[x] = IF x = ptr THEN Filled ELSE ram[x]
    BY <1>1
<1>4. In(ptr)
    BY <1>2
<1>5. ASSUME NEW m PROVE Fill(m, a, b) = [x \in Addr |-> IF In(x) THEN Filled ELSE m[x]]
    BY DEF Fill
<1>6. \A x \in Addr : (IF In(x) THEN Filled ELSE ram'[x]) = (IF In(x) THEN Filled ELSE ram[x])
    BY <1>3, <1>4
<1>7. [x \in Addr |-> IF In(x) THEN Filled ELSE ram'[x]] = [x \in Addr |-> IF In(x) THEN Filled ELSE ram[x]]
    <2> HIDE DEF In
    <2> QED
        BY <1>6, Zenon
<1>8. Fill(ram', a, b) = Fill(ram, a, b)
    BY <1>5, <1>7, Zenon
<1>9. ASSUME (ptr + 1) % Size = b PROVE ram' = Fill(ram, a, b)
    <2>1. \A x \in Addr : ram'[x] = IF In(x) THEN Filled ELSE ram[x]
        <3> SUFFICES ASSUME NEW x \in Addr PROVE ram'[x] = IF In(x) THEN Filled ELSE ram[x]
            OBVIOUS
        <3>1. CASE In(x)
            <4>1. x = ptr \/ ram[x] = Filled
                BY <1>2, <1>9, <3>1
            <4> QED
                BY <1>3, <3>1, <4>1
        <3>2. CASE ~In(x)
            <4>1. x # ptr
                BY <1>4, <3>2
            <4> HIDE DEF In
            <4> QED
                BY <1>3, <3>2, <4>1
        <3> QED
            BY <3>1, <3>2
    <2>2. ram' = [x \in Addr |-> ram'[x]]
        BY <1>1
    <2> HIDE DEF In
    <2>3. [x \in Addr |-> ram'[x]] = [x \in Addr |-> IF In(x) THEN Filled ELSE ram[x]]
        BY <2>1, Zenon
    <2> QED
        BY <1>5, <2>2, <2>3, Zenon
<1> QED
    BY <1>8, <1>9

LEMMA PendingStep ==
    ASSUME TypeOK, Shape, Filling, Turns, Writing, Counts, Pending, [Next]_vars
    PROVE  Pending'
<1>0. \A s : Effect(None, s) = s
    BY NoneHasNoEffect
\* The PC enters or sends something; the server does not move.
<1>1. ASSUME clean' => clean, UNCHANGED server, UNCHANGED c64,
             \/ toC64' = toC64 /\ must' = must
             \/ toC64 = None /\ must' = Effect(toC64', must)
      PROVE  Pending'
    <2>1. Present' = Present /\ cpc' = cpc
        BY <1>1 DEF Present, State, server, c64
    <2>2. CASE toC64' = toC64 /\ must' = must
        BY <1>1, <2>1, <2>2 DEF Pending
    <2>3. CASE toC64 = None /\ must' = Effect(toC64', must)
        <3> SUFFICES ASSUME clean', cpc' # "gone" PROVE must' = Effect(toC64', Present')
            BY DEF Pending
        <3>2. toC64 # Lost
            BY <2>3 DEF None, Lost
        <3>1. must = Present
            BY <1>0, <1>1, <2>1, <2>3, <3>2 DEF Pending
        <3> QED
            BY <2>1, <2>3, <3>1
    <2> QED
        BY <1>1, <2>2, <2>3
<1>2. CASE UNCHANGED vars
    BY <1>1, <1>2 DEF vars, wire, server, c64, history
<1>3. CASE User
    BY <1>1, <1>3, UserFrame, UserMeans
<1>4. CASE PCStep
    BY <1>1, <1>4, PCFrame, PCMeans
\* The server does what the packet says, or goes on with it.
<1>5. ASSUME clean => Present' = Present, toC64' = toC64, UNCHANGED must, clean' => clean, cpc # "gone"
      PROVE  Pending'
    BY <1>5 DEF Pending
<1>6. CASE C64Take
    <2>1. /\ cpc = "main" /\ cpc' = "exec" /\ data' = toC64 /\ toC64' = None
          /\ must' = must /\ clean' = clean
          /\ access' = access /\ ram' = ram /\ reu' = reu
        BY <1>6 DEF C64Take, c64, history
    <2>2. Present = State /\ State' = State
        BY <2>1 DEF Present, State
    <2>3. Present' = Effect(toC64, State)
        BY <2>1, <2>2 DEF Present
    <2>4. toC64 # Lost
        BY <1>6 DEF C64Take
    <2> QED
        BY <1>0, <2>1, <2>2, <2>3, <2>4 DEF Pending
<1>7. CASE C64Leave \/ C64FillAll \/ C64Stop
    BY <1>7 DEF C64Leave, C64FillAll, C64Stop, Pending
<1>8. CASE C64SetRam
    <2>1. /\ cpc = "exec" /\ cpc' = "main" /\ toC64' = toC64 /\ must' = must /\ clean' = clean
          /\ ram' = ram /\ reu' = reu
          /\ \/ data.op \in Modes /\ access' = data.op
             \/ data.op = "SETDEV" /\ access' = access
        BY <1>8 DEF C64SetRam, ToMain, Handles, wire, history
    <2>2. Effect(data, State) = [mode |-> access', ram |-> ram, reu |-> reu]
        <3>1. CASE data.op \in Modes
            BY <2>1, <3>1 DEF Effect, State, Modes
        <3>2. CASE data.op = "SETDEV"
            BY <2>1, <3>2 DEF Effect, State, Modes
        <3> QED
            BY <2>1, <3>1, <3>2
    <2>3. Present' = Present
        BY <2>1, <2>2 DEF Present, State
    <2> QED
        BY <1>5, <2>1, <2>3
\* What is lost has no effect; else the server starts in the mode it always starts in.
<1>17. CASE C64Init
    <2>1. /\ cpc = "exec" /\ cpc' = "main" /\ must' = must /\ clean' = clean
          /\ ram' = ram /\ reu' = reu /\ access' = "ROM" /\ data.op = "INIT"
          /\ toC64' = IF toC64 = None THEN None ELSE Lost
        BY <1>17, InitStep DEF history
    <2>2. CASE toC64 = None
        <3>1. Effect(data, State) = [mode |-> access', ram |-> ram, reu |-> reu]
            BY <2>1 DEF Effect, State, Modes
        <3>2. Present' = Present
            BY <2>1, <3>1 DEF Present, State
        <3> QED
            BY <1>5, <2>1, <2>2, <3>2
    <2>3. CASE toC64 # None
        BY <2>1, <2>3 DEF Pending
    <2> QED
        BY <2>2, <2>3
<1>9. CASE C64Poke
    <2>1. /\ cpc = "exec" /\ cpc' = "main" /\ toC64' = toC64 /\ must' = must /\ clean' = clean
          /\ access' = access /\ reu' = reu /\ data.op = "POKE"
          /\ ram' = Store(ram, data.at, data.bytes)
        BY <1>9 DEF C64Poke, ToMain, Handles, wire, history
    <2>2. Effect(data, State) = [mode |-> access, ram |-> ram', reu |-> reu]
        BY <2>1 DEF Effect, State, Modes
    <2>3. Present' = Present
        BY <2>1, <2>2 DEF Present, State
    <2> QED
        BY <1>5, <2>1, <2>3
<1>10. CASE C64FillBegin
    <2>1. /\ cpc = "exec" /\ cpc' = "fill" /\ toC64' = toC64 /\ data' = data /\ must' = must /\ clean' = clean
          /\ access' = access /\ ram' = ram /\ reu' = reu
        BY <1>10 DEF C64FillBegin, Handles, wire, c64, history
    <2>2. Present' = Present
        BY <2>1 DEF Present, State
    <2> QED
        BY <1>5, <2>1, <2>2
<1>11. CASE C64FillStep
    <2>1. /\ cpc = "fill" /\ toC64' = toC64 /\ data' = data /\ must' = must /\ clean' = clean
          /\ access' = access /\ reu' = reu
          /\ cpc' = IF (ptr + 1) % Size = data.count THEN "main" ELSE "fill"
        BY <1>11 DEF C64FillStep, wire, history
    <2>2. data.op = "FILL"
        BY <2>1 DEF Filling
    <2>3. Effect(data, State) = [mode |-> access, ram |-> Fill(ram, data.at, data.count), reu |-> reu]
        BY <2>2 DEF Effect, State, Modes
    <2>4. Effect(data, State)' = [mode |-> access, ram |-> Fill(ram', data.at, data.count), reu |-> reu]
        BY <2>1, <2>2 DEF Effect, State, Modes
    <2>5. CASE (ptr + 1) % Size = data.count
        <3>1. ram' = Fill(ram, data.at, data.count)
            BY <1>11, <2>5, FillGoesOn
        <3>2. Present' = Present
            BY <2>1, <2>3, <2>5, <3>1 DEF Present, State
        <3> QED
            BY <1>5, <2>1, <3>2
    <2>6. CASE (ptr + 1) % Size # data.count
        <3>1. Fill(ram', data.at, data.count) = Fill(ram, data.at, data.count)
            BY <1>11, <2>6, FillGoesOn
        <3>2. Present' = Present
            BY <2>1, <2>3, <2>4, <2>6, <3>1 DEF Present
        <3> QED
            BY <1>5, <2>1, <3>2
    <2> QED
        BY <2>5, <2>6
<1>12. CASE C64Put
    <2>1. /\ cpc = "exec" /\ cpc' = "send" /\ toC64' = toC64 /\ must' = must /\ clean' = clean
          /\ access' = access /\ data.op = "PUT"
        BY <1>12 DEF C64Put, Reply, Handles, wire, history
    <2>2. ASSUME clean PROVE Present' = Present
        <3>1. data.count # 0
            BY <2>1, <2>2 DEF Counts
        <3>2. Counted(data) = data.bytes
            BY <3>1 DEF Counted
        <3>3. IF access = "REU"
              THEN reu' = Store(reu, data.at, data.bytes) /\ ram' = ram
              ELSE ram' = Store(ram, data.at, data.bytes) /\ reu' = reu
            BY <1>12, <3>1, <3>2 DEF C64Put
        <3>4. Effect(data, State) = [mode |-> access, ram |-> ram', reu |-> reu']
            <4>1. CASE access = "REU"
                BY <2>1, <3>3, <4>1 DEF Effect, State, Modes
            <4>2. CASE access # "REU"
                BY <2>1, <3>3, <4>2 DEF Effect, State, Modes
            <4> QED
                BY <4>1, <4>2
        <3> QED
            BY <2>1, <3>4 DEF Present, State
    <2> QED
        BY <1>5, <2>1, <2>2
\* Packets that change nothing, and answers on their way.
<1>13. ASSUME cpc = "exec" => data.op \notin Effective, cpc \in {"exec", "send"},
              cpc' \in {"main", "send"}, toC64' = toC64, UNCHANGED must, (clean' = clean \/ ~clean'),
              access' = access, ram' = ram, reu' = reu
       PROVE  Pending'
    <2>1. Present' = State
        BY <1>13 DEF Present, State
    <2>2. Present = State
        BY <1>13, NoEffect DEF Present
    <2>3. (clean' => clean) /\ cpc # "gone" /\ (clean => Present' = Present)
        BY <1>13, <2>1, <2>2
    <2> QED
        BY <1>5, <1>13, <2>3
<1>14. CASE C64Get \/ C64Answer \/ C64DiskCommand \/ C64Dir \/ C64Read
    <2>1. /\ cpc = "exec" /\ data.op \in {"GET", "TELLDEV", "STATUS", "SYS", "DISKCOMMAND", "DIR", "READ"}
          /\ cpc' = "send" /\ toC64' = toC64 /\ must' = must /\ clean' = clean
          /\ access' = access /\ ram' = ram /\ reu' = reu
        BY <1>14 DEF C64Get, C64Answer, C64DiskCommand, C64Dir, C64Read, Handles, Reply, wire, c64, history
    <2> QED
        BY <1>13, <2>1 DEF Effective, Modes
<1>15. CASE C64Write \/ C64XWrite \/ C64XWriteFails \/ C64XDone
    <2>1. /\ cpc = "exec" /\ data.op \in {"WRITE", "XWRITE", "XDONE"}
          /\ cpc' \in {"main", "send"} /\ toC64' = toC64 /\ must' = must /\ (clean' = clean \/ ~clean')
          /\ access' = access /\ ram' = ram /\ reu' = reu
        BY <1>15 DEF C64Write, C64XWrite, C64XWriteFails, C64XDone, Handles, Reply, ToMain, wire, history
    <2>2. data.op \notin Effective
        BY <2>1 DEF Effective, Modes
    <2> QED
        BY <1>13, <2>1, <2>2
<1>16. CASE C64Send \/ C64Sent
    <2>1. /\ cpc = "send" /\ cpc' \in {"main", "send"} /\ toC64' = toC64 /\ must' = must /\ clean' = clean
          /\ access' = access /\ ram' = ram /\ reu' = reu
        BY <1>16 DEF C64Send, C64Sent, wire, c64, history
    <2> QED
        BY <1>13, <2>1
<1> QED
    BY <1>2, <1>3, <1>4, <1>6, <1>7, <1>8, <1>9, <1>10, <1>11, <1>12, <1>14, <1>15, <1>16, <1>17
    DEF Next, C64Step

\* At rest, or at a packet that changes nothing, memory is what it should be.
LEMMA MemoryIsCurrent ==
    ASSUME TypeOK, Pending, clean, toC64 = None, cpc \in {"main", "send"} \/ (cpc = "exec" /\ data.op \notin Effective)
    PROVE  must = State /\ must.mode = access /\ must.ram = ram /\ must.reu = reu
<1>1. Present = State
    BY NoEffect DEF Present
<1>2. must = Effect(None, Present)
    BY DEF Pending, None, Lost
<1>3. must = State
    BY <1>1, <1>2, NoneHasNoEffect
<1> QED
    BY <1>3 DEF State

LEMMA GettingStep ==
    ASSUME TypeOK, Shape, Turns, Replies, Writing, Pending, Getting, [Next]_vars
    PROVE  Getting'
<1>0. "GET" \in Answered /\ None.op # "GET"
    BY DEF Answered, Loops, None
<1>1. CASE UNCHANGED vars
    BY <1>1 DEF vars, pc, wire, server, history, Getting, Asked, Step, Answering, Given
\* The PC goes on while nothing is under way.
<1>2. ASSUME ppc # "recv", toPC' = toPC, UNCHANGED server,
             toC64' = toC64 \/ toC64'.op # "GET" \/ Asked(toC64)'
      PROVE  Getting'
    <2>1. /\ toC64.op \notin Answered /\ (cpc = "exec" => data.op \notin Answered) /\ ~Answering
        BY <1>2, NoAnswerDue
    <2>2. cpc' = cpc /\ data' = data /\ ~Answering'
        BY <1>2, <2>1 DEF server, Answering
    <2> QED
        BY <1>0, <1>2, <2>1, <2>2 DEF Getting
<1>3. CASE User
    <2>1. toC64' = toC64 \/ toC64'.op # "GET"
        BY <1>3, UserSends
    <2> QED
        BY <1>2, <1>3, <2>1, UserFrame
<1>4. CASE PCStep /\ ~Receive
    <2>1. toC64' = toC64 \/ toC64'.op # "GET" \/ PCGetRequest
        BY <1>4 DEF PCStep, PCSendChunk, PCEndWrite, PCEndLoop, PCGetByDma, PCRecvGet, PCRecvRead,
           PCRecvDir, PCRecvAck, PCRecvAnswer, Send, Plain, Pack, wire
    <2>2. ASSUME PCGetRequest PROVE Asked(toC64)'
        <3>1. toC64'.at = at /\ toC64'.count = Step /\ left > 0 /\ at' = at /\ left' = left
            BY <2>2 DEF PCGetRequest, Send, Pack
        <3> QED
            BY <3>1 DEF Asked, Step
    <2> QED
        BY <1>2, <1>4, <2>1, <2>2, PCFrame
<1>5. CASE PCStep /\ Receive
    <2>1. /\ cpc = "send" /\ toC64' = None /\ toPC' = <<>>
          /\ data.op = "GET" => out = <<>>
        BY <1>5, Receiving
    <2>2. cpc' = cpc /\ data' = data /\ out' = out
        BY <1>5, PCFrame DEF server
    <2> QED
        BY <1>0, <2>1, <2>2 DEF Getting, Answering
<1>6. CASE Quiet
    <2>1. /\ ~Answering' /\ at' = at /\ Step' = Step /\ left' = left
        BY <1>6, QuietSteps DEF pc, Step
    <2>2. CASE C64Take
        <3>1. data' = toC64 /\ toC64' = None
            BY <2>2 DEF C64Take
        <3> QED
            BY <1>0, <2>1, <3>1 DEF Getting, Asked
    <2>4. CASE C64Init
        <3>1. cpc' = "main" /\ toC64'.op \in {"none", "lost"}
            BY <2>4, InitStep DEF None, Lost
        <3> QED
            BY <2>1, <3>1 DEF Getting
    <2>3. CASE ~C64Take /\ ~C64Init
        <3>1. toC64' = toC64 /\ cpc' # "exec"
            BY <1>6, <2>3 DEF Quiet, C64SetRam, C64Leave, C64Poke, C64FillBegin, C64FillAll,
               C64FillStep, C64XDone, C64Sent, C64Stop, ToMain, wire
        <3> QED
            BY <2>1, <3>1 DEF Getting, Asked
    <2> QED
        BY <2>2, <2>3, <2>4
\* The server answers something else.
<1>7. ASSUME cpc' = "send", UNCHANGED pc, UNCHANGED wire, data' = data, data.op # "GET"
      PROVE  Getting'
    BY <1>7 DEF Getting, Asked, Step, pc, wire
<1>8. CASE Brief /\ ~C64Get
    <2>1. data.op # "GET"
        BY <1>8 DEF Brief, C64Put, C64Answer, C64Write, C64XWrite, C64XWriteFails, Handles
    <2> QED
        BY <1>7, <1>8, <2>1, BriefSteps
<1>9. CASE C64DiskCommand \/ C64Dir
    <2>1. data.op # "GET"
        BY <1>9, ListingSteps
    <2> QED
        BY <1>7, <1>9, <2>1, ListingSteps
<1>10. CASE C64Read
    <2>1. cpc' = "send" /\ UNCHANGED pc /\ UNCHANGED wire /\ data' = data /\ data.op # "GET"
        BY <1>10 DEF C64Read, Reply, Handles
    <2> QED
        BY <1>7, <2>1
<1>11. CASE C64Get
    <2>1. /\ cpc = "exec" /\ data.op = "GET" /\ cpc' = "send" /\ data' = data
          /\ UNCHANGED pc /\ UNCHANGED wire /\ UNCHANGED history
          /\ out' = << View(access, ram, reu, data.at, data.count) >>
        BY <1>11 DEF C64Get, Handles, Reply
    <2>2. Asked(data) /\ toC64 = None /\ toPC = <<>>
        BY <1>0, <2>1, NoAnswerYet DEF Getting
    <2>3. Given' = View(access, ram, reu, at, Step)
        BY <2>1, <2>2 DEF Given, Asked, wire
    <2>4. clean => must.mode = access /\ must.ram = ram /\ must.reu = reu
        BY <2>1, <2>2, MemoryIsCurrent DEF Effective, Modes
    <2>5. at' = at /\ Step' = Step /\ left' = left /\ must' = must /\ clean' = clean /\ toC64' = toC64
        BY <2>1 DEF pc, wire, history, Step
    <2> QED
        BY <1>0, <2>1, <2>2, <2>3, <2>4, <2>5 DEF Getting
<1>12. CASE C64Send
    <2>1. /\ Answering /\ Answering' /\ cpc' = cpc /\ data' = data /\ toC64' = toC64 /\ Given' = Given
          /\ cpc = "send" /\ at' = at /\ Step' = Step /\ left' = left /\ must' = must /\ clean' = clean
        BY <1>12, SendStep DEF pc, history, Step
    <2> QED
        BY <2>1 DEF Getting, Asked
<1> QED
    BY <1>1, <1>3, <1>4, <1>5, <1>6, <1>8, <1>9, <1>10, <1>11, <1>12, ServerSteps DEF Next

-----------------------------------------------------------------------------
(***************************************************************************)
(* The theorems.                                                           *)
(***************************************************************************)
LEMMA InitInvariant == Init => IInv
<1> SUFFICES ASSUME Init PROVE IInv
    OBVIOUS
<1>1. TypeOK /\ Shape
    BY InitTypes
<1>2. /\ ppc = "prompt" /\ pcmd = "none" /\ toC64 = None /\ toPC = <<>> /\ out = <<>>
      /\ cpc = "main" /\ data = None /\ clean = TRUE
      /\ must = [mode |-> access, ram |-> ram, reu |-> reu]
    BY DEF Init
<1>3. ~Answering /\ None.op = "none" /\ "none" \notin Answered /\ None # Lost
    BY <1>2 DEF Answering, None, Lost, Answered, Asks, Loops
<1>4. Filling /\ Turns /\ Replies /\ Reading /\ Counts /\ Getting
    BY <1>2, <1>3 DEF Filling, Turns, Replies, Reading, Counts, Getting
<1>5. Writing
    BY <1>2, <1>3 DEF Writing
<1>6. Present = State
    BY <1>2 DEF Present
<1>9. Origin
    BY <1>2, <1>3 DEF Origin
<1>7. Pending
    BY <1>2, <1>6, NoneHasNoEffect DEF Pending, State
<1> QED
    BY <1>1, <1>4, <1>5, <1>7, <1>9 DEF IInv

LEMMA StepInvariant == IInv /\ [Next]_vars => IInv'
<1> SUFFICES ASSUME IInv, [Next]_vars PROVE IInv'
    OBVIOUS
<1>1. /\ TypeOK /\ Shape /\ Filling /\ Turns /\ Replies /\ Reading /\ Writing /\ Pending /\ Counts /\ Getting
      /\ Origin
    BY DEF IInv
<1>2. TypeOK' /\ Shape'
    <2>1. CASE UNCHANGED vars
        BY <1>1, <2>1 DEF vars, pc, wire, server, c64, history, TypeOK, Shape
    <2>2. CASE C64Stop
        BY <1>1, <2>2 DEF C64Stop, pc, wire, c64, history, TypeOK, Shape
    <2> QED
        BY <1>1, <2>1, <2>2, UserTypes, PCTypes, C64Types DEF Next
<1>3. Filling' /\ Turns' /\ Replies'
    BY <1>1, FillingStep, TurnsStep, RepliesStep
<1>4. Reading' /\ Writing' /\ Origin'
    BY <1>1, ReadingStep, WritingStep, OriginStep
<1>5. Pending' /\ Counts' /\ Getting'
    BY <1>1, PendingStep, CountsStep, GettingStep
<1> QED
    BY <1>2, <1>3, <1>4, <1>5 DEF IInv

LEMMA AlwaysInvariant == Spec => []IInv
BY InitInvariant, StepInvariant, PTL DEF Spec

LEMMA InStepHolds == IInv => MonInv
<1> SUFFICES ASSUME IInv PROVE MonInv
    OBVIOUS
<1>1. TypeOK /\ Shape /\ Turns
    BY DEF IInv
<1>2. Answered \subseteq Ops
    BY DEF Answered, Ops
<1>3. ASSUME ppc = "recv"
      PROVE  \/ \E op \in Ops : Sent(op) /\ Working(op)
             \/ cpc = "gone"
             \/ EndlessRead
             \/ toC64 = Lost
    <2>1. CASE toC64.op \in Answered
        BY <1>1, <1>2, <2>1 DEF Turns, Working
    <2>2. CASE cpc = "exec" /\ data.op \in Answered
        BY <1>1, <1>2, <2>2 DEF Turns, Working
    <2>3. CASE Answering
        BY <1>1, <1>2, <2>3 DEF Turns, Working, Answering
    <2>4. CASE cpc = "gone" \/ EndlessRead \/ toC64 = Lost
        BY <2>4
    <2> QED
        BY <1>1, <1>3, <2>1, <2>2, <2>3, <2>4 DEF Turns
<1>4. InStep
    BY <1>1, <1>3 DEF InStep, Turns, Answering
<1> QED
    BY <1>1, <1>4 DEF MonInv

\* By DMA the PC sees what the server would see, where no ROM is meant.
LEMMA DmaIsCurrent ==
    ASSUME TypeOK, left > 0, ~Slow(at, Step), NEW mode, mode # "REU"
    PROVE  View(mode, ram, reu, at, Step) = View("RAM", ram, reu, at, Step)
<1>1. at \in Addr /\ Step \in 1 .. Packet /\ Step \in Nat
    BY StepType, Consts DEF TypeOK
<1>2. \A i \in 0 .. Step - 1 : (at + i) % Size \notin RomArea
    <2>1. at \notin RomArea /\ (at + Step - 1) % Size \notin RomArea
        BY DEF Slow
    <2> QED
        BY <1>1, <2>1, MonAssumption DEF RomIsLong
<1> DEFINE c(m, i) == Cell(m, ram, reu, (at + i - 1) % Size)
<1>3. ASSUME NEW i \in 1 .. Step PROVE c(mode, i) = c("RAM", i)
    <2>1. i - 1 \in 0 .. Step - 1 /\ at + (i - 1) = at + i - 1
        BY <1>1 DEF Addr
    <2>2. (at + i - 1) % Size \notin RomArea
        BY <1>2, <2>1
    <2> QED
        BY <2>2 DEF Cell
<1>4. [i \in 1 .. Step |-> c(mode, i)] = [i \in 1 .. Step |-> c("RAM", i)]
    <2> HIDE DEF c
    <2> QED
        BY <1>3, Zenon
<1> QED
    BY <1>4, Zenon DEF View

LEMMA GetStep ==
    ASSUME IInv, [Next]_vars,
           pcmd = "GET", file' # file, clean,
           ppc = "recv" \/ (ppc = "more" /\ AtRest /\ must.mode # "REU")
    PROVE  file' = file \o View(must.mode, must.ram, must.reu, at, Step)
<1>1. TypeOK /\ Shape /\ Turns /\ Replies /\ Pending /\ Getting
    BY DEF IInv
<1>2. PCRecvGet \/ PCGetByDma
    <2>1. ~UNCHANGED file
        OBVIOUS
    <2>2. PCStep
        <3>1. C64Step \/ C64Stop => UNCHANGED pc
            BY DEF C64Step, C64Take, C64SetRam, C64Init, C64Leave, C64Poke, C64FillBegin, C64FillAll, C64FillStep,
               C64Put, C64Get, C64Answer, C64DiskCommand, C64Dir, C64Read, C64Write, C64XWrite,
               C64XWriteFails, C64XDone, C64Send, C64Sent, C64Stop
        <3> QED
            BY <2>1, <3>1, UserFrame DEF Next, vars, pc
    <2> QED
        BY <2>1, <2>2 DEF PCStep, PCSendChunk, PCEndWrite, PCEndLoop, PCGetRequest, PCRecvRead,
           PCRecvDir, PCRecvAck, PCRecvAnswer
<1>3. CASE PCRecvGet
    <2>1. Receive /\ file' = file \o toPC
        BY <1>3 DEF PCRecvGet
    <2>2. Answering /\ data.op = "GET" /\ Given = toPC
        BY <1>1, <2>1, Receiving
    <2> QED
        BY <1>1, <2>1, <2>2 DEF Getting
<1>4. CASE PCGetByDma
    <2>1. /\ file' = file \o View("RAM", ram, reu, at, Step)
          /\ left > 0 /\ ~Slow(at, Step) /\ ppc = "more"
        BY <1>4 DEF PCGetByDma
    <2>2. must.mode # "REU" /\ must.ram = ram /\ must.reu = reu
        BY <1>1, <2>1, MemoryIsCurrent DEF AtRest
    <2>3. View(must.mode, ram, reu, at, Step) = View("RAM", ram, reu, at, Step)
        BY <1>1, <2>1, <2>2, DmaIsCurrent
    <2> QED
        BY <2>1, <2>2, <2>3
<1> QED
    BY <1>2, <1>3, <1>4

(***************************************************************************)
(* The two programs agree on whose turn it is, whatever the user enters    *)
(* and whatever the drive does: the server only sends what the PC waits    *)
(* for, and the PC only waits while its command is before the server, the  *)
(* server has gone, a READ has met a stream that ends with a full packet   *)
(* or with none (no drive), or the command came right behind an INIT.      *)
(***************************************************************************)
THEOREM InStepAlways == Spec => []MonInv
BY AlwaysInvariant, InStepHolds, PTL

(***************************************************************************)
(* READ: whenever the prompt is back, the local file is all the drive sent *)
(* in that order, whatever its length, and that is the remote file or, if  *)
(* the drive stopped early, a proper part of it with a byte of junk.       *)
(***************************************************************************)
THEOREM FilesArrive == Spec => []ReadDelivers
<1>1. IInv => ReadDelivers
    BY DEF IInv, Reading, Origin, ReadDelivers
<1> QED
    BY <1>1, AlwaysInvariant, PTL

(***************************************************************************)
(* WRITE: whenever the prompt is back and the drive took every packet and  *)
(* none was empty, the remote file is the local file.                      *)
(***************************************************************************)
THEOREM FilesAreStored == Spec => []WriteStores
<1>1. IInv => WriteStores
    BY DEF IInv, Writing, WriteStores
<1> QED
    BY <1>1, AlwaysInvariant, PTL

(***************************************************************************)
(* Whenever the server is at rest, memory and access mode are what the     *)
(* commands entered so far make of them, in their order, although most of  *)
(* them are not answered.                                                  *)
(***************************************************************************)
THEOREM CommandsInOrder == Spec => []InOrder
<1>1. IInv => InOrder
    BY MemoryIsCurrent DEF IInv, InOrder, AtRest
<1> QED
    BY <1>1, AlwaysInvariant, PTL

(***************************************************************************)
(* A block of memory the PC reads reflects every command entered before,   *)
(* whether it comes from the server or, with the server at rest, by DMA.   *)
(***************************************************************************)
THEOREM BlocksAreCurrent == Spec => GetIsCurrent
<1>1. IInv /\ [Next]_vars =>
        [ /\ pcmd = "GET" /\ file' # file /\ clean
          /\ ppc = "recv" \/ (ppc = "more" /\ AtRest /\ must.mode # "REU")
          => file' = file \o View(must.mode, must.ram, must.reu, at, Step) ]_vars
    BY GetStep
<1> QED
    BY <1>1, AlwaysInvariant, PTL DEF Spec, GetIsCurrent
=============================================================================
