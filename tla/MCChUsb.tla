------------------------------ MODULE MCChUsb ------------------------------
(* Sessions over ChUsb: chcodenet alone in every way it starts a program,   *)
(* and chusb, which sends its server and gives it one or two commands.      *)
EXTENDS ChUsb

MCFixed == [a |-> "A", b |-> "B", c |-> "B"]
MCNumSectors == <<2, 1>>
MCServer == [load |-> 1, body |-> <<1, 1>>]
MCStocks == {{}, {[name |-> "a", type |-> "seq", body |-> <<1>>],
                  [name |-> "c", type |-> "prg", body |-> <<0, 1>>]}}
MCDisks == {[p \in TS |-> IF p = <<1, 1>> THEN 2 ELSE 3]}

\* Sectors 1 and 2 hold the directory, 3, 4 and 5 the files.
File(n, t, p) == [name |-> n, type |-> t, first |-> p]
Holds(next, e, b) == [next |-> next, entries |-> e, bytes |-> b]
Img(d1, d2, s3, s4, s5) ==
    [dir |-> 1, own |-> {1}, sector |-> <<d1, d2, s3, s4, s5>>]

PlainDir == Holds(End, <<File("a", "prg", 3)>>, <<>>)
LongDir == Holds(2, <<File("c", "del", 3), File("a", "seq", 3)>>, <<>>)
MoreDir == Holds(End, <<File("b", "prg", 4)>>, <<>>)
TwoDir == Holds(End, <<File("a", "prg", 3), File("b", "prg", 4)>>, <<>>)
Unused == Holds(End, <<>>, <<>>)
Last(b) == Holds(End, <<>>, b)
Link(p, b) == Holds(p, <<>>, b)

TwoOfTwo == Img(TwoDir, Last(<<1>>), Link(5, <<1>>), Link(2, <<0>>), Last(<<0>>))
BadDir == Img(Holds(Illegal, <<File("a", "prg", 3)>>, <<>>), Unused, Last(<<1>>), Unused, Unused)

MCImages ==
    { TwoOfTwo, BadDir,
      Img(PlainDir, Unused, Link(5, <<1>>), Unused, Last(<<0>>)),            \* a file of two sectors
      Img(LongDir, MoreDir, Last(<<1, 0>>), Link(5, <<1>>), Last(<<1>>)),    \* two directory sectors
      Img(Holds(End, <<File("c", "seq", 1), File("a", "prg", 3)>>, <<>>), Unused, Last(<<1>>), Unused, Unused),
      Img(PlainDir, Unused, Last(<<>>), Unused, Unused),                     \* an empty file
      Img(TwoDir, Unused, Link(4, <<1>>), Link(3, <<0>>), Unused),           \* a loop
      Img(TwoDir, Unused, Link(5, <<1>>), Link(5, <<0>>), Last(<<1>>)),      \* files that share a sector
      Img(PlainDir, Unused, Link(4, <<1>>), Link(2, <<0>>), Link(5, <<1>>)), \* a chain into the directory
      Img(TwoDir, Unused, Link(5, <<1>>), Link(4, <<0>>), Link(Illegal, <<1>>)), \* a bad link
      Img(TwoDir, Unused, Link(Illegal, <<1>>), Link(Illegal, <<0>>), Unused),   \* two bad links
      Img(Holds(End, <<File("a", "seq", End), File("a", "prg", 3), File("a", "prg", 3)>>, <<>>), Unused,
          Link(5, <<1>>), Unused, Last(<<0>>)),                              \* no sector, the same twice
      Img(Holds(2, <<>>, <<>>), Holds(1, <<>>, <<>>), Unused, Unused, Unused),
      Img(Holds(2, <<File("a", "prg", 3)>>, <<>>), Holds(2, <<>>, <<>>),
          Link(4, <<1>>), Last(<<0>>), Unused),                              \* a directory that never ends
      Img(Holds(1, <<File("a", "prg", 3)>>, <<>>), Unused, Link(4, <<1>>), Last(<<0>>), Unused) }

Program1 == [name |-> "a", type |-> "prg", load |-> 2, body |-> <<1, 0>>]
Short == [load |-> 5, body |-> <<1>>]
Prog == [load |-> 2, body |-> <<1, 0, 1>>]

Op(o) == [op |-> o, file |-> Prog, addr |-> 3, data |-> <<1>>, end |-> 4]
Fill(a, e) == [op |-> "f", file |-> Prog, addr |-> a, data |-> 1, end |-> e]
Poke(o, a) == [op |-> o, file |-> Prog, addr |-> a, data |-> <<1, 1>>, end |-> 0]
Codenet(o) == [prog |-> "chcodenet", opts |-> o]

Usb(c) == [prog |-> "chusb", cmd |-> c, image |-> CHOOSE im \in Images : TRUE, single |-> FALSE,
           file |-> Program1, size |-> "35", kernal |-> FALSE, verify |-> FALSE, data |-> NoImage]
OfImage(c, im) == [Usb(c) EXCEPT !.image = im]
Boot == [Usb("send") EXCEPT !.file = MCServer]
WriteJob(d, n, v) == [Usb("write") EXCEPT !.data = d, !.kernal = n, !.verify = v]
D1 == [i \in 0 .. 2 |-> i + 1]
D2 == [i \in 0 .. 2 |-> 3 - i]

CodenetSessions ==
    { <<Codenet(<<Op("x")>>)>>, <<Codenet(<<Op("e")>>)>>,
      <<Codenet(<<Op("resetwait"), Op("x")>>)>>,
      <<Codenet(<<Op("w"), Poke("wa", 1), Poke("wb", 5), Fill(2, 4), Op("r")>>)>>,
      <<Codenet(<<Op("reset"), Op("ignored"), Op("x")>>)>>,
      <<Codenet(<<Op("vic20"), Op("resetwait")>>)>>, <<Codenet(<<Op("usage")>>)>>,
      <<Codenet(<<[Op("x") EXCEPT !.file.load = 4]>>)>>,
      <<Codenet(<<Op("x")>>), Codenet(<<Op("resetwait"), Op("r")>>)>> }

ChusbSessions ==
    { <<Boot, OfImage("copy", im)>> : im \in Images }
    \cup { <<OfImage("dir", im)>> : im \in Images }
    \cup { <<Boot, j>> : j \in {WriteJob(D1, n, v) : n, v \in BOOLEAN}
             \cup {[Usb("read") EXCEPT !.kernal = n] : n \in BOOLEAN}
             \cup {[Usb("copy") EXCEPT !.single = TRUE], Usb("fetch"), Usb("format"), Usb("test"),
                   [Usb("send") EXCEPT !.file = Prog], [Usb("read") EXCEPT !.size = "other"],
                   [Usb("write") EXCEPT !.size = "40", !.kernal = TRUE]} }
    \cup { <<Boot, Usb("format"), WriteJob(D2, TRUE, TRUE)>>, <<Boot, Usb("test"), Usb("format")>>,
           <<Boot, OfImage("copy", TwoOfTwo), OfImage("copy", BadDir)>>, <<Boot, OfImage("copy", BadDir), Usb("fetch")>>,
           <<[Usb("dir") EXCEPT !.single = TRUE], [Usb("send") EXCEPT !.file = Short]>>,
           <<[Usb("execute") EXCEPT !.file = Prog]>> }

MCSessions == CodenetSessions \cup ChusbSessions
=============================================================================
