----------------------------- MODULE ChUsbWalk -----------------------------
(***************************************************************************)
(* The copy and dir commands of chusb walk a disk image: sector by sector  *)
(* through the directory, entry by entry, and from the first sector of a   *)
(* file through its links.  Copy sends what it has collected of a file     *)
(* (module ChUsb), dir only looks.  The image is a file the user names,    *)
(* its links can be anything.                                              *)
(***************************************************************************)
EXTENDS Integers, Sequences

CONSTANTS
    Places,    \* the sectors of an image: linearSector(track, sector)
    UsedSize,  \* the length of usedtr and usedse
    Images     \* the images considered

End == 0       \* track 0, the end of a chain
Illegal == -1  \* a track or sector off() knows no place for

(***************************************************************************)
(* An image is where its directory begins, the sectors where no file may   *)
(* start (18/0 and 18/1, none in a .d81) and what its sectors hold: the    *)
(* link, and entries or the bytes of a file.  The last sector of a file    *)
(* says how many bytes it has, none for an empty file.                     *)
(***************************************************************************)
ASSUME WalkAssumption ==
    /\ UsedSize \in Nat /\ UsedSize > 0
    /\ Places \subseteq Nat \ {End}
    /\ \A im \in Images :
          /\ im.dir \in Places /\ DOMAIN im.sector = Places
          /\ \A p \in Places :
                LET e == im.sector[p].entries IN
                im.sector[p].next \in Places \cup {End, Illegal} /\ e \in Seq({e[i] : i \in DOMAIN e})

VARIABLES
    upc,                    \* where the program stands
    image, copying,         \* the image; the copy command, not dir
    single,                 \* the file to copy is no image but a .prg or .p00
    nexttr, here, pos,      \* the directory: the next sector, this one, the entry
    filetr, used, usednum,  \* the chain of a file; usedtr and usedse
    filebuf, corrupted      \* the bytes collected

walkVars == <<image, copying, single, nexttr, here, pos, filetr, used, usednum, filebuf, corrupted>>

Entries == image.sector[here].entries
Entry == Entries[pos]

WalkInit ==
    /\ upc = "none" /\ image = (CHOOSE im \in Images : TRUE) /\ copying = FALSE /\ single = FALSE
    /\ nexttr = End /\ here = image.dir /\ pos = 1
    /\ filetr = End /\ used = [i \in 0 .. UsedSize - 1 |-> End] /\ usednum = 0
    /\ filebuf = <<>> /\ corrupted = "no"

\* Only PRG and SEQ files are looked at, and only those that start outside im.own.
IsFile(im, e) == e.type \in {"prg", "seq"} /\ e.first \notin im.own

\* The arrays are cleared with the start of the program, not for every file.
Begin(im, copy, alone, bytes) ==
    /\ image' = im /\ copying' = copy /\ single' = alone
    /\ nexttr' = im.dir /\ here' = im.dir /\ pos' = 1
    /\ filetr' = End /\ used' = [i \in 0 .. UsedSize - 1 |-> End] /\ usednum' = 0
    /\ filebuf' = bytes /\ corrupted' = "no"

\* An illegal directory link ends the program, without the end mark for the C64.
DirectorySector ==
    /\ upc = "directory"
    /\ upc' = CASE nexttr = End -> "endmark"
                [] nexttr = Illegal -> "quit"
                [] OTHER -> "entry"
    /\ IF nexttr \in Places
       THEN here' = nexttr /\ nexttr' = image.sector[nexttr].next /\ pos' = 1
       ELSE UNCHANGED <<here, nexttr, pos>>
    /\ UNCHANGED <<image, copying, single, filetr, used, usednum, filebuf, corrupted>>

LastEntry ==
    /\ upc = "entry" /\ pos > Len(Entries)
    /\ upc' = "directory"
    /\ UNCHANGED walkVars

SkipEntry ==
    /\ upc = "entry" /\ pos <= Len(Entries) /\ ~IsFile(image, Entry)
    /\ pos' = pos + 1
    /\ UNCHANGED <<upc, image, copying, single, nexttr, here, filetr, used, usednum, filebuf, corrupted>>

\* A slip: the arrays are not started from the beginning.
FirstSectorGoesOn ==
    /\ upc = "entry" /\ pos <= Len(Entries) /\ IsFile(image, Entry)
    /\ filetr' = Entry.first /\ filebuf' = <<>> /\ corrupted' = "no"
    /\ upc' = "chain"
    /\ UNCHANGED <<image, copying, single, nexttr, here, pos, used, usednum>>

FirstSector ==
    /\ upc = "entry" /\ pos <= Len(Entries) /\ IsFile(image, Entry)
    /\ filetr' = Entry.first /\ usednum' = 0 /\ filebuf' = <<>> /\ corrupted' = "no"
    /\ upc' = "chain"
    /\ UNCHANGED <<image, copying, single, nexttr, here, pos, used>>

\* The loop over i compares the entry at usednum, not the one at i.
LoopSeen(n, p) == n > 0 /\ n < UsedSize /\ used[n] = p

LoopFound ==
    /\ upc = "chain" /\ LoopSeen(usednum, filetr)
    /\ corrupted' = "loop"
    /\ upc' = "entry" /\ pos' = pos + 1
    /\ UNCHANGED <<image, copying, single, nexttr, here, filetr, used, usednum, filebuf>>

\* The arrays are full and the program writes behind them: anything may happen.
Overrun ==
    /\ upc = "chain" /\ usednum = UsedSize
    /\ upc' = "overrun"
    /\ UNCHANGED walkVars

Remember ==
    /\ upc = "chain" /\ usednum < UsedSize /\ ~LoopSeen(usednum, filetr)
    /\ used' = [used EXCEPT ![usednum] = filetr]
    /\ usednum' = usednum + 1

\* off() has complained; what is read at buf[-1] is not used.
IllegalLink ==
    /\ Remember /\ filetr \notin Places
    /\ corrupted' = "link"
    /\ upc' = "entry" /\ pos' = pos + 1
    /\ UNCHANGED <<image, copying, single, nexttr, here, filetr, filebuf>>

Collect(p) == filebuf \o image.sector[p].bytes

ChainSector ==
    /\ Remember /\ filetr \in Places
    /\ filebuf' = Collect(filetr)
    /\ filetr' = image.sector[filetr].next
    /\ upc' = CASE image.sector[filetr].next # End -> "chain"
                [] image.sector[filetr].next = End /\ copying -> "type"
                [] OTHER -> "entry"
    /\ pos' = IF upc' = "entry" THEN pos + 1 ELSE pos
    /\ UNCHANGED <<image, copying, single, nexttr, here, corrupted>>

WalkNext ==
    \/ DirectorySector \/ LastEntry \/ SkipEntry \/ FirstSector
    \/ LoopFound \/ Overrun \/ IllegalLink \/ ChainSector

-----------------------------------------------------------------------------
(***************************************************************************)
(* What a file is, independent of the walk: its sectors in the order of    *)
(* the links, from p on, n of them at most.                                *)
(***************************************************************************)
Chain(im, p, n) ==
    LET follow[k \in Nat] ==
          IF k = 0 THEN <<p>>
          ELSE LET c == follow[k - 1]
                   q == c[Len(c)]
               IN IF q \notin Places THEN c ELSE Append(c, im.sector[q].next)
    IN follow[n]

FileBytes(im, c) ==
    LET bytes[k \in 0 .. Len(c)] ==
          IF k = 0 THEN <<>>
          ELSE bytes[k - 1] \o (IF c[k] \in Places THEN im.sector[c[k]].bytes ELSE <<>>)
    IN bytes[Len(c)]

\* The chain of the entry, long enough to see whether it ends.
Sectors(im, e) == Chain(im, e.first, UsedSize + 1)
LastOf(im, e) == Sectors(im, e)[Len(Sectors(im, e))]
EndsInTime(im, e) == e.first \in Places /\ LastOf(im, e) = End
BadLink(im, e) == LastOf(im, e) \notin Places \cup {End}

\* The directory is the smallest set of sectors that holds its first one and where its links lead.
FollowsLinks(im, S) == \A p \in S : im.sector[p].next \in Places => im.sector[p].next \in S
DirSectors(im) ==
    {p \in Places : \A S \in SUBSET Places : im.dir \in S /\ FollowsLinks(im, S) => p \in S}
DirEnds(im) == \E p \in DirSectors(im) : im.sector[p].next = End

\* The files of an image, by their places in the directory.
EntryAt(im, q) == im.sector[q[1]].entries[q[2]]
Listed(im) ==
    {q \in UNION {{<<d, i>> : i \in DOMAIN im.sector[d].entries} : d \in DirSectors(im)} :
       IsFile(im, EntryAt(im, q))}

\* Two files of the image meet in a sector.
Shared(im) ==
    \E q, r \in Listed(im) : q # r /\
       \E j \in DOMAIN Sectors(im, EntryAt(im, q)), k \in DOMAIN Sectors(im, EntryAt(im, r)) :
          LET p == Sectors(im, EntryAt(im, q))[j] IN
          p \in Places /\ p = Sectors(im, EntryAt(im, r))[k]

(***************************************************************************)
(* "File Loop detected" is only said of a file that is not sound, or in an *)
(* image that is not, and the arrays overrun only for a file of more       *)
(* sectors than they have places, or without an end (chusb.c:1128-1165).   *)
(***************************************************************************)
AlarmsAreReal == [][
    /\ corrupted # "loop" /\ corrupted' = "loop" =>
          BadLink(image, Entry) \/ Shared(image) \/ ~DirEnds(image)
    /\ upc # "overrun" /\ upc' = "overrun" => Len(Sectors(image, Entry)) > UsedSize
    ]_<<upc, walkVars>>
=============================================================================
