----------------------------- MODULE DirectMode -----------------------------
(***************************************************************************)
(* chcodenet drives a C64 that sits in BASIC: every option is a list of    *)
(* requests to the memory of the running C64, and "RUN" or "SYS" is typed  *)
(* into the keyboard buffer.  The C64 goes on working between two          *)
(* requests; what its KERNAL and BASIC do is modelled from what the tools  *)
(* rely on.  Module ChUsb adds chusb, which starts its server this way.    *)
(***************************************************************************)
EXTENDS Naturals, Sequences

CONSTANTS
    RamSize,     \* C64_RAM_SIZE
    BasicStart,  \* where BASIC programs begin, $0801 on the C64
    Bytes,       \* the values of a byte of RAM
    Sessions     \* the sequences of programs a user starts, one after the other

Ram == 0 .. RamSize - 1

\* A PRG file: the address in its first two bytes, and the bytes behind them.
Prg == [load : Ram, body : Seq(Bytes)]

\* The number of an address has at most two digits here, five on the C64.
ASSUME RamAssumption ==
    /\ RamSize \in 1 .. 100 /\ BasicStart \in Ram
    /\ 0 \in Bytes

VARIABLES
    jobs, turn,                      \* the user's plan, and how far it is
    opts, todo, tool, target,        \* the program that runs
    ram, ptrs, kcount, kbuf, screen, \* memory of the C64 the tools look at or change
    basic, line,                     \* what the C64 does
    sent, entered,                   \* history: the PRG of -x, the last line entered
    earlier                          \* history: a program ran before, and no reset since

toolVars == <<jobs, turn, opts, todo, tool, target>>
memory == <<ram, ptrs, kcount, kbuf, screen>>
machine == <<basic, line>>
history == <<sent, entered, earlier>>
directVars == <<toolVars, memory, machine, history>>

\* The pointers setup_pointers sets: end of program, of variables, of arrays, of loading.
Pointers == {"2d", "2f", "31", "ae"}

\* What the six cells of READY. show: the character that belongs there, or something else.
Blank == [i \in 1 .. 6 |-> FALSE]
Ready == [i \in 1 .. 6 |-> TRUE]

NoPrg == [load |-> 0, body |-> <<>>]

\* kbuf holds ten keys; a new line replaces as many of them as are written.
NoKeys == [i \in 1 .. 10 |-> "space"]

-----------------------------------------------------------------------------
(***************************************************************************)
(* Options as lists of requests.                                           *)
(***************************************************************************)
WriteRam(a, d) == [do |-> "ram", at |-> a, data |-> d]
WritePtr(p, a) == [do |-> "ptr", at |-> p, data |-> a]
WriteCount(n) == [do |-> "count", at |-> 198, data |-> n]
WriteKeys(k) == [do |-> "keys", at |-> 631, data |-> k]
Ask(what) == [do |-> what, at |-> 0, data |-> 0]

\* Two bytes of the address are stored: behind the last byte of RAM comes 0.
TwoBytes(a) == a % RamSize

setup_pointers(a) ==
    LET p == TwoBytes(a)
    IN <<WritePtr("2d", p), WritePtr("2f", p), WritePtr("31", p), WritePtr("ae", p)>>

\* A slip: the count comes first.
TypeEarly(k, n) == <<WriteCount(n), WriteKeys(k)>>

Type(k, n) == <<WriteCount(0), WriteKeys(k), WriteCount(n)>>

execute_run == Type(<<"R", "U", "N", "return">>, 4)

Digit == <<"0", "1", "2", "3", "4", "5", "6", "7", "8", "9">>
Digits(a) == IF a < 10 THEN <<Digit[a + 1]>> ELSE <<Digit[(a \div 10) + 1], Digit[(a % 10) + 1]>>

\* The spaces behind the return are written, too, but not counted.
execute_sys(a) ==
    LET text == <<"S", "y">> \o Digits(a) \o <<"return">>
    IN Type(text \o [i \in 1 .. 8 - Len(text) |-> "space"], Len(text))

\* A slip: READY. of the last start is left on the screen.
execute_resetwaitStale == <<Ask("reset"), Ask("wait")>>

execute_resetwait == <<Ask("blank"), Ask("reset"), Ask("wait")>>

\* fread into the buffer takes no more than fits between addr and the end of RAM.
Fits(d, a) == SubSeq(d, 1, IF Len(d) <= RamSize - a THEN Len(d) ELSE RamSize - a)

\* The requests of an option; "fail" is an option chcodenet exits at.
Requests(o) ==
    CASE o.op = "x" ->
            LET d == Fits(o.file.body, o.file.load) IN
            <<WriteRam(o.file.load, d)>> \o setup_pointers(o.file.load + Len(d))
                \o execute_run
      [] o.op = "w" -> <<WriteRam(o.file.load, Fits(o.file.body, o.file.load))>>
      [] o.op \in {"wa", "wb"} -> <<WriteRam(o.addr, Fits(o.data, o.addr))>>
      [] o.op = "f" ->
            <<WriteRam(o.addr, [i \in 1 .. o.end + 1 - o.addr |-> o.data])>>
      [] o.op = "r" -> execute_run
      [] o.op = "e" -> execute_sys(o.addr)
      [] o.op = "reset" -> <<Ask("reset")>>
      [] o.op = "resetwait" ->
            IF target = "c64" THEN execute_resetwait ELSE <<Ask("fail")>>
      [] o.op \in {"vic20", "vic20-8k", "ignored"} -> <<>>
      [] o.op = "usage" -> <<Ask("fail")>>

-----------------------------------------------------------------------------
(***************************************************************************)
(* The program on the PC.                                                  *)
(***************************************************************************)
\* The user starts the next program of the plan when the one before has ended.
Job == jobs[turn + 1]

Starts(p) ==
    /\ tool \in {"none", "ok", "failed"} /\ turn < Len(jobs) /\ Job.prog = p
    /\ turn' = turn + 1 /\ jobs' = jobs

StartCodenet ==
    /\ Starts("chcodenet")
    /\ opts' = Job.opts /\ todo' = <<>> /\ tool' = "codenet" /\ target' = "c64"
    /\ UNCHANGED <<memory, machine, history>>

NextOption ==
    /\ tool = "codenet" /\ todo = <<>> /\ opts # <<>>
    /\ todo' = Requests(Head(opts)) /\ opts' = Tail(opts)
    /\ target' = IF Head(opts).op \in {"vic20", "vic20-8k"} THEN Head(opts).op ELSE target
    /\ sent' = IF Head(opts).op = "x" THEN Head(opts).file ELSE sent
    /\ UNCHANGED <<jobs, turn, tool, memory, machine, entered, earlier>>

CodenetExits ==
    /\ tool = "codenet" /\ todo = <<>> /\ opts = <<>>
    /\ tool' = "ok"
    /\ UNCHANGED <<jobs, turn, opts, todo, target, memory, machine, history>>

\* Every request may fail, and so may the fopen before it; the program exits at once.
RequestFails ==
    /\ todo # <<>>
    /\ tool' = "failed" /\ todo' = <<>> /\ opts' = <<>>
    /\ UNCHANGED <<jobs, turn, target, memory, machine, history>>

Doing(what) ==
    /\ todo # <<>> /\ Head(todo).do = what
    /\ UNCHANGED <<jobs, turn, opts, tool, target, sent, entered>>
    /\ what # "reset" => UNCHANGED earlier

PokeRam ==
    /\ Doing("ram")
    /\ LET r == Head(todo) IN
       ram' = [a \in Ram |-> IF a >= r.at /\ a < r.at + Len(r.data)
                             THEN r.data[a - r.at + 1] ELSE ram[a]]
    /\ todo' = Tail(todo)
    /\ UNCHANGED <<ptrs, kcount, kbuf, screen, machine>>

PokePointer ==
    /\ Doing("ptr")
    /\ ptrs' = [ptrs EXCEPT ![Head(todo).at] = Head(todo).data]
    /\ todo' = Tail(todo)
    /\ UNCHANGED <<ram, kcount, kbuf, screen, machine>>

PokeCount ==
    /\ Doing("count")
    /\ kcount' = Head(todo).data
    /\ todo' = Tail(todo)
    /\ UNCHANGED <<ram, ptrs, kbuf, screen, machine>>

PokeKeys ==
    /\ Doing("keys")
    /\ LET k == Head(todo).data IN
       kbuf' = [i \in 1 .. 10 |-> IF i <= Len(k) THEN k[i] ELSE kbuf[i]]
    /\ todo' = Tail(todo)
    /\ UNCHANGED <<ram, ptrs, kcount, screen, machine>>

PokeScreen ==
    /\ Doing("blank")
    /\ screen' = Blank
    /\ todo' = Tail(todo)
    /\ UNCHANGED <<ram, ptrs, kcount, kbuf, machine>>

\* A write to $80000000 pulls the reset line of the C64.
Reset ==
    /\ Doing("reset")
    /\ basic' = "reset" /\ line' = <<>> /\ earlier' = FALSE
    /\ todo' = Tail(todo)
    /\ UNCHANGED memory

\* The loop of && ends as soon as one of the six characters is there.
PollReady ==
    /\ Doing("wait")
    /\ todo' = IF \E i \in 1 .. 6 : screen[i] THEN Tail(todo) ELSE todo
    /\ UNCHANGED <<memory, machine>>

CodenetNext ==
    \/ StartCodenet \/ NextOption \/ CodenetExits \/ RequestFails
    \/ PokeRam \/ PokePointer \/ PokeCount \/ PokeKeys \/ PokeScreen \/ Reset \/ PollReady

-----------------------------------------------------------------------------
(***************************************************************************)
(* The C64 in BASIC (external).  After a reset the KERNAL clears its       *)
(* variables and the screen, BASIC forgets its program (NEW), prints       *)
(* READY. and takes keys.                                                  *)
(***************************************************************************)
KernalStarts ==
    /\ basic = "reset"
    /\ basic' = "new" /\ kcount' = 0 /\ screen' = Blank
    /\ ptrs' = [p \in Pointers |-> 0]
    /\ UNCHANGED <<toolVars, ram, kbuf, line, history>>

BasicNew ==
    /\ basic = "new"
    /\ basic' = "ready"
    /\ ram' = [ram EXCEPT ![BasicStart] = 0]
    /\ ptrs' = [p \in Pointers |-> IF p = "ae" THEN ptrs[p] ELSE BasicStart]
    /\ UNCHANGED <<toolVars, kcount, kbuf, screen, line, history>>

\* The characters of READY. appear one after the other.
PrintReady ==
    /\ basic = "ready"
    /\ \E i \in 1 .. 6 :
         /\ ~screen[i] /\ \A j \in 1 .. i - 1 : screen[j]
         /\ screen' = [screen EXCEPT ![i] = TRUE]
         /\ basic' = IF i = 6 THEN "direct" ELSE "ready"
    /\ UNCHANGED <<toolVars, ram, ptrs, kcount, kbuf, line, history>>

KeyTaken ==
    /\ kcount > 0 /\ kcount' = kcount - 1
    /\ kbuf' = [i \in 1 .. 10 |-> IF i < 10 THEN kbuf[i + 1] ELSE kbuf[10]]

TakeKey ==
    /\ basic = "direct" /\ KeyTaken
    /\ IF kbuf[1] = "return"
       THEN /\ line' = <<>> /\ entered' = line
            /\ basic' = CASE line = <<"R", "U", "N">> -> "run"
                          [] Len(line) > 2 /\ SubSeq(line, 1, 2) = <<"S", "y">> -> "sys"
                          [] OTHER -> "direct"
       ELSE line' = Append(line, kbuf[1]) /\ UNCHANGED <<entered, basic>>
    /\ UNCHANGED <<toolVars, ram, ptrs, screen, sent, earlier>>

\* A program may come to its end; READY. is printed further down the screen.
ProgramEnds ==
    /\ basic \in {"run", "sys"}
    /\ basic' = "direct"
    /\ UNCHANGED <<toolVars, memory, line, history>>

\* A program may read the keys itself.
ProgramTakesKey ==
    /\ basic \in {"run", "sys"} /\ KeyTaken
    /\ UNCHANGED <<toolVars, ram, ptrs, screen, machine, history>>

\* What KERNAL and BASIC do of their own, and what a program does only if it likes.
SystemNext == KernalStarts \/ BasicNew \/ PrintReady \/ TakeKey

BasicNext == SystemNext \/ ProgramEnds \/ ProgramTakesKey

-----------------------------------------------------------------------------
DirectInit ==
    /\ jobs \in Sessions /\ turn = 0 /\ opts = <<>> /\ todo = <<>> /\ tool = "none" /\ target = "c64"
    /\ ram = [a \in Ram |-> 0] /\ ptrs = [p \in Pointers |-> BasicStart]
    /\ kcount = 0 /\ kbuf = NoKeys
    /\ screen \in {Blank, Ready}
    /\ basic \in {"direct", "run"} /\ line = <<>>
    /\ sent = NoPrg /\ entered = <<>> /\ earlier = (basic = "run")

=============================================================================
