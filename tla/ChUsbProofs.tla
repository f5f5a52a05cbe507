---------------------------- MODULE ChUsbProofs ----------------------------
(***************************************************************************)
(* Proofs about the tools that start programs and about the copier, for    *)
(* memory, programs, disks and sessions of every size: first the starting  *)
(* of programs, from StartInv, then disks and files, from DiskInv, then    *)
(* the walk through an image, from WalkingInv, and what it copies, from    *)
(* TransferringInv.                                                        *)
(***************************************************************************)
EXTENDS ChUsb, SequenceTheorems, FunctionTheorems, FiniteSetTheorems, WellFoundedInduction,
        TLAPS

(***************************************************************************)
(* The operation that types the line of a calm session, and its requests.  *)
(***************************************************************************)
Y == CHOOSE o \in Typing : TRUE
YJob == jobs[Y[1]]
YOpt == YJob.opts[Y[2]]
ThePrg == IF Y[3] \in Sending THEN YJob.file ELSE YOpt.file
TheTop == ThePrg.load + Len(Fits(ThePrg.body, ThePrg.load))
TheEnd == TwoBytes(TheTop)
TheRequests ==
    CASE Y[3] = "x" ->
            <<WriteRam(ThePrg.load, Fits(ThePrg.body, ThePrg.load))>> \o setup_pointers(TheTop)
                \o execute_run
      [] Y[3] \in Sending -> <<WriteRam(ThePrg.load, ThePrg.body)>> \o execute_run
      [] Y[3] = "e" -> execute_sys(YOpt.addr)
      [] OTHER -> execute_run
HasPrg == Y[3] \in {"x"} \cup Sending

\* The keys of the line, with the return.
Keys == Len(TypedLine) + 1
Key(i) == IF i = Keys THEN "return" ELSE TypedLine[i]

\* The option at hand; before and at the operation that types.
At == Len(Cmd.opts) - Len(opts)
Reached == turn = Y[1] /\ \/ tool = "codenet" /\ At = Y[2]
                          \/ tool = "chusb" /\ upc = "dma"
Ahead == \/ turn < Y[1]
         \/ turn = Y[1] /\ \/ tool = "codenet" /\ At < Y[2]
                           \/ tool = "chusb" /\ upc \in {"check", "gone", "noack"}
Starting == {"check", "gone", "noack", "dma"}

(***************************************************************************)
(* The inductive invariant of the starting of programs.                    *)
(***************************************************************************)
IsSeq(s) == s \in Seq({s[i] : i \in DOMAIN s})

\* What the program on the PC is at.
AtWork ==
    /\ jobs \in Sessions /\ turn \in 0 .. Len(jobs)
    /\ ptrs = [p \in Pointers |-> ptrs[p]]
    /\ tool \in {"none", "ok", "failed", "codenet", "chusb"}
    /\ tool \in {"codenet", "chusb"} => turn \in DOMAIN jobs
    /\ tool = "codenet" =>
          /\ Cmd.prog = "chcodenet"
          /\ IsSeq(opts) /\ Len(opts) <= Len(Cmd.opts)
          /\ \A i \in 1 .. Len(opts) : opts[i] = Cmd.opts[At + i]
    /\ tool = "chusb" =>
          /\ Cmd.prog = "chusb" /\ (upc \in Starting => Cmd.cmd \in Sending)
          /\ upc \in {"sync", "cmdack"} => Cmd.cmd \notin {"dir"} \cup Sending
    /\ todo # <<>> => tool = "codenet" \/ (tool = "chusb" /\ upc = "dma")

\* chusb is at an item its command has.
SectorPlaces == {"place", "bsum", "block", "rblock", "mark"}
ItemSet == {Items[i] : i \in DOMAIN Items}
InItems == tool = "chusb" /\ upc \in SectorPlaces => upc \in ItemSet

\* The requests that are left of the option at hand.
Rest(t, all) ==
    /\ IsSeq(t) /\ t # <<>> /\ Len(t) <= Len(all)
    /\ \A i \in 1 .. Len(t) : t[i] = all[Len(all) - Len(t) + i]

Resetting == {execute_resetwait, Tail(execute_resetwait), <<Ask("wait")>>}

Left ==
    todo # <<>> =>
        \/ todo = <<Ask("fail")>>
        \/ Ahead /\ todo = <<todo[1]>> /\ todo[1].do = "ram"
        \/ /\ Ahead
           /\ Y[3] \in Sending \/ (turn = Y[1] /\ \A r \in Resets : r[2] <= At)
           /\ todo \in Resetting
        \/ Reached /\ Rest(todo, TheRequests)

Loaded == \A i \in DOMAIN Fits(ThePrg.body, ThePrg.load) :
              ram[ThePrg.load + i - 1] = ThePrg.body[i]
Busy == {"reset", "new"}

\* Before its keys are counted the line is in todo or in the buffer.
Prepared ==
    Reached /\ todo # <<>> =>
        /\ kcount = 0 /\ basic \notin Busy
        /\ Len(todo) = 1 => \A i \in 1 .. Keys : kbuf[i] = Key(i)
        /\ HasPrg => sent = ThePrg /\ (Len(todo) < Len(TheRequests) => Loaded)
        /\ Y[3] = "x" =>
              /\ Len(todo) <= 6 => ptrs["2d"] = TheEnd
              /\ Len(todo) <= 5 => ptrs["2f"] = TheEnd
              /\ Len(todo) <= 4 => ptrs["31"] = TheEnd
              /\ Len(todo) <= 3 => ptrs["ae"] = TheEnd

\* Later what the C64 has not taken is in the buffer, and the rest is on the screen, but
\* for what a program has taken before it ended.
Typed ==
    /\ kcount = 0 => line = <<>>
    /\ Ahead => kcount = 0
    /\ kcount # 0 =>
          /\ kcount \in 1 .. Keys /\ basic \notin Busy
          /\ basic \in {"run", "sys"} => line = <<>>
          /\ \E s \in 1 .. Keys - kcount + 1 : line = SubSeq(TypedLine, s, Keys - kcount)
          /\ \A i \in 1 .. kcount : kbuf[i] = Key(Keys - kcount + i)
          /\ HasPrg => sent = ThePrg /\ Loaded
          /\ Y[3] = "x" => \A p \in Pointers : ptrs[p] = TheEnd

Sent ==
    /\ ~HasPrg => sent = NoPrg
    /\ Y[3] \in Sending /\ turn = Y[1] /\ tool = "chusb" => sent = ThePrg

\* The C64 has done with its reset when chcodenet goes on: when READY. appears on the
\* screen that was cleared.
ResetDone ==
    Y[3] \notin Sending =>
        /\ turn < Y[1] => basic \notin Busy \cup {"ready"}
        /\ Ahead /\ turn = Y[1] /\ (\E r \in Resets : At < r[2]) =>
              basic \notin Busy \cup {"ready"}
        /\ Ahead /\ turn = Y[1] =>
              /\ todo = execute_resetwait => basic \notin Busy \cup {"ready"}
              /\ todo = Tail(execute_resetwait) =>
                    basic \notin Busy \cup {"ready"} /\ screen = Blank
              /\ todo = <<Ask("wait")>> => (basic \in Busy => screen = Blank)
              /\ todo \notin Resetting => basic \notin Busy

CalmInv == Calm => Left /\ Prepared /\ Typed /\ Sent /\ ResetDone

StartInv == AtWork /\ InItems /\ CalmInv

-----------------------------------------------------------------------------
\* The jobs of a session.
LEMMA IsSeqIs ==
  ASSUME NEW s, IsSeq(s)
  PROVE  /\ Len(s) \in Nat /\ DOMAIN s = 1 .. Len(s)
         /\ s # <<>> => Len(s) > 0
         /\ Len(s) = 0 => s = <<>>
  BY DEF IsSeq

LEMMA JobsAre ==
  ASSUME jobs \in Sessions
  PROVE  /\ Len(jobs) \in Nat /\ DOMAIN jobs = 1 .. Len(jobs)
         /\ \A j \in DOMAIN jobs :
              \/ /\ jobs[j].prog = "chcodenet" /\ IsSeq(jobs[j].opts)
                 /\ \A i \in DOMAIN jobs[j].opts : jobs[j].opts[i].op \in Options
              \/ jobs[j].prog = "chusb" /\ jobs[j].cmd \in Commands
  <1>1. IsSeq(jobs)
    BY SessionAssumption DEF IsSeq
  <1>2. ASSUME NEW j \in DOMAIN jobs, jobs[j].prog = "chcodenet"
        PROVE  /\ IsSeq(jobs[j].opts)
               /\ \A i \in DOMAIN jobs[j].opts : jobs[j].opts[i].op \in Options
    BY <1>2, SessionAssumption DEF IsSeq
  <1>3. ASSUME NEW j \in DOMAIN jobs, jobs[j].prog # "chcodenet"
        PROVE  jobs[j].prog = "chusb" /\ jobs[j].cmd \in Commands
    BY <1>3, SessionAssumption
  <1> QED
    BY <1>1, <1>2, <1>3, IsSeqIs

LEMMA TheLine ==
  ASSUME Calm, jobs \in Sessions
  PROVE  /\ Typing = {Y} /\ Y \in Ops
         /\ \E j \in DOMAIN jobs :
              \/ /\ jobs[j].prog = "chusb" /\ jobs[j].cmd \in Sending
                 /\ Y = <<j, 1, jobs[j].cmd>>
              \/ /\ jobs[j].prog = "chcodenet"
                 /\ \E i \in DOMAIN jobs[j].opts :
                      /\ Y = <<j, i, jobs[j].opts[i].op>>
                      /\ jobs[j].opts[i].op \in {"x", "r", "e"}
  <1>1. PICK y \in Ops : Typing = {y}
    BY DEF Calm
  <1>2. Y \in Typing
    BY <1>1 DEF Y
  <1>3. Y \in Ops /\ Y[3] \in {"x", "r", "e"} \cup Sending /\ Typing = {Y}
    BY <1>1, <1>2 DEF Typing
  <1>4. PICK j \in DOMAIN jobs :
          Y \in IF jobs[j].prog = "chusb" THEN {<<j, 1, jobs[j].cmd>>}
                ELSE {<<j, i, jobs[j].opts[i].op>> : i \in DOMAIN jobs[j].opts}
    BY <1>3 DEF Ops
  <1>5. CASE jobs[j].prog = "chusb"
    <2>1. Y = <<j, 1, jobs[j].cmd>>
      BY <1>4, <1>5
    <2>2. jobs[j].cmd \in Commands
      BY <1>5, SessionAssumption
    <2>3. Y[3] = jobs[j].cmd
      BY <2>1
    <2> QED
      BY <1>3, <1>5, <2>1, <2>2, <2>3 DEF Commands
  <1>6. CASE jobs[j].prog # "chusb"
    <2>1. PICK i \in DOMAIN jobs[j].opts : Y = <<j, i, jobs[j].opts[i].op>>
      BY <1>4, <1>6
    <2>2. jobs[j].prog = "chcodenet"
      BY <1>6, SessionAssumption
    <2>3. jobs[j].opts[i].op \in Options /\ Y[3] = jobs[j].opts[i].op
      BY <2>1, <2>2, SessionAssumption
    <2> QED
      BY <1>3, <2>1, <2>2, <2>3 DEF Options, Sending
  <1> QED
    BY <1>5, <1>6

\* What is typed is a line of three or four keys, and the return behind them.
Letters == {"R", "U", "N", "S", "y", "0", "1", "2", "3", "4", "5", "6", "7", "8", "9"}

LEMMA DigitsAreLetters ==
  ASSUME NEW a \in 0 .. 99
  PROVE  Digits(a) \in Seq(Letters) /\ Len(Digits(a)) \in {1, 2}
  <1>1. \A i \in 1 .. 10 : Digit[i] \in Letters
    BY DEF Digit, Letters
  <1>2. CASE a < 10
    <2>1. Digit[a + 1] \in Letters
      BY <1>1, <1>2
    <2> QED
      BY <1>2, <2>1 DEF Digits
  <1>3. CASE a >= 10
    <2>1. (a \div 10) + 1 \in 1 .. 10 /\ (a % 10) + 1 \in 1 .. 10
      BY <1>3
    <2>2. Digit[(a \div 10) + 1] \in Letters /\ Digit[(a % 10) + 1] \in Letters
      BY <1>1, <2>1
    <2> QED
      BY <1>3, <2>2 DEF Digits
  <1> QED
    BY <1>2, <1>3

\* The three requests that type keys, and what they write.
TypesIt(r) ==
    LET n == Len(r) IN
    /\ n >= 3
    /\ r[n - 2] = WriteCount(0)
    /\ r[n - 1].do = "keys" /\ Keys <= Len(r[n - 1].data) /\ Len(r[n - 1].data) \in {4, 8}
    /\ \A i \in 1 .. Keys : r[n - 1].data[i] = Key(i)
    /\ r[n] = WriteCount(Keys)

LEMMA RunText ==
  ASSUME TypedLine = <<"R", "U", "N">>
  PROVE  /\ Keys = 4 /\ TypedLine \in Seq(Letters)
         /\ Len(execute_run) = 3 /\ TypesIt(execute_run)
  <1>1. Keys = 4 /\ Len(TypedLine) = 3 /\ TypedLine \in Seq(Letters)
    BY DEF Keys, Letters
  <1>2. \A i \in 1 .. 4 : <<"R", "U", "N", "return">>[i] = Key(i)
    BY <1>1 DEF Key
  <1> QED
    BY <1>1, <1>2 DEF execute_run, Type, TypesIt, WriteCount, WriteKeys

LEMMA TypesItWhen ==
  ASSUME NEW keys, NEW r, Keys \in {4, 5}, Len(keys) \in {4, 8}, Keys <= Len(keys),
         \A i \in 1 .. Keys : keys[i] = Key(i),
         r = <<WriteCount(0), WriteKeys(keys), WriteCount(Keys)>>
  PROVE  Len(r) = 3 /\ TypesIt(r)
  <1>1. Len(r) = 3 /\ r[1] = WriteCount(0) /\ r[2] = WriteKeys(keys) /\ r[3] = WriteCount(Keys)
    OBVIOUS
  <1>2. r[2].do = "keys" /\ r[2].data = keys
    BY <1>1 DEF WriteKeys
  <1> QED
    BY <1>1, <1>2 DEF TypesIt

LEMMA SysLine ==
  ASSUME NEW a \in 0 .. 99
  PROVE  /\ <<"S", "y">> \o Digits(a) \in Seq(Letters)
         /\ Len(<<"S", "y">> \o Digits(a)) \in {3, 4}
  <1>1. Digits(a) \in Seq(Letters) /\ Len(Digits(a)) \in {1, 2}
    BY DigitsAreLetters
  <1>2. <<"S", "y">> \in Seq(Letters) /\ Len(<<"S", "y">>) = 2
    BY DEF Letters
  <1>3. \A p, d \in Seq(Letters) : p \o d \in Seq(Letters) /\ Len(p \o d) = Len(p) + Len(d)
    BY ConcatProperties
  <1>4. \A m, n, l : m = 2 /\ n \in {1, 2} /\ l = m + n => l \in {3, 4}
    OBVIOUS
  <1> QED
    BY <1>1, <1>2, <1>3, <1>4, Zenon

LEMMA SysText ==
  ASSUME NEW a \in 0 .. 99, NEW text, TypedLine = text, text = <<"S", "y">> \o Digits(a)
  PROVE  /\ Keys \in {4, 5} /\ TypedLine \in Seq(Letters)
         /\ Len(execute_sys(a)) = 3 /\ TypesIt(execute_sys(a))
  <1>1. text \in Seq(Letters) /\ Len(text) \in {3, 4}
    BY SysLine, Zenon
  <1> DEFINE full == text \o <<"return">>
             space == [i \in 1 .. 8 - Len(full) |-> "space"]
             keys == full \o space
  <1>2. Keys \in {4, 5}
    BY <1>1 DEF Keys
  <1>3. Keys = Len(full) /\ full \in Seq(Letters \cup {"return"})
    BY <1>1 DEF Keys
  <1>4. \A i \in 1 .. Keys : full[i] = Key(i)
    BY <1>1 DEF Keys, Key
  <1>5. Len(keys) = 8 /\ \A i \in 1 .. Keys : keys[i] = full[i]
    <2>1. space \in Seq({"space"}) /\ Len(space) = 8 - Len(full)
      BY <1>2, <1>3
    <2> HIDE DEF space, full
    <2> QED
      BY <1>2, <1>3, <2>1
  <1>6. execute_sys(a) = <<WriteCount(0), WriteKeys(keys), WriteCount(Keys)>>
    <2>1. execute_sys(a) = <<WriteCount(0), WriteKeys(keys), WriteCount(Len(full))>>
      BY DEF execute_sys, Type
    <2> QED
      BY <1>3, <2>1, Zenon
  <1> HIDE DEF full, keys
  <1>7. \A i \in 1 .. Keys : keys[i] = Key(i)
    BY <1>4, <1>5, Zenon
  <1>8. Len(keys) \in {4, 8}
    BY <1>5, Zenon
  <1>9. \A m, n : m \in {4, 5} /\ n = 8 => m <= n
    OBVIOUS
  <1>10. Keys <= Len(keys)
    BY <1>2, <1>5, <1>9, Zenon
  <1>11. \A r : r = <<WriteCount(0), WriteKeys(keys), WriteCount(Keys)>> =>
             Len(r) = 3 /\ TypesIt(r)
    <2> TAKE r
    <2> HAVE r = <<WriteCount(0), WriteKeys(keys), WriteCount(Keys)>>
    <2> QED
      BY <1>2, <1>7, <1>8, <1>10, TypesItWhen, SMTT(20)
  <1>12. Len(execute_sys(a)) = 3 /\ TypesIt(execute_sys(a))
    BY <1>6, <1>11, Zenon
  <1> QED
    BY <1>1, <1>2, <1>12, Zenon

\* The requests of -x: the program, its end in four places, and RUN.
Starts8(r, w, e) ==
    /\ Len(r) = 8 /\ r[1] = w
    /\ r[2] = WritePtr("2d", e) /\ r[3] = WritePtr("2f", e)
    /\ r[4] = WritePtr("31", e) /\ r[5] = WritePtr("ae", e)
    /\ r[6] = execute_run[1] /\ r[7] = execute_run[2] /\ r[8] = execute_run[3]

LEMMA XRequests ==
  ASSUME NEW w, NEW e, NEW r, r = <<w>> \o setup_pointers(e) \o execute_run
  PROVE  Starts8(r, w, TwoBytes(e))
  BY DEF setup_pointers, execute_run, Type, Starts8

LEMMA SendRequests ==
  ASSUME NEW w, NEW r, r = <<w>> \o execute_run
  PROVE  /\ Len(r) = 4 /\ r[1] = w
         /\ r[2] = execute_run[1] /\ r[3] = execute_run[2] /\ r[4] = execute_run[3]
  BY DEF execute_run, Type

\* A list of requests that ends like another one types the same.
LEMMA TypesItToo ==
  ASSUME NEW r, TypesIt(execute_run), Len(execute_run) = 3, NEW n \in 3 .. 8, Len(r) = n,
         r[n - 2] = execute_run[1], r[n - 1] = execute_run[2], r[n] = execute_run[3]
  PROVE  TypesIt(r)
  BY DEF TypesIt

LEMMA YIs ==
  ASSUME Calm, jobs \in Sessions
  PROVE  /\ Y[1] \in DOMAIN jobs /\ Y[1] \in Nat /\ Y[2] \in Nat \ {0}
         /\ Y[3] \in {"x", "r", "e"} \cup Sending
         /\ Y[3] \in Sending => YJob.prog = "chusb" /\ YJob.cmd = Y[3]
         /\ Y[3] \notin Sending =>
              /\ YJob.prog = "chcodenet" /\ Y[2] \in DOMAIN YJob.opts /\ YOpt.op = Y[3]
              /\ YOpt.addr \in 0 .. 99
         /\ ThePrg.load \in Ram /\ ThePrg.body \in Seq(Bytes)
  <1>1. PICK j \in DOMAIN jobs :
              \/ /\ jobs[j].prog = "chusb" /\ jobs[j].cmd \in Sending
                 /\ Y = <<j, 1, jobs[j].cmd>>
              \/ /\ jobs[j].prog = "chcodenet"
                 /\ \E i \in DOMAIN jobs[j].opts :
                      /\ Y = <<j, i, jobs[j].opts[i].op>>
                      /\ jobs[j].opts[i].op \in {"x", "r", "e"}
    BY TheLine
  <1>2. j \in Nat
    BY <1>1, JobsAre
  <1>3. CASE /\ jobs[j].prog = "chusb" /\ jobs[j].cmd \in Sending
             /\ Y = <<j, 1, jobs[j].cmd>>
    <2>1. Y[1] = j /\ Y[2] = 1 /\ Y[3] = jobs[j].cmd
      BY <1>3
    <2>2. ThePrg = jobs[j].file
      BY <1>3, <2>1 DEF ThePrg, YJob
    <2>3. ThePrg.load \in Ram /\ ThePrg.body \in Seq(Bytes)
      BY <1>1, <1>3, <2>2, SessionAssumption
    <2> QED
      BY <1>2, <1>3, <2>1, <2>3 DEF YJob
  <1>4. CASE /\ jobs[j].prog = "chcodenet"
             /\ \E i \in DOMAIN jobs[j].opts :
                  /\ Y = <<j, i, jobs[j].opts[i].op>>
                  /\ jobs[j].opts[i].op \in {"x", "r", "e"}
    <2>1. PICK i \in DOMAIN jobs[j].opts :
                  /\ Y = <<j, i, jobs[j].opts[i].op>>
                  /\ jobs[j].opts[i].op \in {"x", "r", "e"}
      BY <1>4
    <2>2. Y[1] = j /\ Y[2] = i /\ Y[3] = jobs[j].opts[i].op
      BY <2>1
    <2>3. i \in Nat \ {0}
      <3>1. jobs[j].opts \in Seq({jobs[j].opts[m] : m \in DOMAIN jobs[j].opts})
        BY <1>4, SessionAssumption
      <3>2. i \in 1 .. Len(jobs[j].opts) /\ Len(jobs[j].opts) \in Nat
        BY <2>1, <3>1
      <3> QED
        BY <3>2
    <2>4. Y[3] \notin Sending
      BY <2>1, <2>2 DEF Sending
    <2>5. ThePrg = jobs[j].opts[i].file /\ YOpt = jobs[j].opts[i]
      BY <2>2, <2>4 DEF ThePrg, YOpt, YJob
    <2>6. ThePrg.load \in Ram /\ ThePrg.body \in Seq(Bytes) /\ YOpt.addr \in 0 .. 99
      BY <1>1, <1>4, <2>5, SessionAssumption
    <2> QED
      BY <1>2, <1>4, <2>1, <2>2, <2>3, <2>4, <2>5, <2>6 DEF YJob
  <1> QED
    BY <1>1, <1>3, <1>4

LEMMA TheRequestsOfY ==
  ASSUME Calm, jobs \in Sessions, Y[3] \notin Sending
  PROVE  Requests(YOpt) = TheRequests
  <1>1. YOpt.op = Y[3] /\ Y[3] \in {"x", "r", "e"} /\ ThePrg = YOpt.file
    BY YIs DEF ThePrg
  <1>2. CASE Y[3] = "x"
    BY <1>1, <1>2 DEF Requests, TheRequests, TheTop
  <1>3. CASE Y[3] = "r"
    BY <1>1, <1>3 DEF Requests, TheRequests, Sending
  <1>4. CASE Y[3] = "e"
    BY <1>1, <1>4 DEF Requests, TheRequests, Sending
  <1> QED
    BY <1>1, <1>2, <1>3, <1>4

LEMMA TheRequestsAre ==
  ASSUME Calm, jobs \in Sessions
  PROVE  /\ Keys \in {4, 5} /\ TypedLine \in Seq(Letters)
         /\ TypesIt(TheRequests)
         /\ Len(TheRequests) =
              IF Y[3] = "x" THEN 8 ELSE IF Y[3] \in Sending THEN 4 ELSE 3
         /\ Y[3] = "x" =>
              /\ TheRequests[1] = WriteRam(ThePrg.load, Fits(ThePrg.body, ThePrg.load))
              /\ TheRequests[2] = WritePtr("2d", TheEnd) /\ TheRequests[3] = WritePtr("2f", TheEnd)
              /\ TheRequests[4] = WritePtr("31", TheEnd) /\ TheRequests[5] = WritePtr("ae", TheEnd)
         /\ Y[3] \in Sending => TheRequests[1] = WriteRam(ThePrg.load, ThePrg.body)
  <1>1. TypedLine = IF Y[3] = "e" THEN <<"S", "y">> \o Digits(YOpt.addr) ELSE <<"R", "U", "N">>
    BY DEF TypedLine, Y, YOpt, YJob
  <1>2. CASE Y[3] = "x"
    <2>1. TypedLine = <<"R", "U", "N">>
      BY <1>1, <1>2
    <2>2. Keys = 4 /\ TypedLine \in Seq(Letters) /\ Len(execute_run) = 3 /\ TypesIt(execute_run)
      BY <2>1, RunText
    <2> DEFINE w == WriteRam(ThePrg.load, Fits(ThePrg.body, ThePrg.load))
    <2>3. TheRequests = <<w>> \o setup_pointers(TheTop) \o execute_run
      BY <1>2 DEF TheRequests, Sending
    <2> HIDE DEF w
    <2>4. Starts8(TheRequests, w, TheEnd)
      BY <2>3, XRequests, Zenon DEF TheEnd
    <2>5. TypesIt(TheRequests)
      BY <2>2, <2>4, TypesItToo DEF Starts8
    <2> QED
      BY <1>2, <2>2, <2>4, <2>5 DEF Sending, w, Starts8
  <1>3. CASE Y[3] \in Sending
    <2>1. TypedLine = <<"R", "U", "N">>
      BY <1>1, <1>3 DEF Sending
    <2>2. Keys = 4 /\ TypedLine \in Seq(Letters) /\ Len(execute_run) = 3 /\ TypesIt(execute_run)
      BY <2>1, RunText
    <2> DEFINE w == WriteRam(ThePrg.load, ThePrg.body)
    <2>3. TheRequests = <<w>> \o execute_run
      BY <1>3 DEF TheRequests, Sending
    <2>4. /\ Len(TheRequests) = 4 /\ TheRequests[1] = w
          /\ TheRequests[2] = execute_run[1] /\ TheRequests[3] = execute_run[2]
          /\ TheRequests[4] = execute_run[3]
      BY <2>3, SendRequests
    <2>5. TypesIt(TheRequests)
      BY <2>2, <2>4, TypesItToo
    <2> QED
      BY <1>3, <2>2, <2>4, <2>5 DEF Sending
  <1>4. CASE Y[3] = "r"
    <2>1. TypedLine = <<"R", "U", "N">>
      BY <1>1, <1>4
    <2>2. TheRequests = execute_run
      BY <1>4 DEF TheRequests, Sending
    <2> QED
      BY <1>4, <2>1, <2>2, RunText DEF Sending
  <1>5. CASE Y[3] = "e"
    <2>1. TypedLine = <<"S", "y">> \o Digits(YOpt.addr)
      BY <1>1, <1>5
    <2>2. TheRequests = execute_sys(YOpt.addr)
      BY <1>5 DEF TheRequests, Sending
    <2>3. YOpt.addr \in 0 .. 99
      BY <1>5, YIs DEF Sending
    <2>4. Keys \in {4, 5} /\ TypedLine \in Seq(Letters) /\ Len(TheRequests) = 3 /\ TypesIt(TheRequests)
      BY <2>1, <2>2, <2>3, SysText, Zenon
    <2> QED
      BY <1>5, <2>4 DEF Sending
  <1> QED
    BY <1>2, <1>3, <1>4, <1>5, YIs

-----------------------------------------------------------------------------
(***************************************************************************)
(* What a step of a session can be, as far as the starting of programs     *)
(* goes.                                                                   *)
(***************************************************************************)
Quiet ==
    /\ UNCHANGED directVars
    /\ upc = "dma" <=> upc' = "dma"
    /\ upc \in Starting <=> upc' \in Starting
    /\ upc' \in SectorPlaces => upc' = upc \/ upc' \in ItemSet
    /\ upc' \in {"sync", "cmdack"} => upc \in {"sync", "cmdack"}

Leaves ==
    /\ tool = "chusb" /\ (upc = "dma" => todo = <<>>)
    /\ tool' \in {"ok", "failed"}
    /\ UNCHANGED <<jobs, turn, opts, todo, target, memory, machine, history>>

Dma ==
    /\ tool = "chusb" /\ upc \in {"check", "gone"} /\ upc' = "dma" /\ ~ServerRunning
    /\ todo' = <<WriteRam(sent.load, sent.body)>> \o execute_run
    /\ UNCHANGED <<jobs, turn, opts, tool, target, memory, machine, history>>

LEMMA QuietWalk == Walk => Quiet
  BY DEF Walk, WalkNext, DirectorySector, LastEntry, SkipEntry, FirstSector, LoopFound, Overrun,
         IllegalLink, ChainSector, Remember, Quiet, Starting, SectorPlaces

LEMMA SendKinds == Send => Quiet \/ Leaves \/ Dma
  <1>1. ASSUME NEW opens \in BOOLEAN, CheckServer(opens) PROVE Quiet \/ Leaves \/ Dma
    BY <1>1 DEF CheckServer, Quiet, Leaves, Dma, Starting, SectorPlaces, directVars, toolVars, memory, machine, history
  <1>2. StartNoAck => Quiet
    BY DEF StartNoAck, Meet, GoesOn, Quiet, Starting, SectorPlaces
  <1>3. DmaDone => Leaves
    BY DEF DmaDone, Exits, Leaves
  <1> QED
    BY <1>1, <1>2, <1>3 DEF Send

LEMMA CopyKinds == Copy => Quiet \/ Leaves
  <1>1. ASSUME NEW c \in {"ack", "nak"}, NEW a \in {0, 255}, FileAck(c, a) PROVE Quiet \/ Leaves
    BY <1>1 DEF FileAck, Meet, GoesOn, Exits, Quiet, Leaves, Starting, SectorPlaces
  <1>2. SendType \/ SendName \/ SendLen \/ SendSum \/ SendData \/ Swallow => Quiet
    BY DEF SendType, SendName, SendLen, SendSum, SendData, Swallow, AfterSum, AfterByte, Meet,
           GoesOn, Quiet, Starting, SectorPlaces
  <1>3. EndMark => Leaves
    BY DEF EndMark, Meet, Exits, Leaves
  <1> QED
    BY <1>1, <1>2, <1>3 DEF Copy

LEMMA ItemsAre ==
  /\ Items \in Seq({"status", "place", "bsum", "block", "rblock", "mark", "sack"})
  /\ Items # <<>> /\ Items[1] = "status" /\ Items[Len(Items)] = "sack"
  <1>1. CASE Writing /\ Cmd.kernal
    BY <1>1 DEF Items
  <1>2. CASE Writing /\ ~Cmd.kernal
    BY <1>2 DEF Items
  <1>3. CASE ~Writing /\ Cmd.kernal
    BY <1>3 DEF Items
  <1>4. CASE ~Writing /\ ~Cmd.kernal
    BY <1>4 DEF Items
  <1> QED
    BY <1>1, <1>2, <1>3, <1>4

LEMMA ThenIs ==
  ASSUME NEW item \in ItemSet, item # "sack"
  PROVE  Then(item) \in ItemSet
  <1> DEFINE i == CHOOSE n \in DOMAIN Items : Items[n] = item
  <1>1. i \in DOMAIN Items /\ Items[i] = item
    BY DEF ItemSet
  <1> HIDE DEF i
  <1>2. i \in 1 .. Len(Items) /\ i # Len(Items)
    BY <1>1, ItemsAre
  <1>3. 1 + i \in DOMAIN Items
    BY <1>2, ItemsAre
  <1> QED
    BY <1>3 DEF Then, ItemSet, i

LEMMA SectorKinds ==
  ASSUME InItems, Sector
  PROVE  Quiet \/ Leaves
  <1>1. /\ "status" \in ItemSet
        /\ tool = "chusb" /\ upc \in SectorPlaces => upc \in ItemSet
        /\ \A item \in ItemSet : item \notin Starting \cup {"sync", "cmdack"}
    BY ItemsAre DEF ItemSet, InItems, Starting
  <1>2. \A item \in ItemSet : item # "sack" => Then(item) \in ItemSet
    BY ThenIs
  <1>3. ASSUME NEW c \in {"ack", "nak"}, NEW a \in {0, 255}, SectorAck(c, a) PROVE Quiet \/ Leaves
    BY <1>1, <1>3 DEF SectorAck, Meet, GoesOn, Exits, Quiet, Leaves, Starting, SectorPlaces
  <1>4. ASSUME NEW opens \in BOOLEAN, SendEnd(opens) PROVE Leaves
    BY <1>4 DEF SendEnd, Meet, Exits, Leaves
  <1>5. SendMode \/ SendMark => Quiet
    BY <1>1 DEF SendMode, SendMark, Meet, GoesOn, Quiet, Starting, SectorPlaces
  <1>6. SendStatus \/ SendPlace \/ SendBlockSum \/ SendBlock \/ TakeBlock => Quiet
    <2>1. SendStatus => Quiet
      BY <1>1, <1>2 DEF SendStatus, Meet, GoesOn, Quiet, Starting, SectorPlaces
    <2>2. SendPlace => Quiet
      BY <1>1, <1>2 DEF SendPlace, Meet, GoesOn, Quiet, Starting, SectorPlaces
    <2>3. SendBlockSum => Quiet
      BY <1>1, <1>2 DEF SendBlockSum, Meet, GoesOn, Quiet, Starting, SectorPlaces
    <2>4. SendBlock => Quiet
      BY <1>1, <1>2 DEF SendBlock, Meet, GoesOn, Quiet, Starting, SectorPlaces
    <2>5. TakeBlock => Quiet
      BY <1>1, <1>2 DEF TakeBlock, Meet, GoesOn, Quiet, Starting, SectorPlaces
    <2> QED
      BY <2>1, <2>2, <2>3, <2>4, <2>5
  <1> QED
    BY <1>3, <1>4, <1>5, <1>6 DEF Sector

LEMMA OtherKinds == Other => Quiet \/ Leaves
  <1>1. ASSUME NEW opens \in BOOLEAN, FetchMore(opens) PROVE Quiet
    BY <1>1 DEF FetchMore, Meet, GoesOn, Quiet, Starting, SectorPlaces
  <1>2. FetchFile \/ FetchName \/ FetchByte \/ SendTracks \/ TestHello \/ TestProbe => Quiet
    BY DEF FetchFile, FetchName, FetchByte, SendTracks, TestHello, TestProbe, Meet, GoesOn, Quiet,
           Starting, SectorPlaces
  <1>3. FetchEnd \/ FormatAck => Leaves
    BY DEF FetchEnd, FormatAck, Meet, Exits, Leaves
  <1>4. TestEcho => Quiet \/ Leaves
    BY DEF TestEcho, Meet, GoesOn, Exits, Quiet, Leaves, Starting, SectorPlaces
  <1> QED
    BY <1>1, <1>2, <1>3, <1>4 DEF Other

LEMMA CommandKinds ==
  ASSUME AtWork, StartCommand \/ Command \/ Quit
  PROVE  Quiet \/ Leaves
  <1>1. ASSUME Command PROVE Quiet
    <2>1. tool = "chusb" /\ upc = "cmdack"
      BY <1>1 DEF Command, Meet
    <2>2. Cmd.prog = "chusb" /\ Cmd.cmd \notin {"dir"} \cup Sending /\ Cmd = jobs[turn]
          /\ jobs \in Sessions /\ turn \in DOMAIN jobs
      BY <2>1 DEF AtWork, Cmd
    <2>3. Cmd.cmd \in {"copy", "write", "read", "fetch", "format", "test"}
      BY <2>2, SessionAssumption DEF Commands, Sending
    <2>4. FirstStep \in {"type", "directory", "mode", "tracks", "xstatus", "hello"}
      BY <2>3 DEF FirstStep
    <2> QED
      BY <1>1, <2>4 DEF Command, Meet, GoesOn, Quiet, Starting, SectorPlaces
  <1>2. StartCommand \/ Quit => Quiet \/ Leaves
    BY DEF StartCommand, Quit, Exits, Leaves, Meet, GoesOn, Quiet, Starting, SectorPlaces
  <1> QED
    BY <1>1, <1>2

LEMMA AloneIsQuiet == ServerAlone \/ Browse \/ UserTypes => Quiet
  BY DEF ServerAlone, OpenFile, VerifySector, NoDrive, UserTypes, FormatDisk, StoreSector, ReadSector, CheckKey,
         CloseFile, ServerStep, Browse, Quiet

LEMMA StepKinds ==
  ASSUME AtWork, InItems, Next
  PROVE  \/ Quiet \/ Leaves \/ Dma
         \/ CodenetNext /\ upc' = upc
         \/ BasicNext /\ upc' = upc
         \/ \E there \in BOOLEAN : StartChusb(there)
         \/ ServerStarts \/ UserContinues \/ UserResets
  <1>1. CodenetNext /\ UNCHANGED usbVars => CodenetNext /\ upc' = upc
    BY DEF usbVars
  <1>2. BasicNext /\ UNCHANGED usbVars => BasicNext /\ upc' = upc
    BY DEF usbVars
  <1> QED
    BY <1>1, <1>2, QuietWalk, SendKinds, CopyKinds, SectorKinds, OtherKinds, CommandKinds, AloneIsQuiet
       DEF Next, Program, C64, User

-----------------------------------------------------------------------------
(***************************************************************************)
(* What the program on the PC is at.                                       *)
(***************************************************************************)
LEMMA InitAtWork == Init => AtWork /\ InItems
  <1> SUFFICES ASSUME Init PROVE AtWork /\ InItems
    OBVIOUS
  <1>1. jobs \in Sessions /\ turn = 0 /\ opts = <<>> /\ todo = <<>> /\ tool = "none"
        /\ ptrs = [p \in Pointers |-> BasicStart]
    BY Zenon DEF Init, DirectInit
  <1>2. Len(jobs) \in Nat
    BY <1>1, JobsAre
  <1> QED
    BY <1>1, <1>2 DEF AtWork, InItems

\* The rest of a list, one step further.
LEMMA TailIs ==
  ASSUME NEW s, IsSeq(s), s # <<>>
  PROVE  /\ IsSeq(Tail(s)) /\ Len(Tail(s)) = Len(s) - 1
         /\ \A i \in 1 .. Len(s) - 1 : Tail(s)[i] = s[i + 1]
         /\ Head(s) = s[1]
  <1> DEFINE S == {s[i] : i \in DOMAIN s}
  <1>1. s \in Seq(S)
    BY DEF IsSeq
  <1> HIDE DEF S
  <1>2. Tail(s) \in Seq(S) /\ Len(Tail(s)) = Len(s) - 1
    BY <1>1
  <1>3. \A i \in 1 .. Len(s) - 1 : Tail(s)[i] = s[i + 1]
    BY <1>1
  <1>4. Head(s) = s[1]
    BY <1>1
  <1>5. \A t : t \in Seq(S) => IsSeq(t)
    BY DEF IsSeq
  <1>6. IsSeq(Tail(s))
    BY <1>2, <1>5
  <1> QED
    BY <1>2, <1>3, <1>4, <1>6

\* A step that goes on with the requests of an option.
Pokes == PokeRam \/ PokePointer \/ PokeCount \/ PokeKeys \/ PokeScreen \/ Reset \/ PollReady

LEMMA AtWorkCodenet ==
  ASSUME AtWork, InItems, CodenetNext, upc' = upc
  PROVE  AtWork' /\ InItems'
  <1>1. CASE StartCodenet
    <2>1. /\ turn' = turn + 1 /\ jobs' = jobs /\ turn < Len(jobs) /\ jobs[turn'].prog = "chcodenet"
          /\ opts' = jobs[turn'].opts /\ todo' = <<>> /\ tool' = "codenet" /\ ptrs' = ptrs
      BY <1>1 DEF StartCodenet, Starts, Job, memory
    <2>2. turn' \in DOMAIN jobs /\ turn' \in 0 .. Len(jobs)
      BY <2>1, JobsAre DEF AtWork
    <2>3. IsSeq(opts')
      BY <2>1, <2>2, JobsAre DEF AtWork
    <2>4. Cmd'.opts = opts'
      BY <2>1 DEF Cmd
    <2>5. At' = 0 /\ Len(opts') \in Nat
      BY <2>3, <2>4, IsSeqIs DEF At
    <2>6. Len(opts') <= Len(Cmd'.opts) /\ \A i \in 1 .. Len(opts') : opts'[i] = Cmd'.opts[At' + i]
      BY <2>4, <2>5
    <2> QED
      BY <2>1, <2>2, <2>3, <2>6 DEF AtWork, InItems, Cmd
  <1>2. CASE NextOption
    <2>1. UNCHANGED <<jobs, turn, tool, ptrs>> /\ tool = "codenet" /\ opts # <<>> /\ opts' = Tail(opts)
      BY <1>2 DEF NextOption, memory
    <2>2. Cmd' = Cmd
      BY <2>1 DEF Cmd
    <2>3. Cmd.prog = "chcodenet" /\ IsSeq(Cmd.opts)
      BY <2>1, JobsAre DEF AtWork, Cmd
    <2>4. /\ IsSeq(opts) /\ Len(opts) <= Len(Cmd.opts)
          /\ \A i \in 1 .. Len(opts) : opts[i] = Cmd.opts[At + i]
      BY <2>1 DEF AtWork
    <2>5. /\ IsSeq(opts') /\ Len(opts') = Len(opts) - 1
          /\ \A i \in 1 .. Len(opts) - 1 : opts'[i] = opts[i + 1]
      BY <2>1, <2>4, TailIs
    <2>6. Len(Cmd.opts) \in Nat /\ Len(opts) \in Nat /\ Len(opts) > 0
      BY <2>1, <2>3, <2>4, IsSeqIs
    <2>7. At' = At + 1 /\ At \in Nat
      BY <2>2, <2>4, <2>5, <2>6 DEF At
    <2>8. Len(opts') <= Len(Cmd'.opts) /\ \A i \in 1 .. Len(opts') : opts'[i] = Cmd'.opts[At' + i]
      BY <2>2, <2>4, <2>5, <2>6, <2>7
    <2> QED
      BY <2>1, <2>2, <2>5, <2>8 DEF AtWork, InItems
  <1>3. CASE CodenetExits
    BY <1>3 DEF CodenetExits, AtWork, InItems, memory
  <1>4. CASE RequestFails
    BY <1>4 DEF RequestFails, AtWork, InItems, memory
  <1>5. CASE Pokes
    <2>1. UNCHANGED <<jobs, turn, opts, tool>> /\ todo # <<>>
      BY <1>5 DEF Pokes, PokeRam, PokePointer, PokeCount, PokeKeys, PokeScreen, Reset, PollReady, Doing
    <2>2. ptrs' = [p \in Pointers |-> ptrs'[p]]
      BY <1>5 DEF Pokes, PokeRam, PokePointer, PokeCount, PokeKeys, PokeScreen, Reset, PollReady, AtWork, memory
    <2>3. Cmd' = Cmd /\ At' = At
      BY <2>1 DEF Cmd, At
    <2>4. InItems'
      BY <2>1, <2>3 DEF InItems, ItemSet, Items, Writing
    <2> QED
      BY <2>1, <2>2, <2>3, <2>4 DEF AtWork
  <1> QED
    BY <1>1, <1>2, <1>3, <1>4, <1>5 DEF CodenetNext, Pokes

LEMMA AtWorkStart ==
  ASSUME AtWork, InItems, NEW there \in BOOLEAN, StartChusb(there)
  PROVE  AtWork' /\ InItems'
  <1>1. /\ turn' = turn + 1 /\ jobs' = jobs /\ turn < Len(jobs) /\ jobs[turn'].prog = "chusb"
        /\ tool \in {"none", "ok", "failed"} /\ UNCHANGED <<opts, todo, memory>>
    BY DEF StartChusb, Starts, Job
  <1>2. turn' \in DOMAIN jobs /\ turn' \in 0 .. Len(jobs) /\ Cmd' = jobs[turn'] /\ Cmd' = Job
    BY <1>1, JobsAre DEF AtWork, Cmd, Job
  <1>3. todo' = <<>>
    BY <1>1 DEF AtWork
  <1>4. tool' \in {"chusb", "ok", "failed"}
    BY DEF StartChusb
  <1>5. tool' = "chusb" =>
          upc' = IF Job.cmd = "dir" THEN "directory" ELSE IF Job.cmd \in Sending THEN "check" ELSE "sync"
    BY DEF StartChusb, Sending
  <1>6. tool' = "chusb" =>
          /\ upc' \in Starting => Cmd'.cmd \in Sending
          /\ upc' \in {"sync", "cmdack"} => Cmd'.cmd \notin {"dir"} \cup Sending
          /\ upc' \notin SectorPlaces
    BY <1>2, <1>5 DEF Starting, SectorPlaces
  <1> QED
    BY <1>1, <1>2, <1>3, <1>4, <1>6 DEF AtWork, InItems, memory

LEMMA AtWorkStep ==
  ASSUME AtWork, InItems, [Next]_vars
  PROVE  AtWork' /\ InItems'
  <1>0. CASE UNCHANGED vars
    BY <1>0 DEF vars, usbVars, directVars, toolVars, memory, AtWork, InItems, IsSeq, At, Cmd, ItemSet,
                Items, Writing
  <1>1. CASE Quiet
    <2>1. UNCHANGED <<jobs, turn, opts, todo, tool, ptrs>>
      BY <1>1 DEF Quiet, directVars, toolVars, memory
    <2>2. Cmd' = Cmd /\ At' = At /\ ItemSet' = ItemSet
      BY <2>1 DEF Cmd, At, ItemSet, Items, Writing
    <2> QED
      BY <1>1, <2>1, <2>2 DEF AtWork, InItems, IsSeq, Quiet
  <1>2. CASE Leaves
    BY <1>2 DEF Leaves, AtWork, InItems, memory
  <1>3. CASE Dma
    <2>1. UNCHANGED <<jobs, turn, tool, ptrs>> /\ upc' = "dma" /\ tool = "chusb" /\ upc \in Starting
      BY <1>3 DEF Dma, memory, Starting
    <2>2. Cmd' = Cmd
      BY <2>1 DEF Cmd
    <2> QED
      BY <2>1, <2>2 DEF AtWork, InItems, SectorPlaces
  <1>4. CASE CodenetNext /\ upc' = upc
    BY <1>4, AtWorkCodenet
  <1>5. CASE BasicNext /\ upc' = upc
    <2>1. UNCHANGED toolVars /\ ptrs' = [p \in Pointers |-> ptrs'[p]]
      BY <1>5 DEF BasicNext, SystemNext, KernalStarts, BasicNew, PrintReady, TakeKey, ProgramEnds,
                      ProgramTakesKey, memory, AtWork
    <2>2. UNCHANGED <<jobs, turn, opts, todo, tool>>
      BY <2>1 DEF toolVars
    <2>3. Cmd' = Cmd /\ At' = At /\ ItemSet' = ItemSet
      BY <2>2 DEF Cmd, At, ItemSet, Items, Writing
    <2> QED
      BY <1>5, <2>1, <2>2, <2>3 DEF AtWork, InItems, IsSeq
  <1>6. ASSUME NEW there \in BOOLEAN, StartChusb(there) PROVE AtWork' /\ InItems'
    BY <1>6, AtWorkStart
  <1>7. CASE ServerStarts \/ UserContinues \/ UserResets
    <2>1. UNCHANGED <<jobs, turn, opts, todo, tool, ptrs, upc>>
      BY <1>7 DEF ServerStarts, UserContinues, UserResets, toolVars, memory, usbVars
    <2>2. Cmd' = Cmd /\ At' = At /\ ItemSet' = ItemSet
      BY <2>1 DEF Cmd, At, ItemSet, Items, Writing
    <2> QED
      BY <2>1, <2>2 DEF AtWork, InItems, IsSeq
  <1> QED
    BY <1>0, <1>1, <1>2, <1>3, <1>4, <1>5, <1>6, <1>7, StepKinds

-----------------------------------------------------------------------------
(***************************************************************************)
(* The line, the program and the reset, step by step.                      *)
(***************************************************************************)
\* The session is given with its jobs.
LEMMA SameSession ==
  ASSUME jobs' = jobs
  PROVE  /\ Calm' = Calm /\ Y' = Y /\ YJob' = YJob /\ YOpt' = YOpt /\ ThePrg' = ThePrg
         /\ TheTop' = TheTop /\ TheEnd' = TheEnd /\ TheRequests' = TheRequests /\ (HasPrg <=> HasPrg')
         /\ TypedLine' = TypedLine /\ Keys' = Keys /\ Resets' = Resets
         /\ \A i : (Key(i))' = Key(i)
  <1>1. Ops' = Ops
    BY DEF Ops
  <1>2. Typing' = Typing /\ Touching' = Touching /\ Resets' = Resets
    BY <1>1 DEF Typing, Touching, Resets
  <1>3. Y' = Y
    BY <1>2 DEF Y
  <1>4. YJob' = YJob /\ YOpt' = YOpt
    BY <1>3 DEF YJob, YOpt
  <1>5. ThePrg' = ThePrg
    BY <1>3, <1>4 DEF ThePrg
  <1>6. TheTop' = TheTop /\ TheEnd' = TheEnd
    BY <1>5 DEF TheTop, TheEnd, TwoBytes
  <1>7. TypedLine' = TypedLine
    BY <1>2 DEF TypedLine
  <1>8. Keys' = Keys
    BY <1>7 DEF Keys
  <1>9. Calm' = Calm
    BY <1>1, <1>2 DEF Calm
  <1>10. TheRequests' = TheRequests
    BY <1>3, <1>4, <1>5, <1>6 DEF TheRequests
  <1>11. \A i : (Key(i))' = Key(i)
    BY <1>7, <1>8 DEF Key
  <1> QED
    BY <1>2, <1>3, <1>4, <1>5, <1>6, <1>7, <1>8, <1>9, <1>10, <1>11 DEF HasPrg

LEMMA SamePlace ==
  ASSUME UNCHANGED <<turn, tool, opts, jobs>>, upc = "dma" <=> upc' = "dma",
         upc \in Starting <=> upc' \in Starting
  PROVE  (Ahead <=> Ahead') /\ (Reached <=> Reached') /\ At' = At
  BY SameSession DEF Ahead, Reached, At, Cmd, Starting

\* Steps of chusb that have nothing to do with it.
LEMMA CalmQuiet ==
  ASSUME StartInv, Calm, UNCHANGED directVars,
         upc = "dma" <=> upc' = "dma", upc \in Starting <=> upc' \in Starting
  PROVE  CalmInv'
  <1>1. UNCHANGED <<jobs, turn, opts, todo, tool, ram, ptrs, kcount, kbuf, screen, basic, line, sent>>
    BY DEF directVars, toolVars, memory, machine, history
  <1>2. (Ahead <=> Ahead') /\ (Reached <=> Reached') /\ At' = At
    BY <1>1, SamePlace
  <1>3. Left /\ Prepared /\ Typed /\ Sent /\ ResetDone
    BY DEF StartInv, CalmInv
  <1>4. Left'
    BY <1>1, <1>2, <1>3, SameSession DEF Left
  <1>5. Loaded' = Loaded
    BY <1>1, SameSession DEF Loaded
  <1>6. Prepared'
    BY <1>1, <1>2, <1>3, <1>5, SameSession DEF Prepared
  <1>7. Typed'
    BY <1>1, <1>2, <1>3, <1>5, SameSession DEF Typed
  <1>8. Sent'
    BY <1>1, <1>3, SameSession DEF Sent
  <1>9. ResetDone'
    BY <1>1, <1>2, <1>3, SameSession DEF ResetDone
  <1> QED
    BY <1>4, <1>6, <1>7, <1>8, <1>9 DEF CalmInv

\* The program ends, or the next one begins that has nothing to type.
LEMMA CalmBetween ==
  ASSUME StartInv, Calm, jobs' = jobs, todo' = <<>>,
         UNCHANGED <<ram, ptrs, kcount, kbuf, basic, line>>,
         Ahead' => Ahead, ~Reached',
         ~HasPrg => sent' = NoPrg,
         Y[3] \in Sending /\ turn' = Y[1] /\ tool' = "chusb" => sent' = ThePrg,
         kcount # 0 => sent' = sent,
         Y[3] \notin Sending /\ turn' < Y[1] => turn < Y[1],
         Y[3] \notin Sending /\ Ahead' /\ turn' = Y[1] => turn < Y[1]
  PROVE  CalmInv'
  <1>3. Left /\ Prepared /\ Typed /\ Sent /\ ResetDone
    BY DEF StartInv, CalmInv
  <1>4. Left' /\ Prepared'
    BY DEF Left, Prepared
  <1>5. Loaded' = Loaded
    BY SameSession DEF Loaded
  <1>7. Typed'
    BY <1>3, <1>5, SameSession DEF Typed
  <1>8. Sent'
    BY <1>3, SameSession DEF Sent
  <1>9. ResetDone'
    <2>1. Y[3] \notin Sending /\ turn < Y[1] => basic \notin Busy \cup {"ready"}
      BY <1>3 DEF ResetDone
    <2>2. todo' # execute_resetwait /\ todo' # Tail(execute_resetwait) /\ todo' # <<Ask("wait")>>
      BY DEF execute_resetwait
    <2> QED
      BY <2>1, <2>2, SameSession DEF ResetDone
  <1> QED
    BY <1>4, <1>7, <1>8, <1>9 DEF CalmInv

\* A program ends: nothing of the session is ahead in it.
LEMMA CalmEnds ==
  ASSUME StartInv, Calm, tool' \notin {"codenet", "chusb"}, todo' = <<>>,
         UNCHANGED <<jobs, turn, memory, machine, history>>
  PROVE  CalmInv'
  <1>1. UNCHANGED <<ram, ptrs, kcount, kbuf, basic, line, sent>>
    BY DEF memory, machine, history
  <1>2. ~Reached' /\ (Ahead' => turn < Y[1]) /\ (Ahead' => Ahead)
    BY SameSession DEF Ahead, Reached
  <1>3. Sent
    BY DEF StartInv, CalmInv
  <1>4. Y[1] \in Nat /\ turn \in Nat
    BY YIs, JobsAre DEF StartInv, AtWork
  <1> QED
    BY <1>1, <1>2, <1>3, <1>4, CalmBetween, SameSession DEF Sent

\* What a calm session has beside the line.
LEMMA OpsAre ==
  ASSUME Calm, jobs \in Sessions, NEW j \in DOMAIN jobs
  PROVE  /\ jobs[j].prog = "chusb" /\ jobs[j].cmd \in Sending => Y = <<j, 1, jobs[j].cmd>>
         /\ jobs[j].prog = "chcodenet" =>
              \A i \in DOMAIN jobs[j].opts :
                LET op == jobs[j].opts[i].op IN
                /\ op \in {"x", "r", "e"} => Y = <<j, i, op>>
                /\ op \in {"w", "wa", "wb", "f", "resetwait"} =>
                      j < Y[1] \/ (j = Y[1] /\ i < Y[2])
                /\ op # "reset"
                /\ op = "resetwait" /\ Y[3] \notin Sending =>
                      j = Y[1] /\ Resets = {<<j, i, "resetwait">>}
  <1>1. PICK y \in Ops :
          /\ Typing = {y} /\ ~\E o \in Ops : o[3] = "reset"
          /\ \A o \in Touching : o[1] < y[1] \/ (o[1] = y[1] /\ o[2] < y[2])
          /\ y[3] \in Sending \/ \A o, r \in Resets : o = r /\ o[1] = y[1]
    BY DEF Calm
  <1>2. Typing = {Y} /\ y = Y
    BY <1>1, TheLine
  <1>3. ASSUME jobs[j].prog = "chusb", jobs[j].cmd \in Sending
        PROVE  Y = <<j, 1, jobs[j].cmd>>
    <2>1. <<j, 1, jobs[j].cmd>> \in Ops
      BY <1>3 DEF Ops
    <2>2. <<j, 1, jobs[j].cmd>> \in Typing
      BY <1>3, <2>1 DEF Typing
    <2> QED
      BY <1>2, <2>2
  <1>4. ASSUME jobs[j].prog = "chcodenet", NEW i \in DOMAIN jobs[j].opts
        PROVE  LET op == jobs[j].opts[i].op IN
                /\ op \in {"x", "r", "e"} => Y = <<j, i, op>>
                /\ op \in {"w", "wa", "wb", "f", "resetwait"} =>
                      j < Y[1] \/ (j = Y[1] /\ i < Y[2])
                /\ op # "reset"
                /\ op = "resetwait" /\ Y[3] \notin Sending =>
                      j = Y[1] /\ Resets = {<<j, i, "resetwait">>}
    <2> DEFINE op == jobs[j].opts[i].op
               o == <<j, i, op>>
    <2>1. o \in Ops
      BY <1>4 DEF Ops
    <2>2. o[1] = j /\ o[2] = i /\ o[3] = op
      OBVIOUS
    <2> HIDE DEF op, o
    <2>3. op \in {"x", "r", "e"} => o = Y
      BY <1>2, <2>1, <2>2 DEF Typing
    <2>4. op \in {"w", "wa", "wb", "f", "resetwait"} => o \in Touching
      BY <2>1, <2>2 DEF Touching
    <2>5. op \in {"w", "wa", "wb", "f", "resetwait"} => j < Y[1] \/ (j = Y[1] /\ i < Y[2])
      BY <1>1, <1>2, <2>2, <2>4
    <2>6. op # "reset"
      BY <1>1, <2>1, <2>2
    <2>7. op = "resetwait" => o \in Resets
      BY <2>1, <2>2 DEF Resets
    <2>8. op = "resetwait" /\ Y[3] \notin Sending => j = Y[1] /\ Resets = {o}
      BY <1>1, <1>2, <2>2, <2>7
    <2> QED
      BY <2>3, <2>5, <2>6, <2>8 DEF op, o
  <1> QED
    BY <1>3, <1>4

LEMMA CalmStartChusb ==
  ASSUME StartInv, Calm, NEW there \in BOOLEAN, StartChusb(there)
  PROVE  CalmInv'
  <1>1. /\ turn' = turn + 1 /\ jobs' = jobs /\ turn < Len(jobs) /\ jobs[turn'].prog = "chusb"
        /\ Job = jobs[turn'] /\ todo' = todo /\ tool \in {"none", "ok", "failed"}
        /\ UNCHANGED <<ram, ptrs, kcount, kbuf, basic, line>>
    BY DEF StartChusb, Starts, Job, memory, machine
  <1>2. turn' \in DOMAIN jobs /\ turn \in Nat /\ jobs \in Sessions /\ todo' = <<>>
    BY <1>1, JobsAre DEF StartInv, AtWork
  <1>3. Y[1] \in Nat /\ (Y[3] \in Sending => YJob.prog = "chusb" /\ YJob.cmd = Y[3])
        /\ (Y[3] \notin Sending => YJob.prog = "chcodenet")
    BY <1>2, YIs
  <1>4. Job.cmd \in Sending => turn' = Y[1] /\ Y[3] \in Sending
    BY <1>1, <1>2, OpsAre
  <1>5. sent' = sent \/ (Job.cmd \in Sending /\ sent' = Job.file)
    BY DEF StartChusb
  <1>6. tool' = "chusb" /\ Job.cmd \in Sending => sent' = Job.file
    BY DEF StartChusb
  <1>7. tool' \in {"chusb", "ok", "failed"} /\ (tool' = "chusb" => upc' # "dma")
    BY DEF StartChusb
  <1>8. (Ahead' => Ahead) /\ ~Reached' /\ (Ahead' => turn < Y[1])
    BY <1>1, <1>2, <1>3, <1>7, SameSession DEF Ahead, Reached
  <1>9. kcount # 0 => sent' = sent
    <2>1. kcount # 0 => ~Ahead
      BY DEF StartInv, CalmInv, Typed
    <2> QED
      BY <1>1, <1>2, <1>3, <1>4, <1>5, <2>1 DEF Ahead
  <1>10. Y[3] \in Sending /\ turn' = Y[1] /\ tool' = "chusb" => sent' = ThePrg
    BY <1>1, <1>3, <1>6 DEF ThePrg, YJob
  <1>11. ~HasPrg => sent' = NoPrg
    BY <1>4, <1>5 DEF StartInv, CalmInv, Sent, HasPrg
  <1>12. turn' < Y[1] => turn < Y[1]
    BY <1>1, <1>2, <1>3
  <1> QED
    BY <1>1, <1>2, <1>8, <1>9, <1>10, <1>11, <1>12, CalmBetween

LEMMA CalmStartCodenet ==
  ASSUME StartInv, Calm, StartCodenet
  PROVE  CalmInv'
  <1>1. /\ turn' = turn + 1 /\ jobs' = jobs /\ turn < Len(jobs) /\ jobs[turn'].prog = "chcodenet"
        /\ opts' = jobs[turn'].opts /\ todo' = <<>> /\ tool' = "codenet" /\ sent' = sent
        /\ UNCHANGED <<ram, ptrs, kcount, kbuf, basic, line>>
    BY DEF StartCodenet, Starts, Job, memory, machine, history
  <1>2. turn' \in DOMAIN jobs /\ turn \in Nat /\ jobs \in Sessions
    BY <1>1, JobsAre DEF StartInv, AtWork
  <1>3. Y[1] \in Nat /\ Y[2] \in Nat \ {0}
    BY <1>2, YIs
  <1>4. At' = 0
    BY <1>1, <1>2, JobsAre, IsSeqIs DEF At, Cmd
  <1>5. (Ahead' => turn < Y[1]) /\ (Ahead' => Ahead) /\ ~Reached'
    BY <1>1, <1>2, <1>3, <1>4, SameSession DEF Ahead, Reached
  <1>6. ~HasPrg => sent' = NoPrg
    BY <1>1 DEF StartInv, CalmInv, Sent
  <1> QED
    BY <1>1, <1>2, <1>3, <1>5, <1>6, CalmBetween

\* chusb at the start of its server: that is the line of the session.
LEMMA SendIsY ==
  ASSUME StartInv, Calm, tool = "chusb", upc \in Starting
  PROVE  /\ turn = Y[1] /\ Y[3] \in Sending /\ (upc # "dma" => Ahead) /\ sent = ThePrg
  <1>1. turn \in DOMAIN jobs /\ jobs \in Sessions /\ jobs[turn].prog = "chusb"
        /\ jobs[turn].cmd \in Sending
    BY DEF StartInv, AtWork, Cmd
  <1>2. Y = <<turn, 1, jobs[turn].cmd>>
    BY <1>1, OpsAre
  <1>3. turn = Y[1] /\ Y[3] \in Sending
    BY <1>1, <1>2
  <1>4. sent = ThePrg
    BY <1>3 DEF StartInv, CalmInv, Sent
  <1> QED
    BY <1>3, <1>4 DEF Ahead, Starting

LEMMA CalmDma ==
  ASSUME StartInv, Calm, Dma
  PROVE  CalmInv'
  <1>1. /\ tool = "chusb" /\ upc \in {"check", "gone"} /\ upc' = "dma" /\ basic \in {"ready", "direct"}
        /\ todo' = <<WriteRam(sent.load, sent.body)>> \o execute_run
        /\ UNCHANGED <<jobs, turn, tool, ram, ptrs, kcount, kbuf, basic, line, sent>>
    BY DEF Dma, ServerRunning, memory, machine, history
  <1>2. turn = Y[1] /\ Y[3] \in Sending /\ Ahead /\ sent = ThePrg
    BY <1>1, SendIsY DEF Starting
  <1>3. todo' = TheRequests
    BY <1>1, <1>2 DEF TheRequests, Sending
  <1>4. Len(TheRequests) = 4
    BY <1>2, TheRequestsAre DEF StartInv, AtWork, Sending
  <1>5. todo' # <<>> /\ IsSeq(todo') /\ Len(todo') = 4
    BY <1>1, <1>3, <1>4 DEF execute_run, Type, IsSeq
  <1>6. Reached' /\ ~Ahead'
    BY <1>1, <1>2, SameSession, YIs DEF Reached, Ahead, StartInv, AtWork
  <1>7. Left'
    BY <1>1, <1>3, <1>4, <1>5, <1>6, SameSession DEF Left, Rest
  <1>8. kcount = 0 /\ line = <<>>
    BY <1>2 DEF StartInv, CalmInv, Typed
  <1>9. Prepared'
    BY <1>1, <1>2, <1>3, <1>4, <1>5, <1>8, SameSession DEF Prepared, Busy, Sending
  <1>10. Typed' /\ Sent' /\ ResetDone'
    BY <1>1, <1>2, <1>8, SameSession DEF Typed, Sent, ResetDone, HasPrg
  <1> QED
    BY <1>7, <1>9, <1>10 DEF CalmInv

\* What the C64 does between direct mode, BASIC and the server.
LEMMA CalmServer ==
  ASSUME StartInv, Calm, UNCHANGED <<toolVars, memory, history, line, upc>>,
         basic \notin Busy \cup {"ready"}, basic' \notin Busy \cup {"ready", "run", "sys"}
  PROVE  CalmInv'
  <1>1. UNCHANGED <<jobs, turn, opts, todo, tool, ram, ptrs, kcount, kbuf, screen, line, sent>>
    BY DEF toolVars, memory, history
  <1>2. (Ahead <=> Ahead') /\ (Reached <=> Reached') /\ At' = At
    BY <1>1, SamePlace
  <1>3. Left /\ Prepared /\ Typed /\ Sent /\ ResetDone
    BY DEF StartInv, CalmInv
  <1>4. Left'
    BY <1>1, <1>2, <1>3, SameSession DEF Left
  <1>5. Loaded' = Loaded
    BY <1>1, SameSession DEF Loaded
  <1>6. Prepared'
    BY <1>1, <1>2, <1>3, <1>5, SameSession DEF Prepared
  <1>7. Typed'
    BY <1>1, <1>2, <1>3, <1>5, SameSession DEF Typed
  <1>8. Sent'
    BY <1>1, <1>3, SameSession DEF Sent
  <1>9. ResetDone'
    BY <1>1, <1>2, <1>3, SameSession DEF ResetDone
  <1> QED
    BY <1>4, <1>6, <1>7, <1>8, <1>9 DEF CalmInv

LEMMA CalmUserResets ==
  ASSUME StartInv, Calm, UserResets
  PROVE  CalmInv'
  <1>1. tool = "chusb" /\ upc = "gone" /\ line' = <<>>
        /\ UNCHANGED <<jobs, turn, opts, todo, tool, ram, ptrs, kcount, kbuf, screen, sent, upc>>
    BY DEF UserResets, toolVars, memory, history, usbVars
  <1>2. (Ahead <=> Ahead') /\ (Reached <=> Reached') /\ At' = At
    BY <1>1, SamePlace
  <1>3. turn = Y[1] /\ Y[3] \in Sending /\ Ahead
    BY <1>1, SendIsY DEF Starting
  <1>4. todo = <<>>
    BY <1>1 DEF StartInv, AtWork
  <1>5. Typed /\ Sent
    BY DEF StartInv, CalmInv
  <1>6. Left' /\ Prepared'
    BY <1>1, <1>4 DEF Left, Prepared
  <1>7. Typed' /\ Sent' /\ ResetDone'
    BY <1>1, <1>2, <1>3, <1>5, SameSession DEF Typed, Sent, ResetDone
  <1> QED
    BY <1>6, <1>7 DEF CalmInv

\* The C64 between its reset and direct mode: no key is counted meanwhile.
LEMMA CalmResets ==
  ASSUME StartInv, Calm, upc' = upc, KernalStarts \/ BasicNew \/ PrintReady
  PROVE  CalmInv'
  <1>1. UNCHANGED <<jobs, turn, opts, todo, tool, kbuf, line, sent>>
    BY DEF KernalStarts, BasicNew, PrintReady, toolVars, history
  <1>2. (Ahead <=> Ahead') /\ (Reached <=> Reached') /\ At' = At
    BY <1>1, SamePlace
  <1>3. Left /\ Prepared /\ Typed /\ Sent /\ ResetDone
    BY DEF StartInv, CalmInv
  <1>4. Left' /\ Sent'
    BY <1>1, <1>2, <1>3, SameSession DEF Left, Sent
  <1>5. CASE PrintReady
    <2>1. UNCHANGED <<ram, ptrs, kcount>> /\ basic = "ready" /\ basic' \notin Busy \cup {"run", "sys"}
      BY <1>5 DEF PrintReady, Busy
    <2>2. Loaded' = Loaded
      BY <1>1, <2>1, SameSession DEF Loaded
    <2>3. Prepared' /\ Typed'
      BY <1>1, <1>2, <1>3, <2>1, <2>2, SameSession DEF Prepared, Typed
    <2>4. ResetDone'
      BY <1>1, <1>2, <1>3, <2>1, SameSession DEF ResetDone
    <2> QED
      BY <1>4, <2>3, <2>4 DEF CalmInv
  <1>6. CASE KernalStarts \/ BasicNew
    <2>1. basic \in Busy /\ (kcount' = 0 \/ kcount' = kcount)
          /\ \/ basic' = "new" /\ screen' = Blank
             \/ basic' = "ready"
      BY <1>6 DEF KernalStarts, BasicNew, Busy
    <2>2. ~(Reached /\ todo # <<>>) /\ kcount = 0
      BY <1>3, <2>1 DEF Prepared, Typed
    <2>3. Prepared' /\ Typed'
      BY <1>1, <1>2, <1>3, <2>1, <2>2, SameSession DEF Prepared, Typed
    <2>4. ResetDone'
      BY <1>1, <1>2, <1>3, <2>1, SameSession DEF ResetDone, Busy
    <2> QED
      BY <1>4, <2>3, <2>4 DEF CalmInv
  <1> QED
    BY <1>5, <1>6

\* The keys in the buffer are the end of the line and the return.
LEMMA KeysAre ==
  ASSUME Calm, jobs \in Sessions
  PROVE  /\ Keys \in {4, 5} /\ Len(TypedLine) = Keys - 1 /\ (Keys = 5 => TypedLine[2] = "y")
         /\ \A i \in 1 .. Keys - 1 : Key(i) = TypedLine[i] /\ Key(i) # "return"
         /\ Key(Keys) = "return"
         /\ SubSeq(TypedLine, 1, Keys - 1) = TypedLine /\ SubSeq(TypedLine, 1, 0) = <<>>
         /\ \A i \in 1 .. Keys - 1, s \in 1 .. Keys :
               s <= i => SubSeq(TypedLine, s, i) = Append(SubSeq(TypedLine, s, i - 1), TypedLine[i])
  <1>1. Keys \in {4, 5} /\ TypedLine \in Seq(Letters)
    BY TheRequestsAre
  <1>2. Len(TypedLine) = Keys - 1
    BY <1>1 DEF Keys
  <1>3. \A i \in 1 .. Keys - 1 : TypedLine[i] \in Letters
    BY <1>1, <1>2
  <1>4. \A i \in 1 .. Keys - 1 : Key(i) = TypedLine[i] /\ Key(i) # "return"
    BY <1>1, <1>3 DEF Key, Letters
  <1>5. SubSeq(TypedLine, 1, Keys - 1) = TypedLine /\ SubSeq(TypedLine, 1, 0) = <<>>
    BY <1>1, <1>2
  <1>6. \A i \in 1 .. Keys - 1, s \in 1 .. Keys :
               s <= i => SubSeq(TypedLine, s, i) = Append(SubSeq(TypedLine, s, i - 1), TypedLine[i])
    BY <1>1, <1>2
  <1>7. Keys = 5 => TypedLine[2] = "y"
    <2>1. TypedLine = IF Y[3] = "e" THEN <<"S", "y">> \o Digits(YOpt.addr) ELSE <<"R", "U", "N">>
      BY DEF TypedLine, Y, YOpt, YJob
    <2>2. Y[3] # "e" => Keys = 4
      BY <2>1 DEF Keys
    <2>3. ASSUME NEW d \in Seq(Letters), Y[3] = "e", TypedLine = <<"S", "y">> \o d PROVE TypedLine[2] = "y"
      BY <2>3
    <2>4. Y[3] = "e" => Digits(YOpt.addr) \in Seq(Letters)
      BY YIs, DigitsAreLetters DEF Sending
    <2> QED
      BY <2>1, <2>2, <2>3, <2>4
  <1> QED
    BY <1>1, <1>2, <1>4, <1>5, <1>6, <1>7 DEF Key

\* A line without its first keys starts nothing.
LEMMA OnlyWholeLines ==
  ASSUME Calm, jobs \in Sessions, NEW s \in 2 .. Keys
  PROVE  LET part == SubSeq(TypedLine, s, Keys - 1) IN
         part # <<"R", "U", "N">> /\ ~(Len(part) > 2 /\ SubSeq(part, 1, 2) = <<"S", "y">>)
  <1> DEFINE part == SubSeq(TypedLine, s, Keys - 1)
  <1>1. Keys \in {4, 5} /\ Len(TypedLine) = Keys - 1 /\ (Keys = 5 => TypedLine[2] = "y")
        /\ TypedLine \in Seq(Letters)
    BY KeysAre, TheRequestsAre
  <1>2. Len(part) = Keys - s /\ (\A i \in 1 .. Keys - s : part[i] = TypedLine[s + i - 1])
        /\ part \in Seq(Letters)
    BY <1>1
  <1> HIDE DEF part
  <1>3. CASE Keys = 5 /\ s = 2
    <2>1. Len(part) = 3 /\ part[1] = "y"
      BY <1>1, <1>2, <1>3
    <2>2. SubSeq(part, 1, 2)[1] = part[1]
      BY <1>2, <2>1
    <2>3. <<"R", "U", "N">>[1] = "R" /\ <<"S", "y">>[1] = "S"
      OBVIOUS
    <2>4. part # <<"R", "U", "N">> /\ SubSeq(part, 1, 2) # <<"S", "y">>
      BY <2>1, <2>2, <2>3, Zenon
    <2> QED
      BY <2>4 DEF part
  <1>4. CASE ~(Keys = 5 /\ s = 2)
    <2>1. Len(part) <= 2
      BY <1>1, <1>2, <1>4
    <2>2. Len(part) # 3 /\ ~(Len(part) > 2)
      BY <1>1, <1>2, <2>1
    <2>3. Len(<<"R", "U", "N">>) = 3
      OBVIOUS
    <2>4. part # <<"R", "U", "N">>
      BY <2>2, <2>3, Zenon
    <2> QED
      BY <2>2, <2>4 DEF part
  <1> QED
    BY <1>3, <1>4

LEMMA TakesTheLine ==
  ASSUME StartInv, Calm, TakeKey, upc' = upc
  PROVE  /\ kbuf[1] # "return" => /\ kcount \in 2 .. Keys /\ kcount' = kcount - 1
                                  /\ \E s \in 1 .. Keys - kcount' + 1 :
                                        line' = SubSeq(TypedLine, s, Keys - kcount')
                                  /\ basic' = "direct"
         /\ kbuf[1] = "return" => /\ kcount = 1 /\ kcount' = 0 /\ line' = <<>>
                                  /\ basic' # "direct" => entered' = TypedLine
         /\ \A i \in 1 .. kcount' : kbuf'[i] = Key(Keys - kcount' + i)
         /\ basic' \in {"direct", "run", "sys"}
         /\ HasPrg => sent = ThePrg /\ Loaded
         /\ Y[3] = "x" => \A p \in Pointers : ptrs[p] = TheEnd
  <1>1. jobs \in Sessions /\ Typed
    BY DEF StartInv, AtWork, CalmInv
  <1>2. kcount # 0 /\ basic = "direct" /\ kcount' = kcount - 1
        /\ kbuf' = [i \in 1 .. 10 |-> IF i < 10 THEN kbuf[i + 1] ELSE kbuf[10]]
    BY <1>1 DEF TakeKey, KeyTaken
  <1>3. /\ kcount \in 1 .. Keys /\ \E s \in 1 .. Keys - kcount + 1 : line = SubSeq(TypedLine, s, Keys - kcount)
        /\ \A i \in 1 .. kcount : kbuf[i] = Key(Keys - kcount + i)
        /\ HasPrg => sent = ThePrg /\ Loaded
        /\ Y[3] = "x" => \A p \in Pointers : ptrs[p] = TheEnd
    BY <1>1, <1>2 DEF Typed
  <1>4. Keys \in {4, 5}
    BY <1>1, KeysAre
  <1>5. kbuf[1] = Key(Keys - kcount + 1)
    BY <1>3, <1>4
  <1>6. ASSUME NEW i \in 1 .. kcount' PROVE kbuf'[i] = Key(Keys - kcount' + i)
    <2>1. i + 1 \in 1 .. kcount /\ i \in 1 .. 9
      BY <1>2, <1>3, <1>4, <1>6
    <2>2. kbuf'[i] = kbuf[i + 1] /\ kbuf[i + 1] = Key(Keys - kcount + (i + 1))
      BY <1>2, <1>3, <2>1
    <2>3. Keys - kcount + (i + 1) = Keys - kcount' + i
      BY <1>2, <1>3, <1>4, <2>1
    <2> QED
      BY <2>2, <2>3, Zenon
  <1>7. basic' \in {"direct", "run", "sys"}
    BY DEF TakeKey
  <1>8. CASE kcount = 1
    <2>1. kbuf[1] = "return"
      BY <1>1, <1>4, <1>5, <1>8, KeysAre
    <2>2. PICK s \in 1 .. Keys : line = SubSeq(TypedLine, s, Keys - 1)
      BY <1>3, <1>4, <1>8
    <2>3. line' = <<>> /\ entered' = line /\ kcount' = 0
      BY <1>2, <1>8, <2>1 DEF TakeKey
    <2>4. basic' # "direct" => line = <<"R", "U", "N">> \/ (Len(line) > 2 /\ SubSeq(line, 1, 2) = <<"S", "y">>)
      BY <2>1 DEF TakeKey
    <2>5. basic' # "direct" => s = 1
      <3>1. s \in 2 .. Keys \/ s = 1
        BY <1>4, <2>2
      <3>2. s \in 2 .. Keys => basic' = "direct"
        BY <1>1, <2>2, <2>4, OnlyWholeLines
      <3> QED
        BY <3>1, <3>2
    <2>6. basic' # "direct" => entered' = TypedLine
      BY <1>1, <2>2, <2>3, <2>5, KeysAre
    <2> QED
      BY <1>3, <1>6, <1>7, <1>8, <2>1, <2>3, <2>6
  <1>9. CASE kcount # 1
    <2>1. kcount \in 2 .. Keys /\ Keys - kcount + 1 \in 1 .. Keys - 1
      BY <1>3, <1>4, <1>9
    <2>2. kbuf[1] # "return" /\ kbuf[1] = TypedLine[Keys - kcount + 1]
      BY <1>1, <1>5, <2>1, KeysAre
    <2>3. line' = Append(line, kbuf[1]) /\ basic' = basic
      BY <2>2 DEF TakeKey
    <2>4. PICK s \in 1 .. Keys - kcount + 1 : line = SubSeq(TypedLine, s, Keys - kcount)
      BY <1>3
    <2>5. s \in 1 .. Keys /\ s <= Keys - kcount + 1 /\ (Keys - kcount + 1) - 1 = Keys - kcount
      BY <1>4, <2>1, <2>4
    <2>6. SubSeq(TypedLine, s, Keys - kcount + 1) = Append(SubSeq(TypedLine, s, Keys - kcount), kbuf[1])
      BY <1>1, <2>1, <2>2, <2>5, KeysAre
    <2>7. Keys - kcount' = Keys - kcount + 1 /\ s \in 1 .. Keys - kcount' + 1
      BY <1>2, <1>4, <2>1, <2>4
    <2>8. line' = SubSeq(TypedLine, s, Keys - kcount')
      BY <2>3, <2>4, <2>6, <2>7
    <2> QED
      BY <1>2, <1>3, <1>6, <1>7, <2>1, <2>2, <2>3, <2>7, <2>8
  <1> QED
    BY <1>8, <1>9

LEMMA CalmTakeKey ==
  ASSUME StartInv, Calm, TakeKey, upc' = upc
  PROVE  CalmInv'
  <1>1. UNCHANGED <<jobs, turn, opts, todo, tool, ram, ptrs, screen, sent>>
        /\ basic = "direct" /\ kcount # 0
    BY DEF TakeKey, KeyTaken, toolVars, StartInv, CalmInv, Typed
  <1>2. (Ahead <=> Ahead') /\ (Reached <=> Reached') /\ At' = At
    BY <1>1, SamePlace
  <1>3. Left /\ Prepared /\ Typed /\ Sent /\ ResetDone
    BY DEF StartInv, CalmInv
  <1>4. Left' /\ Sent'
    BY <1>1, <1>2, <1>3, SameSession DEF Left, Sent
  <1>5. ~Ahead /\ ~(Reached /\ todo # <<>>)
    BY <1>1, <1>3 DEF Typed, Prepared
  <1>6. Prepared' /\ Loaded' = Loaded
    BY <1>1, <1>2, <1>5, SameSession DEF Prepared, Loaded
  <1>7. basic' \notin Busy \cup {"ready"}
    BY TakesTheLine DEF Busy
  <1>8. Typed'
    <2>1. kcount' = 0 => line' = <<>>
      BY TakesTheLine
    <2>2. Keys \in {4, 5}
      BY TheRequestsAre DEF StartInv, AtWork
    <2>3. kcount' # 0 => /\ kcount' \in 1 .. Keys /\ basic' \notin {"run", "sys"}
                         /\ \E s \in 1 .. Keys - kcount' + 1 : line' = SubSeq(TypedLine, s, Keys - kcount')
      BY <2>2, TakesTheLine
    <2>4. HasPrg => sent' = ThePrg /\ Loaded'
      BY <1>1, <1>6, TakesTheLine
    <2>5. Y[3] = "x" => \A p \in Pointers : ptrs'[p] = TheEnd
      BY <1>1, TakesTheLine
    <2>6. \A i \in 1 .. kcount' : kbuf'[i] = Key(Keys - kcount' + i)
      BY TakesTheLine
    <2> QED
      BY <1>1, <1>2, <1>5, <1>7, <2>1, <2>3, <2>4, <2>5, <2>6, SameSession DEF Typed
  <1>9. ResetDone'
    BY <1>1, <1>2, <1>3, <1>5, <1>7, SameSession DEF ResetDone
  <1> QED
    BY <1>4, <1>6, <1>8, <1>9 DEF CalmInv

\* A program takes a key: it is lost to the line.
LEMMA CalmProgramTakesKey ==
  ASSUME StartInv, Calm, ProgramTakesKey, upc' = upc
  PROVE  CalmInv'
  <1>1. /\ UNCHANGED <<jobs, turn, opts, todo, tool, ram, ptrs, screen, basic, line, sent>>
        /\ basic \in {"run", "sys"} /\ kcount # 0 /\ kcount' = kcount - 1
        /\ kbuf' = [i \in 1 .. 10 |-> IF i < 10 THEN kbuf[i + 1] ELSE kbuf[10]]
    BY DEF ProgramTakesKey, KeyTaken, toolVars, machine, history, StartInv, CalmInv, Typed
  <1>2. (Ahead <=> Ahead') /\ (Reached <=> Reached') /\ At' = At
    BY <1>1, SamePlace
  <1>3. Left /\ Prepared /\ Typed /\ Sent /\ ResetDone /\ jobs \in Sessions
    BY DEF StartInv, AtWork, CalmInv
  <1>4. Left' /\ Sent'
    BY <1>1, <1>2, <1>3, SameSession DEF Left, Sent
  <1>5. ~Ahead /\ ~(Reached /\ todo # <<>>) /\ line = <<>>
    BY <1>1, <1>3 DEF Typed, Prepared
  <1>6. Prepared' /\ Loaded' = Loaded
    BY <1>1, <1>2, <1>5, SameSession DEF Prepared, Loaded
  <1>7. Typed'
    <2>1. Keys \in {4, 5} /\ kcount \in 1 .. Keys /\ \A i \in 1 .. kcount : kbuf[i] = Key(Keys - kcount + i)
      BY <1>1, <1>3, KeysAre DEF Typed
    <2>2. ASSUME NEW i \in 1 .. kcount' PROVE kbuf'[i] = Key(Keys - kcount' + i)
      <3>1. i + 1 \in 1 .. kcount /\ i \in 1 .. 9
        BY <1>1, <2>1, <2>2
      <3>2. kbuf'[i] = kbuf[i + 1] /\ kbuf[i + 1] = Key(Keys - kcount + (i + 1))
        BY <1>1, <2>1, <3>1
      <3>3. Keys - kcount + (i + 1) = Keys - kcount' + i
        BY <1>1, <2>1, <3>1
      <3> QED
        BY <3>2, <3>3, Zenon
    <2>3. kcount' # 0 => kcount' \in 1 .. Keys
      BY <1>1, <2>1
    <2>4. kcount' # 0 => \E s \in 1 .. Keys - kcount' + 1 : line' = SubSeq(TypedLine, s, Keys - kcount')
      <3> SUFFICES ASSUME kcount' # 0
                   PROVE  \E s \in 1 .. Keys - kcount' + 1 : line' = SubSeq(TypedLine, s, Keys - kcount')
        OBVIOUS
      <3>1. Keys - kcount' + 1 \in 1 .. Keys - kcount' + 1 /\ Keys - kcount' \in Nat
        BY <2>1, <2>3
      <3>2. SubSeq(TypedLine, Keys - kcount' + 1, Keys - kcount') = <<>>
        <4>1. TypedLine \in Seq(Letters)
          BY <1>3, TheRequestsAre
        <4> QED
          BY <3>1, <4>1
      <3> QED
        BY <1>1, <1>5, <3>1, <3>2
    <2> QED
      BY <1>1, <1>2, <1>3, <1>5, <1>6, <2>2, <2>3, <2>4, SameSession DEF Typed
  <1>8. ResetDone'
    BY <1>1, <1>2, <1>3, SameSession DEF ResetDone
  <1> QED
    BY <1>4, <1>6, <1>7, <1>8 DEF CalmInv

\* The requests that type, one request further.
LEMMA RestStep ==
  ASSUME NEW t, NEW all, Rest(t, all), Len(all) \in Nat
  PROVE  /\ Len(t) \in 1 .. Len(all) /\ Len(Tail(t)) = Len(t) - 1
         /\ Head(t) = all[Len(all) - Len(t) + 1]
         /\ Tail(t) # <<>> => Rest(Tail(t), all)
         /\ Tail(t) = <<>> <=> Len(t) = 1
  <1>1. IsSeq(t) /\ t # <<>> /\ Len(t) <= Len(all)
        /\ \A i \in 1 .. Len(t) : t[i] = all[Len(all) - Len(t) + i]
    BY DEF Rest
  <1>2. Len(t) \in Nat /\ Len(t) > 0
    BY <1>1, IsSeqIs
  <1>3. /\ IsSeq(Tail(t)) /\ Len(Tail(t)) = Len(t) - 1
        /\ \A i \in 1 .. Len(t) - 1 : Tail(t)[i] = t[i + 1]
        /\ Head(t) = t[1]
    BY <1>1, TailIs
  <1>4. Head(t) = all[Len(all) - Len(t) + 1]
    BY <1>1, <1>2, <1>3
  <1>5. \A i \in 1 .. Len(Tail(t)) : Tail(t)[i] = all[Len(all) - Len(Tail(t)) + i]
    <2> TAKE i \in 1 .. Len(Tail(t))
    <2>1. i + 1 \in 1 .. Len(t) /\ i \in 1 .. Len(t) - 1
      BY <1>2, <1>3
    <2>2. Len(all) - Len(t) + (i + 1) = Len(all) - Len(Tail(t)) + i
      <3> DEFINE a == Len(all)
                 m == Len(t)
                 l == Len(Tail(t))
      <3>1. a \in Int /\ m \in Int /\ l = m - 1 /\ i \in Int
        BY <1>2, <1>3
      <3> HIDE DEF a, m, l
      <3>2. a - m + (i + 1) = a - l + i
        BY <3>1
      <3> QED
        BY <3>2 DEF a, m, l
    <2> QED
      BY <1>1, <1>3, <2>1, <2>2
  <1>6. Len(Tail(t)) <= Len(all)
    BY <1>1, <1>2, <1>3
  <1>7. Tail(t) # <<>> => Rest(Tail(t), all)
    BY <1>3, <1>5, <1>6 DEF Rest
  <1>8. Tail(t) = <<>> <=> Len(t) = 1
    <2>1. Len(Tail(t)) = 0 <=> Len(t) = 1
      BY <1>2, <1>3
    <2>2. Len(Tail(t)) = 0 => Tail(t) = <<>>
      BY <1>3, IsSeqIs
    <2>3. Tail(t) = <<>> => Len(Tail(t)) = 0
      BY EmptySeq, Zenon
    <2> QED
      BY <2>1, <2>2, <2>3
  <1> QED
    BY <1>1, <1>2, <1>3, <1>4, <1>7, <1>8

LEMMA TheRequestsAreSeq ==
  ASSUME Calm, jobs \in Sessions
  PROVE  IsSeq(TheRequests) /\ TheRequests # <<>>
  <1>1. execute_run \in Seq({execute_run[1], execute_run[2], execute_run[3]}) /\ execute_run # <<>>
    BY DEF execute_run, Type
  <1>2. \A S, s : s \in Seq(S) => IsSeq(s)
    BY DEF IsSeq
  <1>3. CASE Y[3] = "x"
    <2> DEFINE w == WriteRam(ThePrg.load, Fits(ThePrg.body, ThePrg.load))
               p == setup_pointers(TheTop)
               S == {w, p[1], p[2], p[3], p[4], execute_run[1], execute_run[2], execute_run[3]}
    <2>1. TheRequests = <<w>> \o p \o execute_run
      BY <1>3 DEF TheRequests, Sending
    <2>2. p \in Seq({p[1], p[2], p[3], p[4]})
      BY DEF setup_pointers
    <2> HIDE DEF w, p
    <2>3. <<w>> \in Seq(S) /\ p \in Seq(S) /\ execute_run \in Seq(S)
      BY <1>1, <2>2
    <2>4. TheRequests \in Seq(S)
      BY <2>1, <2>3
    <2>5. Len(TheRequests) = 8
      BY <1>3, TheRequestsAre
    <2> QED
      BY <1>2, <2>4, <2>5
  <1>4. CASE Y[3] \in Sending
    <2> DEFINE w == WriteRam(ThePrg.load, ThePrg.body)
               S == {w, execute_run[1], execute_run[2], execute_run[3]}
    <2>1. TheRequests = <<w>> \o execute_run
      BY <1>4 DEF TheRequests, Sending
    <2> HIDE DEF w
    <2>2. <<w>> \in Seq(S) /\ execute_run \in Seq(S)
      BY <1>1
    <2>3. TheRequests \in Seq(S)
      BY <2>1, <2>2
    <2>4. Len(TheRequests) = 4
      BY <1>4, TheRequestsAre DEF Sending
    <2> QED
      BY <1>2, <2>3, <2>4, SMTT(60)
  <1>5. CASE Y[3] = "e"
    <2>1. \A d, n : Type(d, n) \in Seq({WriteCount(0), WriteKeys(d), WriteCount(n)}) /\ Type(d, n) # <<>>
      BY DEF Type
    <2>2. TheRequests = execute_sys(YOpt.addr)
      BY <1>5 DEF TheRequests, Sending
    <2> QED
      BY <1>2, <2>1, <2>2 DEF execute_sys
  <1>6. CASE Y[3] = "r"
    <2>1. TheRequests = execute_run
      BY <1>6 DEF TheRequests, Sending
    <2> QED
      BY <1>1, <1>2, <2>1
  <1> QED
    BY <1>3, <1>4, <1>5, <1>6, YIs

\* The three stages of -resetwait.
LEMMA ResetwaitIs ==
  /\ Head(execute_resetwait).do = "blank" /\ Head(Tail(execute_resetwait)).do = "reset"
  /\ Head(<<Ask("wait")>>).do = "wait" /\ Head(<<Ask("fail")>>).do = "fail"
  /\ Tail(Tail(execute_resetwait)) = <<Ask("wait")>> /\ Tail(<<Ask("wait")>>) = <<>>
  /\ execute_resetwait # Tail(execute_resetwait) /\ execute_resetwait # <<Ask("wait")>>
  /\ Tail(execute_resetwait) # <<Ask("wait")>> /\ execute_resetwait # <<>>
  /\ Tail(execute_resetwait) # <<>> /\ <<Ask("wait")>> # <<>>
  /\ <<Ask("fail")>> # <<Ask("wait")>> /\ <<Ask("fail")>> # execute_resetwait
  /\ <<Ask("fail")>> # Tail(execute_resetwait) /\ <<Ask("fail")>> # <<>>
  /\ \A t : t.do = "ram" => /\ <<t>> # execute_resetwait /\ <<t>> # Tail(execute_resetwait)
                            /\ <<t>> # <<Ask("wait")>> /\ Head(<<t>>) = t /\ Tail(<<t>>) = <<>>
                            /\ <<t>>[1] = t /\ <<t>> # <<Ask("fail")>> /\ <<t>> # <<>>
  <1>1. /\ Len(execute_resetwait) = 3 /\ Len(Tail(execute_resetwait)) = 2
        /\ Len(<<Ask("wait")>>) = 1 /\ Len(<<Ask("fail")>>) = 1 /\ Len(<<>>) = 0
    BY DEF execute_resetwait, Ask
  <1>2. /\ Head(execute_resetwait).do = "blank" /\ Head(Tail(execute_resetwait)).do = "reset"
        /\ Head(<<Ask("wait")>>).do = "wait" /\ Head(<<Ask("fail")>>).do = "fail"
        /\ Tail(Tail(execute_resetwait)) = <<Ask("wait")>> /\ Tail(<<Ask("wait")>>) = <<>>
    BY DEF execute_resetwait, Ask
  <1>3. \A m, n \in Nat : m = 3 /\ n = 2 => m # n /\ m # 1 /\ m # 0 /\ n # 1 /\ n # 0
    OBVIOUS
  <1>4. /\ execute_resetwait # Tail(execute_resetwait) /\ execute_resetwait # <<Ask("wait")>>
        /\ Tail(execute_resetwait) # <<Ask("wait")>> /\ execute_resetwait # <<>>
        /\ Tail(execute_resetwait) # <<>> /\ <<Ask("wait")>> # <<>>
        /\ <<Ask("fail")>> # execute_resetwait /\ <<Ask("fail")>> # Tail(execute_resetwait)
        /\ <<Ask("fail")>> # <<>>
    <2>1. 3 # 2 /\ 3 # 1 /\ 3 # 0 /\ 2 # 1 /\ 2 # 0 /\ 1 # 0
      OBVIOUS
    <2> QED
      BY <1>1, <2>1, Zenon
  <1>5. <<Ask("fail")>> # <<Ask("wait")>>
    BY <1>2
  <1>6. ASSUME NEW t, t.do = "ram"
        PROVE  /\ <<t>> # execute_resetwait /\ <<t>> # Tail(execute_resetwait)
               /\ <<t>> # <<Ask("wait")>> /\ Head(<<t>>) = t /\ Tail(<<t>>) = <<>>
               /\ <<t>>[1] = t /\ <<t>> # <<Ask("fail")>> /\ <<t>> # <<>>
    <2>1. Head(<<t>>) = t /\ Tail(<<t>>) = <<>> /\ <<t>>[1] = t
      OBVIOUS
    <2>2. "ram" # "blank" /\ "ram" # "reset" /\ "ram" # "wait" /\ "ram" # "fail"
      OBVIOUS
    <2>3. <<t>> # <<>>
      OBVIOUS
    <2> QED
      BY <1>2, <1>6, <2>1, <2>2, <2>3, Zenon
  <1> QED
    BY <1>2, <1>4, <1>5, <1>6

\* A request before the operation: memory is written, or the C64 is reset and awaited.
LEMMA CalmAhead ==
  ASSUME StartInv, Calm, Pokes, upc' = upc, Ahead
  PROVE  CalmInv'
  <1>1. UNCHANGED <<jobs, turn, opts, tool, sent>> /\ todo # <<>>
    BY DEF Pokes, PokeRam, PokePointer, PokeCount, PokeKeys, PokeScreen, Reset, PollReady, Doing, history
  <1>2. (Ahead <=> Ahead') /\ (Reached <=> Reached') /\ At' = At
    BY <1>1, SamePlace
  <1>3. Left /\ Prepared /\ Typed /\ Sent /\ ResetDone
    BY DEF StartInv, CalmInv
  <1>4. ~Reached /\ kcount = 0 /\ line = <<>>
    <2>1. Y[1] \in Nat /\ Y[2] \in Nat /\ turn \in Nat
      BY YIs, JobsAre DEF StartInv, AtWork
    <2>2. tool = "codenet" => At \in Int
      BY JobsAre, IsSeqIs DEF StartInv, AtWork, At, Cmd
    <2> QED
      BY <1>3, <2>1, <2>2 DEF Typed, Ahead, Reached
  <1>5. Prepared' /\ Sent'
    BY <1>1, <1>2, <1>3, <1>4, SameSession DEF Prepared, Sent
  <1>9. /\ Pokes => Head(todo).do \in {"ram", "ptr", "count", "keys", "blank", "reset", "wait"}
        /\ Head(todo).do = "ram" => PokeRam
        /\ Head(todo).do = "blank" => PokeScreen
        /\ Head(todo).do = "reset" => Reset
        /\ Head(todo).do = "wait" => PollReady
    BY DEF Pokes, PokeRam, PokePointer, PokeCount, PokeKeys, PokeScreen, Reset, PollReady, Doing
  <1>10. CASE todo = <<todo[1]>> /\ todo[1].do = "ram"
    <2>0. Head(todo).do = "ram" /\ Tail(todo) = <<>>
      BY <1>10, ResetwaitIs, Zenon
    <2>1. PokeRam /\ todo' = <<>> /\ UNCHANGED <<kcount, basic, line>>
      BY <1>9, <2>0 DEF PokeRam, machine
    <2>3. todo \notin Resetting
      BY <1>10, ResetwaitIs, Zenon DEF Resetting
    <2>4. Left' /\ Typed'
      BY <1>2, <1>4, <2>1, SameSession DEF Left, Typed
    <2>5. ResetDone'
      <3>1. todo' # <<Ask("wait")>> /\ todo' # execute_resetwait /\ todo' # Tail(execute_resetwait)
        BY <2>1, ResetwaitIs, Zenon
      <3> QED
        BY <1>1, <1>2, <1>3, <2>1, <2>3, <3>1, SameSession DEF ResetDone
    <2> QED
      BY <1>5, <2>4, <2>5 DEF CalmInv
  <1>11. CASE /\ Y[3] \in Sending \/ (turn = Y[1] /\ \A r \in Resets : r[2] <= At)
              /\ todo \in Resetting
    <2>0. Y[3] \notin Sending => turn = Y[1] /\ ~(turn < Y[1]) /\ \A r \in Resets : ~(At < r[2])
      <3>1. ASSUME Y[3] \notin Sending PROVE At \in Int /\ turn \in Nat /\ \A r \in Resets : r[2] \in Int
        <4>1. turn = Y[1] /\ YJob.prog = "chcodenet" /\ jobs \in Sessions
          BY <1>11, <3>1, YIs DEF StartInv, AtWork
        <4>2. Cmd.prog = "chcodenet" /\ tool = "codenet"
          BY <3>1, <4>1, SendIsY, YIs, <1>1 DEF Cmd, YJob, Ahead, Starting, StartInv, AtWork
        <4>3. At \in Int /\ turn \in Nat
          BY <4>1, <4>2, JobsAre, IsSeqIs DEF StartInv, AtWork, At, Cmd
        <4>4. ASSUME NEW r \in Resets PROVE r[2] \in Int
          <5>1. r \in Ops
            BY <4>4 DEF Resets
          <5>2. PICK j \in DOMAIN jobs :
                  r \in IF jobs[j].prog = "chusb" THEN {<<j, 1, jobs[j].cmd>>}
                        ELSE {<<j, i, jobs[j].opts[i].op>> : i \in DOMAIN jobs[j].opts}
            BY <5>1 DEF Ops
          <5>3. r[2] = 1 \/ (jobs[j].prog # "chusb" /\ r[2] \in DOMAIN jobs[j].opts)
            BY <5>2
          <5> QED
            BY <4>1, <5>3, JobsAre, IsSeqIs
        <4> QED
          BY <4>3, <4>4
      <3> QED
        BY <1>11, <3>1
    <2>1. CASE todo = execute_resetwait
      <3>0. Head(todo).do = "blank"
        BY <2>1, ResetwaitIs, Zenon
      <3>1. PokeScreen /\ todo' = Tail(execute_resetwait) /\ UNCHANGED <<kcount, basic, line>>
            /\ screen' = Blank
        BY <1>9, <2>1, <3>0 DEF PokeScreen, machine
      <3>2. Left' /\ Typed'
        BY <1>1, <1>2, <1>4, <1>11, <3>1, SameSession DEF Left, Typed, Resetting
      <3>3. ResetDone'
        <4>1. todo' # execute_resetwait /\ todo' # <<Ask("wait")>>
          BY <3>1, ResetwaitIs, Zenon
        <4>2. Y[3] \notin Sending => basic \notin Busy \cup {"ready"}
          BY <1>3, <2>0, <2>1 DEF ResetDone
        <4> QED
          BY <1>1, <1>2, <2>0, <3>1, <4>1, <4>2, SameSession DEF ResetDone
      <3> QED
        BY <1>5, <3>2, <3>3 DEF CalmInv
    <2>2. CASE todo = Tail(execute_resetwait)
      <3>0. Head(todo).do = "reset" /\ Tail(todo) = <<Ask("wait")>>
        BY <2>2, ResetwaitIs, Zenon
      <3>1. Reset /\ todo' = <<Ask("wait")>> /\ line' = <<>> /\ UNCHANGED <<kcount, screen>>
        BY <1>9, <3>0 DEF Reset, memory
      <3>2. Left' /\ Typed'
        BY <1>1, <1>2, <1>4, <1>11, <3>1, SameSession DEF Left, Typed, Resetting
      <3>3. todo # execute_resetwait /\ todo' # execute_resetwait /\ todo' # Tail(execute_resetwait)
        BY <2>2, <3>1, ResetwaitIs, Zenon
      <3>4. Y[3] \notin Sending => screen = Blank
        BY <1>3, <2>0, <2>2, <3>3 DEF ResetDone
      <3>5. ResetDone'
        BY <1>1, <1>2, <2>0, <3>1, <3>3, <3>4, SameSession DEF ResetDone, Resetting
      <3> QED
        BY <1>5, <3>2, <3>5 DEF CalmInv
    <2>3. CASE todo = <<Ask("wait")>>
      <3>0. Head(todo).do = "wait" /\ Tail(todo) = <<>>
        BY <2>3, ResetwaitIs, Zenon
      <3>1. PollReady /\ UNCHANGED <<kcount, basic, line, screen>>
        BY <1>9, <3>0 DEF PollReady, memory, machine
      <3>2. todo' = IF \E i \in 1 .. 6 : screen[i] THEN <<>> ELSE todo
        BY <3>0, <3>1 DEF PollReady
      <3>3. Left'
        BY <1>1, <1>2, <1>11, <3>2, SameSession DEF Left
      <3>4. Typed'
        BY <1>2, <1>4, <3>1, SameSession DEF Typed
      <3>5. todo # execute_resetwait /\ todo # Tail(execute_resetwait)
        BY <2>3, ResetwaitIs, Zenon
      <3>6. Y[3] \notin Sending => (basic \in Busy => screen = Blank)
        BY <1>3, <2>0, <2>3, <3>5 DEF ResetDone
      <3>7. (\E i \in 1 .. 6 : screen[i]) => screen # Blank
        BY DEF Blank
      <3>8. ResetDone'
        <4>1. CASE \E i \in 1 .. 6 : screen[i]
          <5>1. todo' = <<>> /\ (Y[3] \notin Sending => basic' \notin Busy)
            BY <3>1, <3>2, <3>6, <3>7, <4>1
          <5>2. todo' # execute_resetwait /\ todo' # Tail(execute_resetwait) /\ todo' # <<Ask("wait")>>
            BY <5>1, ResetwaitIs, Zenon
          <5> QED
            BY <1>1, <1>2, <2>0, <5>1, <5>2, SameSession DEF ResetDone
        <4>2. CASE ~\E i \in 1 .. 6 : screen[i]
          BY <1>1, <1>2, <1>3, <3>1, <3>2, <4>2, SameSession DEF ResetDone
        <4> QED
          BY <4>1, <4>2
      <3> QED
        BY <1>5, <3>3, <3>4, <3>8 DEF CalmInv
    <2> QED
      BY <1>11, <2>1, <2>2, <2>3 DEF Resetting
  <1>12. todo # <<Ask("fail")>>
    <2>1. Head(todo).do # "fail"
      BY <1>9
    <2> QED
      BY <2>1, ResetwaitIs, Zenon
  <1> QED
    BY <1>1, <1>3, <1>4, <1>10, <1>11, <1>12 DEF Left

\* A request to write the program loads it.
LEMMA LoadsIt ==
  ASSUME Calm, jobs \in Sessions, jobs' = jobs, PokeRam,
         \/ Head(todo) = WriteRam(ThePrg.load, Fits(ThePrg.body, ThePrg.load))
         \/ Head(todo) = WriteRam(ThePrg.load, ThePrg.body)
  PROVE  Loaded'
  <1> DEFINE load == ThePrg.load
             body == ThePrg.body
             fits == Fits(body, load)
             n == IF Len(body) <= RamSize - load THEN Len(body) ELSE RamSize - load
  <1>1. load \in Ram /\ body \in Seq(Bytes)
    BY YIs
  <1>2. RamSize \in 1 .. 100 /\ Ram = 0 .. RamSize - 1
    BY RamAssumption DEF Ram
  <1>3. Len(body) \in Nat /\ load \in Nat /\ load < RamSize
    BY <1>1, <1>2
  <1>4. n \in 0 .. Len(body) /\ load + n <= RamSize
    BY <1>2, <1>3
  <1>5. fits = SubSeq(body, 1, n)
    BY DEF Fits
  <1> HIDE DEF n
  <1>6. fits \in Seq(Bytes) /\ Len(fits) = n /\ \A i \in 1 .. n : fits[i] = body[i]
    BY <1>1, <1>3, <1>4, <1>5
  <1> HIDE DEF fits, load, body
  <1>7. DOMAIN fits = 1 .. n
    BY <1>6
  <1>8. PICK d \in {fits, body} : Head(todo) = WriteRam(load, d)
    BY DEF fits, load, body
  <1>9. Len(d) \in Nat /\ n <= Len(d) /\ \A i \in 1 .. n : d[i] = body[i]
    BY <1>3, <1>4, <1>6, <1>8
  <1>10. ram' = [a \in Ram |-> IF a >= load /\ a < load + Len(d) THEN d[a - load + 1] ELSE ram[a]]
    BY <1>8 DEF PokeRam, WriteRam
  <1>11. ASSUME NEW i \in 1 .. n PROVE ram'[load + i - 1] = body[i]
    <2>1. load + i - 1 \in Ram /\ load + i - 1 >= load /\ load + i - 1 < load + Len(d)
      BY <1>2, <1>3, <1>4, <1>9
    <2>2. ram'[load + i - 1] = d[(load + i - 1) - load + 1]
      BY <1>10, <2>1
    <2>3. (load + i - 1) - load + 1 = i
      BY <1>3, <1>4
    <2> QED
      BY <1>9, <2>2, <2>3
  <1> QED
    BY <1>7, <1>11, SameSession DEF Loaded, fits, load, body

\* The requests of the operation that types.
LEMMA CalmTypes ==
  ASSUME StartInv, Calm, Pokes, upc' = upc, ~Ahead
  PROVE  CalmInv'
  <1>1. UNCHANGED <<jobs, turn, opts, tool, sent>> /\ todo # <<>>
    BY DEF Pokes, PokeRam, PokePointer, PokeCount, PokeKeys, PokeScreen, Reset, PollReady, Doing, history
  <1>2. (Ahead <=> Ahead') /\ (Reached <=> Reached') /\ At' = At
    BY <1>1, SamePlace
  <1>3. Left /\ Prepared /\ Typed /\ Sent /\ ResetDone /\ jobs \in Sessions
    BY DEF StartInv, AtWork, CalmInv
  <1>4. /\ Pokes => Head(todo).do \in {"ram", "ptr", "count", "keys", "blank", "reset", "wait"}
        /\ Head(todo).do = "ram" => PokeRam
        /\ Head(todo).do = "ptr" => PokePointer
        /\ Head(todo).do = "count" => PokeCount
        /\ Head(todo).do = "keys" => PokeKeys
    BY DEF Pokes, PokeRam, PokePointer, PokeCount, PokeKeys, PokeScreen, Reset, PollReady, Doing
  <1>5. todo # <<Ask("fail")>>
    <2>1. Head(todo).do # "fail"
      BY <1>4
    <2> QED
      BY <2>1, ResetwaitIs, Zenon
  <1>6. Reached /\ Rest(todo, TheRequests) /\ turn = Y[1]
    BY <1>1, <1>3, <1>5 DEF Left, Reached
  <1> DEFINE n == Len(todo)
             all == Len(TheRequests)
  <1>7. /\ Keys \in {4, 5} /\ TypesIt(TheRequests)
        /\ Len(TheRequests) = IF Y[3] = "x" THEN 8 ELSE IF Y[3] \in Sending THEN 4 ELSE 3
    BY <1>3, TheRequestsAre
  <1>8. all \in {3, 4, 8}
    BY <1>7
  <1>9. /\ n \in 1 .. all /\ Len(Tail(todo)) = n - 1 /\ Head(todo) = TheRequests[all - n + 1]
        /\ Tail(todo) # <<>> => Rest(Tail(todo), TheRequests)
        /\ Tail(todo) = <<>> <=> n = 1
    BY <1>6, <1>8, RestStep
  <1>10. /\ n = 1 => Head(todo) = WriteCount(Keys)
         /\ n = 2 => /\ Head(todo).do = "keys" /\ Len(Head(todo).data) \in {4, 8}
                     /\ Keys <= Len(Head(todo).data)
                     /\ \A i \in 1 .. Keys : Head(todo).data[i] = Key(i)
         /\ n = 3 => Head(todo) = WriteCount(0)
    <2>1. CASE n = 1
      <3>1. all - n + 1 = all
        BY <1>8, <2>1
      <3> QED
        BY <1>7, <1>9, <2>1, <3>1 DEF TypesIt
    <2>2. CASE n = 2
      <3>1. all - n + 1 = all - 1
        BY <1>8, <2>2
      <3> QED
        BY <1>7, <1>9, <2>2, <3>1 DEF TypesIt
    <2>3. CASE n = 3
      <3>1. all - n + 1 = all - 2
        BY <1>8, <2>3
      <3> QED
        BY <1>7, <1>9, <2>3, <3>1 DEF TypesIt
    <2> QED
      BY <2>1, <2>2, <2>3
  <1>11. kcount = 0 /\ line = <<>> /\ basic \notin Busy
         /\ (n = 1 => \A i \in 1 .. Keys : kbuf[i] = Key(i))
         /\ (HasPrg => sent = ThePrg /\ (n < all => Loaded))
         /\ (Y[3] = "x" => /\ n <= 6 => ptrs["2d"] = TheEnd
                           /\ n <= 5 => ptrs["2f"] = TheEnd
                           /\ n <= 4 => ptrs["31"] = TheEnd
                           /\ n <= 3 => ptrs["ae"] = TheEnd)
    BY <1>1, <1>3, <1>6 DEF Prepared, Typed
  <1> HIDE DEF n, all
  <1>12. todo' = Tail(todo) => Left'
    <2> SUFFICES ASSUME todo' = Tail(todo), todo' # <<>> PROVE Left'
      BY DEF Left
    <2>1. Rest(todo', TheRequests)
      BY <1>9, Zenon
    <2>3. Reached' /\ Rest(todo', TheRequests')
      BY <1>1, <1>2, <1>6, <2>1, SameSession
    <2> QED
      BY <2>3 DEF Left
  <1>13. Sent'
    BY <1>1, <1>3, SameSession DEF Sent
  <1>14. ResetDone'
    BY <1>1, <1>2, <1>6, YIs, <1>3, SameSession DEF ResetDone
  <1>15. kcount' = 0 /\ line' = line => Typed'
    BY <1>11 DEF Typed
  <1>16. ASSUME todo' = Tail(todo), kcount' = 0, basic' = basic,
                n = 2 => \A i \in 1 .. Keys : kbuf'[i] = Key(i),
                HasPrg => Loaded' \/ n = 1,
                Y[3] = "x" => /\ n <= 7 => ptrs'["2d"] = TheEnd
                              /\ n <= 6 => ptrs'["2f"] = TheEnd
                              /\ n <= 5 => ptrs'["31"] = TheEnd
                              /\ n <= 4 => ptrs'["ae"] = TheEnd
         PROVE  Prepared'
    <2>1. Len(todo') = n - 1 /\ n \in Nat /\ (todo' = <<>> => n = 1)
      BY <1>8, <1>9, <1>16
    <2> QED
      BY <1>1, <1>2, <1>11, <1>16, <2>1, SameSession DEF Prepared
  <1>17. CASE n = 1
    <2>0. PokeCount /\ Head(todo).data = Keys /\ Tail(todo) = <<>>
      BY <1>4, <1>9, <1>10, <1>17 DEF WriteCount
    <2>1. PokeCount /\ kcount' = Keys /\ todo' = <<>> /\ UNCHANGED <<ram, ptrs, kbuf, basic, line>>
      BY <2>0 DEF PokeCount, machine
    <2>2. Loaded' = Loaded
      BY <1>1, <2>1, SameSession DEF Loaded
    <2>3. HasPrg => n < all
      BY <1>7, <1>17, YIs, <1>3 DEF HasPrg, all, Sending
    <2>4. Y[3] = "x" => \A p \in Pointers : ptrs[p] = TheEnd
      BY <1>11, <1>17 DEF Pointers
    <2>5. kcount' \in 1 .. Keys /\ kcount' # 0
      BY <1>7, <2>1
    <2>6. \E s \in 1 .. Keys - kcount' + 1 : line' = SubSeq(TypedLine, s, Keys - kcount')
      <3>1. Keys - kcount' = 0 /\ 1 \in 1 .. Keys - kcount' + 1
        BY <1>7, <2>1
      <3>2. SubSeq(TypedLine, 1, 0) = <<>>
        BY <1>3, KeysAre
      <3> QED
        BY <1>11, <2>1, <3>1, <3>2
    <2>7. \A i \in 1 .. kcount' : kbuf'[i] = Key(Keys - kcount' + i)
      <3>1. \A i \in 1 .. Keys : Keys - Keys + i = i
        BY <1>7
      <3> QED
        BY <1>11, <1>17, <2>1, <3>1
    <2>8. Typed'
      BY <1>1, <1>2, <1>11, <2>1, <2>2, <2>3, <2>4, <2>5, <2>6, <2>7, SameSession DEF Typed
    <2>9. Left' /\ Prepared'
      BY <2>1 DEF Left, Prepared
    <2> QED
      BY <1>13, <1>14, <2>8, <2>9 DEF CalmInv
  <1>18. CASE n = 2
    <2>1. PokeKeys /\ todo' = Tail(todo) /\ UNCHANGED <<ram, ptrs, kcount, basic, line>>
      BY <1>4, <1>10, <1>18 DEF PokeKeys, machine
    <2>2. \A i \in 1 .. Keys : kbuf'[i] = Key(i)
      BY <1>7, <1>10, <1>18, <2>1, SMTT(60) DEF PokeKeys
    <2>3. Loaded' = Loaded
      BY <1>1, <2>1, SameSession DEF Loaded
    <2>4. HasPrg => n < all
      BY <1>7, <1>18, YIs, <1>3 DEF HasPrg, all, Sending
    <2>5. Prepared'
      BY <1>11, <1>16, <1>18, <2>1, <2>2, <2>3, <2>4
    <2> QED
      BY <1>11, <1>12, <1>13, <1>14, <1>15, <2>1, <2>5 DEF CalmInv
  <1>19. CASE n = 3
    <2>1. PokeCount /\ kcount' = 0 /\ todo' = Tail(todo) /\ UNCHANGED <<ram, ptrs, basic, line>>
      BY <1>4, <1>10, <1>19 DEF PokeCount, WriteCount, machine
    <2>3. Loaded' = Loaded
      BY <1>1, <2>1, SameSession DEF Loaded
    <2>4. HasPrg => n < all
      BY <1>7, <1>19, YIs, <1>3 DEF HasPrg, all, Sending
    <2>5. Prepared'
      BY <1>11, <1>16, <1>19, <2>1, <2>3, <2>4
    <2> QED
      BY <1>11, <1>12, <1>13, <1>14, <1>15, <2>1, <2>5 DEF CalmInv
  <1>20. CASE n \in 4 .. 7 /\ Y[3] = "x"
    <2>1. /\ n = 7 => Head(todo) = WritePtr("2d", TheEnd)
          /\ n = 6 => Head(todo) = WritePtr("2f", TheEnd)
          /\ n = 5 => Head(todo) = WritePtr("31", TheEnd)
          /\ n = 4 => Head(todo) = WritePtr("ae", TheEnd)
      <3>1. all = 8
        BY <1>7, <1>20 DEF all
      <3> QED
        BY <1>3, <1>9, <1>20, <3>1, TheRequestsAre
    <2>2. Head(todo).do = "ptr" /\ Head(todo).data = TheEnd
          /\ Head(todo).at = CASE n = 7 -> "2d" [] n = 6 -> "2f" [] n = 5 -> "31" [] n = 4 -> "ae"
      BY <1>20, <2>1 DEF WritePtr
    <2>3. PokePointer /\ todo' = Tail(todo) /\ UNCHANGED <<ram, kcount, kbuf, basic, line>>
          /\ ptrs' = [ptrs EXCEPT ![Head(todo).at] = TheEnd]
      BY <1>4, <2>2 DEF PokePointer, machine
    <2>4. DOMAIN ptrs = Pointers
      BY DEF StartInv, AtWork
    <2>5. /\ n <= 7 => ptrs'["2d"] = TheEnd
          /\ n <= 6 => ptrs'["2f"] = TheEnd
          /\ n <= 5 => ptrs'["31"] = TheEnd
          /\ n <= 4 => ptrs'["ae"] = TheEnd
      BY <1>11, <1>20, <2>2, <2>3, <2>4 DEF Pointers
    <2>6. Loaded' = Loaded
      BY <1>1, <2>3, SameSession DEF Loaded
    <2>7. n < all
      BY <1>7, <1>20 DEF all
    <2>8. Prepared'
      BY <1>11, <1>16, <1>20, <2>3, <2>5, <2>6, <2>7
    <2> QED
      BY <1>11, <1>12, <1>13, <1>14, <1>15, <2>3, <2>8 DEF CalmInv
  <1>21. CASE n = all /\ n > 3
    <2>1. \/ Head(todo) = WriteRam(ThePrg.load, Fits(ThePrg.body, ThePrg.load))
          \/ Head(todo) = WriteRam(ThePrg.load, ThePrg.body)
      <3>1. all - n + 1 = 1
        BY <1>8, <1>21
      <3>2. Y[3] = "x" \/ Y[3] \in Sending
        BY <1>7, <1>21 DEF all
      <3> QED
        BY <1>3, <1>9, <3>1, <3>2, TheRequestsAre
    <2>2. PokeRam /\ todo' = Tail(todo) /\ UNCHANGED <<ptrs, kcount, kbuf, basic, line>>
      BY <1>4, <2>1 DEF PokeRam, WriteRam, machine
    <2>3. Loaded'
      BY <1>1, <1>3, <2>1, <2>2, LoadsIt
    <2>4. Y[3] = "x" => n = 8
      BY <1>7, <1>21 DEF all
    <2>5. Prepared'
      BY <1>11, <1>16, <1>21, <2>2, <2>3, <2>4
    <2> QED
      BY <1>11, <1>12, <1>13, <1>14, <1>15, <2>2, <2>5 DEF CalmInv
  <1>22. n = 1 \/ n = 2 \/ n = 3 \/ (n \in 4 .. 7 /\ Y[3] = "x") \/ (n = all /\ n > 3)
    <2>1. n \in 1 .. all
      BY <1>9
    <2>2. CASE Y[3] = "x"
      <3>1. all = 8
        BY <1>7, <2>2 DEF all
      <3> QED
        BY <2>1, <2>2, <3>1
    <2>3. CASE Y[3] # "x"
      <3>1. all \in {3, 4}
        BY <1>7, <2>3 DEF all
      <3> QED
        BY <2>1, <3>1
    <2> QED
      BY <2>2, <2>3
  <1> QED
    BY <1>17, <1>18, <1>19, <1>20, <1>21, <1>22

\* The option that types comes when nothing is counted and the C64 is not in its reset.
LEMMA CalmNextOption ==
  ASSUME StartInv, Calm, NextOption, upc' = upc
  PROVE  CalmInv'
  <1> DEFINE o == Head(opts)
             i == At + 1
  <1>1. /\ UNCHANGED <<jobs, turn, tool, ram, ptrs, kcount, kbuf, screen, basic, line>>
        /\ tool = "codenet" /\ todo = <<>> /\ opts # <<>>
        /\ todo' = Requests(o) /\ opts' = Tail(opts)
        /\ sent' = IF o.op = "x" THEN o.file ELSE sent
    BY DEF NextOption, memory, machine
  <1>2. jobs \in Sessions /\ turn \in DOMAIN jobs /\ turn \in Nat /\ Cmd = jobs[turn]
        /\ Cmd.prog = "chcodenet" /\ IsSeq(opts) /\ Len(opts) <= Len(Cmd.opts)
        /\ \A m \in 1 .. Len(opts) : opts[m] = Cmd.opts[At + m]
    BY <1>1 DEF StartInv, AtWork, Cmd
  <1>3. IsSeq(Cmd.opts) /\ \A m \in DOMAIN Cmd.opts : Cmd.opts[m].op \in Options
    BY <1>2, JobsAre
  <1>4. Len(Cmd.opts) \in Nat /\ Len(opts) \in Nat /\ Len(opts) > 0
        /\ DOMAIN Cmd.opts = 1 .. Len(Cmd.opts)
    BY <1>1, <1>2, <1>3, IsSeqIs
  <1>5. o = opts[1] /\ Len(opts') = Len(opts) - 1
    BY <1>1, <1>2, TailIs
  <1>6. At \in Nat /\ At' = i /\ i \in DOMAIN Cmd.opts /\ o = Cmd.opts[i]
    <2>1. Cmd' = Cmd
      BY <1>1 DEF Cmd
    <2> QED
      BY <1>2, <1>4, <1>5, <2>1 DEF At
  <1> HIDE DEF o, i
  <1>7. /\ o.op \in {"x", "r", "e"} => Y = <<turn, i, o.op>>
        /\ o.op \in {"w", "wa", "wb", "f", "resetwait"} => turn < Y[1] \/ (turn = Y[1] /\ i < Y[2])
        /\ o.op # "reset" /\ o.op \in Options
        /\ o.op = "resetwait" /\ Y[3] \notin Sending =>
              turn = Y[1] /\ Resets = {<<turn, i, "resetwait">>}
    BY <1>2, <1>3, <1>6, OpsAre
  <1>8. /\ Y[1] \in Nat /\ Y[2] \in Nat \ {0} /\ Y[3] \in {"x", "r", "e"} \cup Sending
        /\ Y[3] \in Sending => YJob.prog = "chusb"
        /\ Y[3] \notin Sending => YOpt.op = Y[3]
    BY <1>2, YIs
  <1>9. /\ Ahead <=> turn < Y[1] \/ (turn = Y[1] /\ At < Y[2])
        /\ Ahead' <=> turn < Y[1] \/ (turn = Y[1] /\ i < Y[2])
        /\ Reached' <=> turn = Y[1] /\ i = Y[2]
    BY <1>1, <1>6, SameSession DEF Ahead, Reached
  <1>10. Ahead' \/ Reached' => Ahead
    BY <1>6, <1>8, <1>9 DEF i
  <1>11. Reached' => Y[3] \notin Sending /\ o = YOpt /\ o.op = Y[3]
    BY <1>2, <1>6, <1>8, <1>9 DEF YJob, YOpt
  <1>12. Left /\ Prepared /\ Typed /\ Sent /\ ResetDone
    BY DEF StartInv, CalmInv
  <1>13. todo \notin Resetting
    BY <1>1, ResetwaitIs, Zenon DEF Resetting
  <1>14. ASSUME Reached' PROVE todo' = TheRequests
    BY <1>1, <1>2, <1>11, <1>14, TheRequestsOfY
  <1>15. ASSUME ~Reached'
         PROVE  \/ todo' = <<>> \/ todo' = <<Ask("fail")>>
                \/ Ahead' /\ \E t : todo' = <<t>> /\ t.do = "ram"
                \/ Ahead' /\ todo' = execute_resetwait /\ o.op = "resetwait"
    <2>1. o.op \notin {"x", "r", "e"}
      <3>1. o.op \in {"x", "r", "e"} => Y[1] = turn /\ Y[2] = i
        BY <1>7
      <3> QED
        BY <1>9, <1>15, <3>1
    <2>2. CASE o.op \in {"w", "wa", "wb", "f"}
      <3>1. \E a, d : todo' = <<WriteRam(a, d)>>
        BY <1>1, <2>2 DEF Requests
      <3>2. \A a, d : WriteRam(a, d).do = "ram"
        BY DEF WriteRam
      <3> QED
        BY <1>7, <1>9, <2>2, <3>1, <3>2
    <2>3. CASE o.op = "resetwait"
      BY <1>1, <1>7, <1>9, <2>3 DEF Requests
    <2>4. CASE o.op \in {"vic20", "vic20-8k", "ignored"}
      BY <1>1, <2>4 DEF Requests
    <2>5. CASE o.op = "usage"
      BY <1>1, <2>5 DEF Requests
    <2> QED
      BY <1>7, <2>1, <2>2, <2>3, <2>4, <2>5 DEF Options
  <1>16. o.op = "resetwait" /\ Y[3] \notin Sending => \A r \in Resets : r[2] = i
    BY <1>7
  <1>17. Left'
    <2>1. CASE Reached'
      <3>1. IsSeq(TheRequests) /\ TheRequests # <<>> /\ Len(TheRequests) \in Nat
        BY <1>2, TheRequestsAreSeq, IsSeqIs
      <3>2. \A m \in 1 .. Len(TheRequests) : Len(TheRequests) - Len(TheRequests) + m = m
        BY <3>1
      <3>3. Rest(TheRequests, TheRequests)
        BY <3>1, <3>2 DEF Rest
      <3>4. Rest(todo', TheRequests')
        BY <1>1, <1>14, <2>1, <3>3, SameSession
      <3> QED
        BY <2>1, <3>4 DEF Left
    <2>2. CASE todo' = <<>> \/ todo' = <<Ask("fail")>>
      BY <2>2 DEF Left
    <2>3. CASE Ahead' /\ \E t : todo' = <<t>> /\ t.do = "ram"
      BY <2>3 DEF Left
    <2>4. CASE Ahead' /\ todo' = execute_resetwait /\ o.op = "resetwait"
      <3>1. Y[3] \in Sending \/ (turn = Y[1] /\ \A r \in Resets : r[2] <= i)
        <4>1. i <= i
          BY <1>6 DEF i
        <4> QED
          BY <1>16, <1>7, <2>4, <4>1
      <3> QED
        BY <1>1, <1>6, <2>4, <3>1, SameSession DEF Left, Resetting
    <2> QED
      BY <1>15, <2>1, <2>2, <2>3, <2>4
  <1>18. Prepared'
    <2> SUFFICES ASSUME Reached' PROVE Prepared'
      BY DEF Prepared
    <2>1. Y[3] \notin Sending /\ o.op = Y[3] /\ o = YOpt /\ Ahead /\ turn = Y[1]
      BY <1>9, <1>10, <1>11
    <2>2. kcount = 0 /\ basic \notin Busy
      BY <1>12, <1>13, <2>1 DEF Typed, ResetDone
    <2>3. HasPrg => Y[3] = "x" /\ sent' = ThePrg
      BY <1>1, <2>1 DEF HasPrg, ThePrg
    <2>4. todo' = TheRequests /\ Len(TheRequests) = IF Y[3] = "x" THEN 8 ELSE 3
      BY <1>2, <1>14, <2>1, TheRequestsAre
    <2>5. Len(todo') # 1 /\ ~(Len(todo') < Len(TheRequests))
          /\ (Y[3] = "x" => ~(Len(todo') <= 6) /\ ~(Len(todo') <= 5) /\ ~(Len(todo') <= 4)
                            /\ ~(Len(todo') <= 3))
      <3>1. Len(todo') \in {3, 8} /\ (Y[3] = "x" => Len(todo') = 8)
        BY <2>4
      <3> QED
        BY <2>4, <3>1
    <2> QED
      BY <1>1, <2>2, <2>3, <2>4, <2>5, SameSession DEF Prepared
  <1>19. Typed'
    <2>1. kcount # 0 => ~Ahead /\ ~Ahead' /\ ~Reached'
      BY <1>10, <1>12 DEF Typed
    <2>2. kcount # 0 => sent' = sent
      <3>1. o.op = "x" => Y[1] = turn /\ Y[2] = i
        BY <1>7
      <3> QED
        BY <1>1, <1>9, <2>1, <3>1
    <2>3. Loaded' = Loaded
      BY <1>1, SameSession DEF Loaded
    <2> QED
      BY <1>1, <1>10, <1>12, <2>1, <2>2, <2>3, SameSession DEF Typed
  <1>20. Sent'
    <2>1. o.op = "x" => HasPrg
      <3>1. o.op = "x" => Y[3] = "x"
        BY <1>7
      <3> QED
        BY <3>1 DEF HasPrg
    <2> QED
      BY <1>1, <1>12, <2>1, SameSession DEF Sent
  <1>21. ResetDone'
    <2> SUFFICES ASSUME Y[3] \notin Sending PROVE ResetDone'
      BY <1>1, SameSession DEF ResetDone
    <2>1. turn < Y[1] => basic \notin Busy \cup {"ready"}
      BY <1>12 DEF ResetDone
    <2>2. Ahead' /\ turn = Y[1] => basic \notin Busy
      BY <1>10, <1>12, <1>13 DEF ResetDone
    <2>3. Ahead' /\ turn = Y[1] /\ (\E r \in Resets : i < r[2]) => basic \notin Busy \cup {"ready"}
      <3>1. ASSUME NEW r \in Resets, i < r[2], Ahead', turn = Y[1] PROVE basic \notin Busy \cup {"ready"}
        <4>1. r[2] \in Int
          <5>1. r \in Ops
            BY <3>1 DEF Resets
          <5>2. PICK j \in DOMAIN jobs :
                  r \in IF jobs[j].prog = "chusb" THEN {<<j, 1, jobs[j].cmd>>}
                        ELSE {<<j, m, jobs[j].opts[m].op>> : m \in DOMAIN jobs[j].opts}
            BY <5>1 DEF Ops
          <5>3. r[2] = 1 \/ (jobs[j].prog # "chusb" /\ r[2] \in DOMAIN jobs[j].opts)
            BY <5>2
          <5> QED
            BY <1>2, <5>3, JobsAre, IsSeqIs
        <4>2. At < r[2]
          BY <1>6, <3>1, <4>1 DEF i
        <4> QED
          BY <1>10, <1>12, <3>1, <4>2 DEF ResetDone
      <3> QED
        BY <3>1
    <2>4. Ahead' /\ turn = Y[1] /\ todo' = execute_resetwait => basic \notin Busy \cup {"ready"}
      <3>1. ASSUME Ahead', turn = Y[1], todo' = execute_resetwait PROVE basic \notin Busy \cup {"ready"}
        <4>1. ~Reached'
          BY <1>8, <1>9, <1>6, <3>1
        <4>2. o.op = "resetwait"
          <5>1. /\ todo' # <<>> /\ todo' # <<Ask("fail")>>
                /\ \A t : todo' = <<t>> => t.do # "ram"
            BY <3>1, ResetwaitIs, Zenon
          <5> QED
            BY <1>15, <4>1, <5>1
        <4>3. <<turn, i, "resetwait">> \in Resets
          BY <1>7, <4>2
        <4>4. <<turn, i, "resetwait">>[2] = i /\ At < i
          BY <1>6 DEF i
        <4> QED
          BY <1>10, <1>12, <3>1, <4>3, <4>4 DEF ResetDone
      <3> QED
        BY <3>1
    <2>5. Ahead' => todo' # Tail(execute_resetwait) /\ todo' # <<Ask("wait")>>
      <3>1. ASSUME Ahead' PROVE ~Reached'
        BY <1>6, <1>8, <1>9, <3>1
      <3> QED
        BY <1>15, <3>1, ResetwaitIs, Zenon
    <2> QED
      BY <1>1, <1>6, <2>1, <2>2, <2>3, <2>4, <2>5, SameSession DEF ResetDone
  <1> QED
    BY <1>17, <1>18, <1>19, <1>20, <1>21 DEF CalmInv

-----------------------------------------------------------------------------
LEMMA InitStart == Init => StartInv
  <1> SUFFICES ASSUME Init, Calm PROVE CalmInv
    BY InitAtWork DEF StartInv, CalmInv
  <1>1. /\ jobs \in Sessions /\ turn = 0 /\ todo = <<>> /\ tool = "none" /\ kcount = 0
        /\ basic \in {"direct", "run"} /\ line = <<>> /\ sent = NoPrg
    BY Zenon DEF Init, DirectInit
  <1>2. ~Reached
    BY <1>1 DEF Reached
  <1>3. Left /\ Prepared /\ Typed /\ Sent
    BY <1>1, <1>2 DEF Left, Prepared, Typed, Sent
  <1>4. ResetDone
    <2>1. todo # execute_resetwait /\ todo # Tail(execute_resetwait) /\ todo # <<Ask("wait")>>
      BY <1>1, ResetwaitIs, Zenon
    <2> QED
      BY <1>1, <2>1 DEF ResetDone, Busy
  <1> QED
    BY <1>3, <1>4 DEF CalmInv

LEMMA CalmStep ==
  ASSUME StartInv, Calm, Next
  PROVE  CalmInv'
  <1>1. CASE Quiet
    BY <1>1, CalmQuiet DEF Quiet
  <1>2. CASE Leaves
    <2>1. todo = <<>>
      BY <1>2 DEF Leaves, StartInv, AtWork
    <2> QED
      BY <1>2, <2>1, CalmEnds DEF Leaves
  <1>3. CASE Dma
    BY <1>3, CalmDma
  <1>4. CASE CodenetNext /\ upc' = upc
    <2>1. CASE StartCodenet
      BY <2>1, CalmStartCodenet
    <2>2. CASE NextOption
      BY <1>4, <2>2, CalmNextOption
    <2>3. CASE CodenetExits
      BY <2>3, CalmEnds DEF CodenetExits
    <2>4. CASE RequestFails
      BY <2>4, CalmEnds DEF RequestFails
    <2>5. CASE Pokes
      BY <1>4, <2>5, CalmAhead, CalmTypes
    <2> QED
      BY <1>4, <2>1, <2>2, <2>3, <2>4, <2>5 DEF CodenetNext, Pokes
  <1>5. CASE BasicNext /\ upc' = upc
    <2>1. CASE ProgramEnds
      BY <1>5, <2>1, CalmServer DEF ProgramEnds, Busy
    <2> QED
      BY <1>5, <2>1, CalmResets, CalmTakeKey, CalmProgramTakesKey DEF BasicNext, SystemNext
  <1>6. ASSUME NEW there \in BOOLEAN, StartChusb(there) PROVE CalmInv'
    BY <1>6, CalmStartChusb
  <1>7. CASE ServerStarts
    BY <1>7, CalmServer DEF ServerStarts, Busy
  <1>8. CASE UserContinues
    BY <1>8, CalmServer DEF UserContinues, Busy
  <1>9. CASE UserResets
    BY <1>9, CalmUserResets
  <1> QED
    BY <1>1, <1>2, <1>3, <1>4, <1>5, <1>6, <1>7, <1>8, <1>9, StepKinds DEF StartInv

\* Of what a session is only its jobs tell.
LEMMA StartStep == StartInv /\ [Next]_vars => StartInv'
  <1> SUFFICES ASSUME StartInv, [Next]_vars PROVE StartInv'
    OBVIOUS
  <1>1. AtWork' /\ InItems'
    BY AtWorkStep DEF StartInv
  <1>2. jobs' = jobs
    <2>1. CASE UNCHANGED vars
      BY <2>1 DEF vars, directVars, toolVars
    <2>2. CASE Next
      <3>1. Quiet \/ Leaves \/ Dma => jobs' = jobs
        BY DEF Quiet, Leaves, Dma, directVars, toolVars
      <3>2. CodenetNext => jobs' = jobs
        BY DEF CodenetNext, StartCodenet, Starts, NextOption, CodenetExits, RequestFails, PokeRam,
               PokePointer, PokeCount, PokeKeys, PokeScreen, Reset, PollReady, Doing
      <3>3. BasicNext => jobs' = jobs
        BY DEF BasicNext, SystemNext, KernalStarts, BasicNew, PrintReady, TakeKey, ProgramEnds,
               ProgramTakesKey, toolVars
      <3>4. \A there \in BOOLEAN : StartChusb(there) => jobs' = jobs
        BY DEF StartChusb, Starts
      <3>5. ServerStarts \/ UserContinues \/ UserResets => jobs' = jobs
        BY DEF ServerStarts, UserContinues, UserResets, toolVars
      <3> QED
        BY <2>2, <3>1, <3>2, <3>3, <3>4, <3>5, StepKinds DEF StartInv
    <2> QED
      BY <2>1, <2>2
  <1>3. CASE Calm
    <2> SUFFICES CalmInv'
      BY <1>1 DEF StartInv
    <2>1. CASE UNCHANGED vars
      BY <1>3, <2>1, CalmQuiet DEF vars, usbVars
    <2>2. CASE Next
      BY <1>3, <2>2, CalmStep
    <2> QED
      BY <2>1, <2>2
  <1>4. CASE ~Calm
    BY <1>1, <1>2, <1>4, SameSession DEF StartInv, CalmInv
  <1> QED
    BY <1>3, <1>4

\* Only the return of a line makes the C64 leave direct mode for a program.
LEMMA OnlyTakeKeyRuns ==
  ASSUME StartInv, Next, basic = "direct", basic' \in {"run", "sys"}
  PROVE  TakeKey /\ upc' = upc /\ kbuf[1] = "return"
  <1>1. ~(Quiet \/ Leaves \/ Dma)
    BY DEF Quiet, Leaves, Dma, directVars, machine
  <1>2. ~CodenetNext
    BY DEF CodenetNext, StartCodenet, NextOption, CodenetExits, RequestFails, PokeRam,
           PokePointer, PokeCount, PokeKeys, PokeScreen, Reset, PollReady, machine
  <1>3. \A there \in BOOLEAN : ~StartChusb(there)
    BY DEF StartChusb, machine
  <1>4. ~(ServerStarts \/ UserContinues \/ UserResets)
    BY DEF ServerStarts, UserContinues, UserResets
  <1>5. BasicNext => TakeKey
    BY DEF BasicNext, SystemNext, KernalStarts, BasicNew, PrintReady, ProgramEnds, ProgramTakesKey,
           machine
  <1>6. TakeKey => kbuf[1] = "return"
    BY DEF TakeKey
  <1> QED
    BY <1>1, <1>2, <1>3, <1>4, <1>5, <1>6, StepKinds DEF StartInv

(***************************************************************************)
(* In a session that types one line, the C64 starts a program with no      *)
(* other line than the one that was typed, and RUN starts the file that    *)
(* was sent, byte for byte and with its pointers set to its end, in two    *)
(* bytes, however the C64, its reset, chcodenet and chusb take their steps *)
(* (chcodenet.c:95-206, chusb.c:90).  The file when no program ran before, *)
(* or a reset has ended it: what such a program does to memory is not      *)
(* modelled.                                                               *)
(***************************************************************************)
THEOREM StartsWhatWasSent == Spec => RunsWhatWasSent
  <1> DEFINE Right ==
        basic = "direct" /\ basic' \in {"run", "sys"} /\ Calm =>
          /\ entered' = TypedLine
          /\ sent # NoPrg /\ ~earlier =>
               /\ \A i \in DOMAIN Fits(sent.body, sent.load) : ram[sent.load + i - 1] = sent.body[i]
               /\ (\E o \in Typing : o[3] = "x") => \A p \in Pointers :
                     ptrs[p] = TwoBytes(sent.load + Len(Fits(sent.body, sent.load)))
  <1>1. StartInv /\ [Next]_vars => [Right]_vars
    <2> SUFFICES ASSUME StartInv, Next, basic = "direct", basic' \in {"run", "sys"}, Calm
                 PROVE  Right
      OBVIOUS
    <2>1. TakeKey /\ upc' = upc /\ kbuf[1] = "return"
      BY OnlyTakeKeyRuns
    <2>2. /\ entered' = TypedLine
          /\ HasPrg => sent = ThePrg /\ Loaded
          /\ Y[3] = "x" => \A p \in Pointers : ptrs[p] = TheEnd
      BY <2>1, TakesTheLine
    <2>3. sent # NoPrg => HasPrg
      BY DEF StartInv, CalmInv, Sent
    <2>4. HasPrg =>
            \A i \in DOMAIN Fits(sent.body, sent.load) : ram[sent.load + i - 1] = sent.body[i]
      BY <2>2 DEF Loaded
    <2>5. (\E o \in Typing : o[3] = "x") => Y[3] = "x"
      BY TheLine DEF StartInv, AtWork
    <2>6. HasPrg /\ Y[3] = "x" =>
            \A p \in Pointers : ptrs[p] = TwoBytes(sent.load + Len(Fits(sent.body, sent.load)))
      BY <2>2 DEF TheTop, TheEnd
    <2> QED
      BY <2>2, <2>3, <2>4, <2>5, <2>6
  <1> HIDE DEF Right
  <1>2. Spec => [][Right]_vars
    BY <1>1, InitStart, StartStep, PTL DEF Spec
  <1> QED
    BY <1>2 DEF RunsWhatWasSent, Right

-----------------------------------------------------------------------------
(***************************************************************************)
(* Geometry: where the sectors of a disk are in its image.  What a recursion*)
(* adds up is shown with the least place that would break it.              *)
(***************************************************************************)
\* A set of numbers has a least one.
LEMMA Least ==
  ASSUME NEW T \in SUBSET Nat, T # {}
  PROVE  \E n \in T : \A j \in 0 .. n - 1 : j \notin T
  <1>1. PICK n \in T : \A j \in T : ~ (<<j, n>> \in OpToRel(<, Nat))
    BY NatLessThanWellFounded, WFMin
  <1>2. \A j, m \in Nat : j < m => <<j, m>> \in OpToRel(<, Nat)
    BY DEF OpToRel
  <1>3. \A j \in 0 .. n - 1 : j \in Nat /\ n \in Nat /\ j < n
    OBVIOUS
  <1> QED
    BY <1>1, <1>2, <1>3

\* The sectors of the tracks up to t.
Before ==
    CHOOSE f : f = [t \in 0 .. Len(NumSectors) |-> IF t = 0 THEN 0 ELSE f[t - 1] + NumSectors[t]]

LEMMA LinearIs == \A p : Linear(p) = Before[p[1] - 1] + p[2]
  BY DEF Linear, Before

\* The recursion has a solution, up to every track: no track is the first without one.
LEMMA BeforeIs ==
  /\ Before[0] = 0
  /\ \A t \in 1 .. Len(NumSectors) : Before[t] = Before[t - 1] + NumSectors[t]
  <1> DEFINE L == Len(NumSectors)
             Is(f, n) == f = [t \in 0 .. n |-> IF t = 0 THEN 0 ELSE f[t - 1] + NumSectors[t]]
             T == {n \in 0 .. L : ~\E f : Is(f, n)}
  <1>1. L \in Nat
    BY UsbAssumption
  <1>2. T = {}
    <2>1. SUFFICES ASSUME T # {} PROVE FALSE
      OBVIOUS
    <2>2. PICK n \in T : \A j \in 0 .. n - 1 : j \notin T
      <3>1. T \in SUBSET Nat
        BY <1>1
      <3> HIDE DEF T
      <3> QED
        BY <2>1, <3>1, Least
    <2>3. CASE n = 0
      <3>1. Is([t \in 0 .. 0 |-> 0], 0)
        OBVIOUS
      <3> HIDE DEF Is
      <3> QED
        BY <2>3, <3>1
    <2>4. CASE n # 0
      <3>1. n - 1 \in 0 .. L /\ n - 1 \in 0 .. n - 1 /\ n \in Nat
        BY <1>1, <2>4
      <3>2. PICK f : Is(f, n - 1)
        BY <2>2, <3>1
      <3> DEFINE g == [t \in 0 .. n |-> IF t = n THEN f[n - 1] + NumSectors[n] ELSE f[t]]
      <3>3. Is(g, n)
        <4>1. ASSUME NEW t \in 0 .. n
              PROVE  g[t] = IF t = 0 THEN 0 ELSE g[t - 1] + NumSectors[t]
          <5>1. CASE t = n
            BY <2>4, <3>1, <5>1
          <5>2. CASE t # n
            <6>1. t \in 0 .. n - 1 /\ (t # 0 => t - 1 \in 0 .. n /\ t - 1 # n)
              BY <3>1, <5>2
            <6>2. f[t] = IF t = 0 THEN 0 ELSE f[t - 1] + NumSectors[t]
              BY <3>2, <6>1
            <6> QED
              BY <5>2, <6>1, <6>2
          <5> QED
            BY <5>1, <5>2
        <4>2. g = [t \in 0 .. n |-> g[t]]
          OBVIOUS
        <4> HIDE DEF g
        <4> QED
          BY <4>1, <4>2
      <3> HIDE DEF Is, g
      <3> QED
        BY <3>3, <2>2
    <2> QED
      BY <2>3, <2>4
  <1>3. Is(Before, L)
    BY <1>1, <1>2 DEF Before
  <1> HIDE DEF L
  <1>4. \A t \in 0 .. L : Before[t] = IF t = 0 THEN 0 ELSE Before[t - 1] + NumSectors[t]
    BY <1>3
  <1> QED
    BY <1>1, <1>4 DEF L

\* What is told of the geometry: a track has at least one sector.
LEMMA Geometry ==
  /\ Len(NumSectors) \in Nat \ {0}
  /\ \A t \in 1 .. Len(NumSectors) : NumSectors[t] \in Nat \ {0}
  /\ \A p \in TS : /\ p[1] \in 1 .. Len(NumSectors) /\ p[2] \in 0 .. NumSectors[p[1]] - 1
                   /\ p = <<p[1], p[2]>>
  /\ \A t \in 1 .. Len(NumSectors) : \A s \in 0 .. NumSectors[t] - 1 : <<t, s>> \in TS
  /\ EndTS \notin TS
  <1>1. Len(NumSectors) \in Nat \ {0} /\ DOMAIN NumSectors = 1 .. Len(NumSectors)
    BY UsbAssumption
  <1>2. \A t \in 1 .. Len(NumSectors) : NumSectors[t] \in Nat \ {0}
    BY UsbAssumption
  <1>3. \A p : p \in TS <=> \E t \in 1 .. Len(NumSectors) : \E s \in 0 .. NumSectors[t] - 1 : p = <<t, s>>
    BY <1>1 DEF TS
  <1>4. EndTS \notin TS
    BY <1>1, <1>3 DEF EndTS
  <1> QED
    BY <1>1, <1>2, <1>3, <1>4

\* No track begins before the tracks in front of it have ended.
LEMMA BeforeGrows ==
  /\ \A t \in 0 .. Len(NumSectors) : Before[t] \in Nat
  /\ \A t, u \in 0 .. Len(NumSectors) : t <= u => Before[t] <= Before[u]
  <1> DEFINE L == Len(NumSectors)
             Fine(u) == Before[u] \in Nat /\ \A t \in 0 .. u : Before[t] <= Before[u]
             T == {u \in 0 .. L : ~Fine(u)}
  <1>1. L \in Nat
    BY Geometry
  <1>2. T = {}
    <2>1. SUFFICES ASSUME T # {} PROVE FALSE
      OBVIOUS
    <2>2. PICK n \in T : \A j \in 0 .. n - 1 : j \notin T
      <3>1. T \in SUBSET Nat
        BY <1>1
      <3> HIDE DEF T
      <3> QED
        BY <2>1, <3>1, Least
    <2>3. n # 0
      BY BeforeIs
    <2>4. n \in 1 .. L /\ n - 1 \in 0 .. L /\ n - 1 \in 0 .. n - 1
      BY <1>1, <2>3
    <2>5. Fine(n - 1)
      BY <2>2, <2>4
    <2>6. Before[n] = Before[n - 1] + NumSectors[n] /\ NumSectors[n] \in Nat
      BY <2>4, BeforeIs, Geometry
    <2>7. Fine(n)
      <3>1. Before[n] \in Nat /\ Before[n - 1] <= Before[n]
        BY <2>5, <2>6
      <3>2. ASSUME NEW t \in 0 .. n PROVE Before[t] <= Before[n]
        <4>1. CASE t = n
          BY <3>1, <4>1
        <4>2. CASE t # n
          <5>1. t \in 0 .. n - 1
            BY <2>4, <4>2
          <5>2. Before[t] <= Before[n - 1]
            BY <2>5, <5>1
          <5>3. t \in 0 .. L /\ t \in 0 .. n - 1
            BY <2>4, <5>1
          <5>4. Before[t] \in Nat
            BY <2>2, <5>3
          <5> QED
            BY <2>5, <3>1, <5>2, <5>4
        <4> QED
          BY <4>1, <4>2
      <3> QED
        BY <3>1, <3>2
    <2> QED
      BY <2>7
  <1>3. \A u \in 0 .. L : Fine(u)
    BY <1>2
  <1> QED
    BY <1>1, <1>3

\* Different sectors have different places in the image.
LEMMA LinearGrows ==
  /\ \A p \in TS : /\ Linear(p) \in Nat /\ Before[p[1] - 1] <= Linear(p) /\ Linear(p) < Before[p[1]]
                   /\ Linear(p) < Before[Len(NumSectors)]
  /\ \A p, q \in TS : Linear(p) = Linear(q) => p = q
  <1>1. ASSUME NEW p \in TS
        PROVE  /\ Linear(p) \in Nat /\ Before[p[1] - 1] <= Linear(p) /\ Linear(p) < Before[p[1]]
               /\ Linear(p) < Before[Len(NumSectors)]
               /\ p[1] \in 1 .. Len(NumSectors)
    <2>1. /\ p[1] \in 1 .. Len(NumSectors) /\ p[2] \in 0 .. NumSectors[p[1]] - 1
          /\ Len(NumSectors) \in Nat /\ NumSectors[p[1]] \in Nat
      BY Geometry
    <2>2. /\ p[1] - 1 \in 0 .. Len(NumSectors) /\ p[1] \in 0 .. Len(NumSectors)
          /\ Len(NumSectors) \in 0 .. Len(NumSectors) /\ p[1] <= Len(NumSectors)
      BY <2>1
    <2>3. Before[p[1] - 1] \in Nat /\ Before[p[1]] \in Nat /\ Before[Len(NumSectors)] \in Nat
          /\ Before[p[1]] <= Before[Len(NumSectors)]
      BY <2>2, BeforeGrows
    <2>4. Before[p[1]] = Before[p[1] - 1] + NumSectors[p[1]]
      BY <2>1, BeforeIs
    <2> QED
      BY <2>1, <2>3, <2>4, LinearIs, SMTT(60)
  <1>2. ASSUME NEW p \in TS, NEW q \in TS, p[1] < q[1]
        PROVE  Linear(p) < Linear(q)
    <2>1. /\ p[1] \in 1 .. Len(NumSectors) /\ q[1] \in 1 .. Len(NumSectors)
          /\ Len(NumSectors) \in Nat
      BY Geometry
    <2>2. p[1] \in 0 .. Len(NumSectors) /\ q[1] - 1 \in 0 .. Len(NumSectors) /\ p[1] <= q[1] - 1
      BY <1>2, <2>1
    <2>3. Before[p[1]] <= Before[q[1] - 1] /\ Before[p[1]] \in Nat /\ Before[q[1] - 1] \in Nat
      BY <2>2, BeforeGrows
    <2> QED
      BY <1>1, <2>3
  <1>3. ASSUME NEW p \in TS, NEW q \in TS, Linear(p) = Linear(q)
        PROVE  p = q
    <2>1. p[1] \in Nat /\ q[1] \in Nat /\ p[2] \in Int /\ q[2] \in Int /\ p = <<p[1], p[2]>> /\ q = <<q[1], q[2]>>
      BY Geometry
    <2>2. Linear(p) \in Nat /\ Linear(q) \in Nat
      BY <1>1
    <2>3. p[1] = q[1]
      BY <1>2, <1>3, <2>1, <2>2
    <2>4. p[1] - 1 \in 0 .. Len(NumSectors)
      BY <1>1, Geometry
    <2>5. Before[p[1] - 1] \in Nat
      BY <2>4, BeforeGrows
    <2>6. Linear(p) = Before[p[1] - 1] + p[2] /\ Linear(q) = Before[p[1] - 1] + q[2]
      BY <2>3, LinearIs
    <2>7. p[2] = q[2]
      <3>1. \A b, i, j \in Int : b + i = b + j => i = j
        OBVIOUS
      <3>2. Before[p[1] - 1] + p[2] = Before[p[1] - 1] + q[2]
        BY <1>3, <2>6, Zenon
      <3> QED
        BY <2>1, <2>5, <3>1, <3>2
    <2> QED
      BY <2>1, <2>3, <2>7
  <1> QED
    BY <1>1, <1>3

\* The image has a place for every sector.
LEMMA Capacity == \A p \in TS : Linear(p) \in 0 .. Cardinality(TS) - 1
  <1> DEFINE L == Len(NumSectors)
             n == Before[L]
             at == [p \in TS |-> Linear(p) + 1]
  <1>1. L \in Nat \ {0} /\ n \in Nat
    <2>1. L \in Nat \ {0}
      BY Geometry
    <2> QED
      BY <2>1, BeforeGrows
  <1>2. at \in [TS -> 1 .. n]
    BY <1>1, LinearGrows
  <1>3. \A p, q \in TS : at[p] = at[q] => p = q
    BY LinearGrows
  <1>4. \A i \in 1 .. n : \E p \in TS : at[p] = i
    <2> TAKE i \in 1 .. n
    <2> DEFINE T == {t \in 0 .. L : i - 1 < Before[t]}
    <2>1. T \in SUBSET Nat /\ T # {}
      <3>1. L \in 0 .. L /\ i - 1 < Before[L]
        BY <1>1
      <3> QED
        BY <1>1, <3>1
    <2>2. PICK t \in T : \A j \in 0 .. t - 1 : j \notin T
      <3> HIDE DEF T
      <3> QED
        BY <2>1, Least
    <2>3. t # 0
      BY <1>1, BeforeIs
    <2>4. t \in 1 .. L /\ t - 1 \in 0 .. t - 1 /\ t - 1 \in 0 .. L
      BY <1>1, <2>3
    <2>5. Before[t - 1] <= i - 1 /\ i - 1 < Before[t] /\ Before[t - 1] \in Nat /\ Before[t] \in Nat
      <3>1. t - 1 \notin T
        BY <2>2, <2>4
      <3>2. Before[t - 1] \in Nat /\ Before[t] \in Nat
        BY <2>4, BeforeGrows
      <3> QED
        BY <2>2, <2>4, <3>1, <3>2
    <2>6. Before[t] = Before[t - 1] + NumSectors[t] /\ NumSectors[t] \in Nat
      BY <2>4, BeforeIs, Geometry
    <2> DEFINE s == i - 1 - Before[t - 1]
               p == <<t, s>>
    <2>7. s \in 0 .. NumSectors[t] - 1
      BY <2>5, <2>6
    <2>8. p \in TS /\ p[1] = t /\ p[2] = s
      BY <2>4, <2>7, Geometry
    <2>9. Linear(p) = Before[t - 1] + s
      BY <2>8, LinearIs
    <2>10. at[p] = i
      BY <2>5, <2>8, <2>9
    <2> QED
      BY <2>8, <2>10
  <1> HIDE DEF at
  <1>5. at \in Bijection(TS, 1 .. n)
    BY <1>2, <1>3, <1>4 DEF Bijection, Injection, Surjection, IsInjective
  <1>6. ExistsBijection(TS, 1 .. n)
    BY <1>5 DEF ExistsBijection
  <1>7. ExistsBijection(1 .. n, TS)
    BY <1>6, Fun_ExistsBijSymmetric
  <1>8. Cardinality(TS) = n
    BY <1>1, <1>7, FS_CountingElements
  <1> QED
    BY <1>1, <1>8, LinearGrows

(***************************************************************************)
(* Disks and files.  What can have come of a sector, in writing and in     *)
(* reading.                                                                *)
(***************************************************************************)
IsWritten(p) ==
    LET want == Cmd.data[Linear(p)] IN
    /\ glitched = {} => disk[p] = want \/ mark[p] = "E" \/ (~Cmd.verify /\ flaws > 0)
    /\ Cmd.kernal /\ (glitched \subseteq {"block"} \/ glitched \subseteq {"bsum"}) =>
          BlockSum(disk[p]) = BlockSum(want) \/ mark[p] = "E" \/ (~Cmd.verify /\ flaws > 0)

IsRead(p, got) ==
    /\ glitched = {} => got = disk[p] \/ (flaws > 0 /\ got = Flaw)
    /\ Cmd.kernal /\ (glitched \subseteq {"rblock"} \/ glitched \subseteq {"bsum"}) =>
          BlockSum(got) = BlockSum(disk[p]) \/ flaws > 0

\* Where chusb can be with each of its commands.
OfCopy == {"type", "name", "len", "sum", "data", "ack", "endmark", "quit", "directory", "entry",
           "chain", "overrun"}
OfFetch == {"xstatus", "xname", "xbyte", "xmore"}
OfFormat == {"tracks", "fmtack"}
OfTest == {"hello", "probe", "echo"}
OfSectors == {"status", "place", "bsum", "block", "rblock", "mark", "sack"}

OwnPlace ==
    tool = "chusb" =>
        /\ upc \in OfCopy => Cmd.cmd \in {"copy", "dir"}
        /\ upc \in OfFetch => Cmd.cmd = "fetch"
        /\ upc \in OfFormat => Cmd.cmd = "format"
        /\ upc \in OfTest => Cmd.cmd = "test"
        /\ upc \in OfSectors \cup {"mode"} => Cmd.cmd \in {"write", "read"}

\* While the server works for a command, chusb waits for it at this command.
ChusbAt(places) == tool = "chusb" /\ upc \in places

Partners ==
    /\ cpc \in {"mode", "place", "bsum", "block", "mark", "tracks", "xname", "xbyte", "xmore"} =>
          ChusbAt({cpc})
    /\ cpc \in {"seek", "rblock"} => ChusbAt({"rblock"})
    /\ cpc \in {"store", "verify", "key"} => ChusbAt({"sack"})
    /\ cpc \in {"store", "verify"} => Writing
    /\ cpc = "seek" => ~Writing
    /\ cpc = "xopen" => ChusbAt({"xbyte"})
    /\ cpc = "keyboard" => ChusbAt(IF Writing THEN {"sack"} ELSE {"rblock", "xbyte"})
    /\ cpc \in {"browse", "xstart", "xend"} => ChusbAt({"xstatus"})
    /\ cpc = "format" => ChusbAt({"fmtack"})
    /\ cpc \in {"open", "data", "close"} => ChusbAt({"data", "ack"})

Kept ==
    /\ disk = [p \in TS |-> disk[p]] /\ mark = [p \in TS |-> mark[p]] /\ flaws \in Nat
    /\ \A f \in files : f.body \in Seq(Bytes) \ {<<>>}
    /\ cpc = "close" => fdata \in Seq(Bytes) \ {<<>>}
    /\ cpc = "data" => fdata \in Seq(Bytes)

ServerInv == OwnPlace /\ Partners /\ Kept

\* The sectors before q, in the order in which the command takes them.
PassedAt(q, p) ==
    \/ q = EndTS \/ p[1] < q[1]
    \/ p[1] = q[1] /\ IF Cmd.kernal THEN p[2] < q[2] ELSE p[2] > q[2]

\* The sector chusb is at.
Want == buf[BufIndex(ts)]

AtHandWrite ==
    /\ upc \notin {"status", "sack"} => retries = IF Cmd.verify THEN 3 ELSE 0
    /\ Cmd.kernal /\ upc \in {"block", "mark", "sack"} =>
          "bsum" \in glitched \/ mychecksum = BlockSum(Want)
    /\ upc \in {"mark", "sack"} \/ (upc = "place" /\ ~Cmd.kernal) =>
          checkcalc = BlockSum(block) /\ ("block" \in glitched \/ block = Want)
    /\ upc = "sack" =>
          /\ cpc \in {"store", "verify", "keyboard", "key", "ack"} /\ Cmd.kernal => mychecksum = checkcalc
          /\ cpc \in {"store", "verify", "keyboard"} => retries \in Nat
          /\ cpc = "store" /\ Cmd.verify => retries > 0
          /\ cpc \in {"key", "ack"} =>
                disk[cts] = block \/ mark[ts] = "E" \/ (~Cmd.verify /\ flaws > 0)

AtHandRead ==
    /\ cpc = "rblock" \/ upc \in {"bsum", "mark", "sack"} =>
          block = disk[cts] \/ (block = Flaw /\ flaws > 0)
    /\ upc \in {"bsum", "mark", "sack"} =>
          checkcalc = BlockSum(block) /\ ("rblock" \in glitched \/ Want = block)
    /\ Cmd.kernal /\ upc \in {"mark", "sack"} =>
          "bsum" \in glitched \/ mychecksum = BlockSum(Want)
    /\ Cmd.kernal /\ upc = "sack" /\ cpc = "ack" => mychecksum = checkcalc
    /\ cpc = "keyboard" => flaws > 0

PlaceKnown == IF Writing /\ ~Cmd.kernal THEN {"mark", "sack"} ELSE OfSectors \ {"status", "place"}

AtPlace ==
    /\ ts \in TS \cup {EndTS} /\ (upc # "status" => ts \in TS) /\ k \in Nat
    /\ Cmd.kernal /\ ts \in TS => k = Linear(ts)

Behind ==
    \A p \in TS : PassedAt(ts, p) => IF Writing THEN IsWritten(p) ELSE IsRead(p, buf[Linear(p)])

Known == upc \in PlaceKnown => cts \in TS /\ ("place" \in glitched \/ cts = ts)

PassInv == ChusbAt(OfSectors) =>
    AtPlace /\ Behind /\ Known /\ IF Writing THEN AtHandWrite ELSE AtHandRead

\* Before and after.
DoneInv ==
    /\ tool = "chusb" =>
          /\ written = {}
          /\ IF Writing THEN buf = Cmd.data ELSE buf = [i \in 0 .. Cardinality(TS) - 1 |-> buf[i]]
    /\ Writing /\ tool = "ok" /\ k # 0 => \A p \in TS : IsWritten(p)
    /\ ~Writing => \A w \in written, p \in TS : IsRead(p, w.body[Linear(p)])

Sectoring == Running("write") \/ Running("read")
SectorInv == Sectoring => PassInv /\ DoneInv

\* What the PC has of a file, and what is left of it, is a file of the disk.
Taken(done) == \E f \in files : f.name = fname /\ f.body = done \o fdata

\* Or the drive has failed at it.
CutOff == flaws > 0 /\ fdata = <<>> /\ \E f \in files : f.name = fname /\ filebuf \in CutShort(f.body)

\* A file of the PC is one of the disk, whole unless the drive has failed.
IsFetched(w, f) == w.name = Fixed[f.name] /\ (w.body = f.body \/ (flaws > 0 /\ w.body \in CutShort(f.body)))

FetchInv == Running("fetch") =>
    /\ \A w \in written : glitched = {} => \E f \in files : IsFetched(w, f)
    /\ tool = "chusb" =>
       /\ cpc = "xstart" \/ upc = "xname" => Taken(<<>>)
       /\ cpc = "xstart" \/ upc \in {"xname", "xbyte"} => fdata # <<>>
       /\ cpc = "xstart" \/ upc \in {"xname", "xbyte", "xmore"} => fdata \in Seq(Bytes)
       /\ upc \in {"xbyte", "xmore"} => filebuf \in Seq(Bytes) /\ (glitched = {} => pname = fname)
       /\ upc = "xbyte" => (glitched = {} => Taken(filebuf))
       /\ upc = "xmore" => (glitched = {} => Taken(filebuf) \/ CutOff)

DiskInv == ServerInv /\ SectorInv /\ FetchInv

-----------------------------------------------------------------------------
(***************************************************************************)
(* The order of the sectors.                                               *)
(***************************************************************************)
\* A command begins with nothing behind it.
LEMMA OrderOfSectors ==
  /\ FirstOf(1) \in TS /\ (Cmd.kernal => Linear(FirstOf(1)) = 0)
  /\ \A p \in TS : ~PassedAt(FirstOf(1), p)
  <1>1. /\ 1 \in 1 .. Len(NumSectors) /\ NumSectors[1] \in Nat \ {0}
        /\ FirstOf(1) = IF Cmd.kernal THEN <<1, 0>> ELSE <<1, NumSectors[1] - 1>>
    <2>1. Len(NumSectors) \in Nat \ {0} /\ 1 \in 1 .. Len(NumSectors) /\ NumSectors[1] \in Nat \ {0}
      BY Geometry
    <2> QED
      BY <2>1 DEF FirstOf
  <1>2. /\ 0 \in 0 .. NumSectors[1] - 1 /\ NumSectors[1] - 1 \in 0 .. NumSectors[1] - 1
    BY <1>1
  <1>3. FirstOf(1) \in TS
    BY <1>1, <1>2, Geometry
  <1>4. Linear(<<1, 0>>) = 0
    <2>1. Linear(<<1, 0>>) = Before[0] + 0
      BY LinearIs
    <2> QED
      BY <2>1, BeforeIs
  <1>5. ASSUME NEW p \in TS PROVE ~PassedAt(FirstOf(1), p)
    <2>1. p[1] \in 1 .. Len(NumSectors) /\ p[2] \in 0 .. NumSectors[p[1]] - 1 /\ p[1] \in Nat
          /\ NumSectors[p[1]] \in Nat
      BY Geometry
    <2>2. FirstOf(1) # EndTS
      BY <1>3, Geometry
    <2> QED
      BY <1>1, <2>1, <2>2 DEF PassedAt
  <1> QED
    BY <1>1, <1>3, <1>4, <1>5

\* One sector further only the sector at hand is behind as well, and its place is the next one.
LEMMA NextSector ==
  ASSUME ts \in TS
  PROVE  /\ After(ts) \in TS \cup {EndTS}
         /\ Cmd.kernal /\ After(ts) \in TS => Linear(After(ts)) = Linear(ts) + 1
         /\ \A p \in TS : PassedAt(After(ts), p) => p = ts \/ PassedAt(ts, p)
  <1> DEFINE t == ts[1]
             n == ts[2]
             s == IF Cmd.kernal THEN n + 1 ELSE n - 1
  <1>1. /\ t \in 1 .. Len(NumSectors) /\ Len(NumSectors) \in Nat /\ t \in Nat
        /\ NumSectors[t] \in Nat \ {0} /\ n \in 0 .. NumSectors[t] - 1 /\ ts = <<t, n>>
        /\ ts # EndTS
    BY Geometry
  <1>2. \A p \in TS : p[1] \in Nat /\ p[1] <= Len(NumSectors) /\ p[2] \in Nat /\ p[2] < NumSectors[p[1]]
                      /\ NumSectors[p[1]] \in Nat /\ p = <<p[1], p[2]>>
    BY Geometry
  <1>3. Linear(ts) = Before[t - 1] + n /\ Before[t - 1] \in Nat /\ Before[t] = Before[t - 1] + NumSectors[t]
    <2>1. t - 1 \in 0 .. Len(NumSectors)
      BY <1>1
    <2> QED
      BY <1>1, <2>1, LinearIs, BeforeIs, BeforeGrows
  <1>4. CASE s \in 0 .. NumSectors[t] - 1
    <2>1. After(ts) = <<t, s>>
      BY <1>4 DEF After
    <2>2. After(ts) \in TS
      BY <1>1, <1>4, <2>1, Geometry
    <2>3. Linear(<<t, s>>) = Before[t - 1] + s
      BY LinearIs
    <2>4. Cmd.kernal => Linear(After(ts)) = Linear(ts) + 1
      BY <1>1, <1>3, <2>1, <2>3, SMTT(60)
    <2>5. ASSUME NEW p \in TS, PassedAt(After(ts), p) PROVE p = ts \/ PassedAt(ts, p)
      <3>1. After(ts) # EndTS /\ After(ts)[1] = t /\ After(ts)[2] = s
        BY <2>1, <2>2, Geometry
      <3>2. p[1] < t \/ (p[1] = t /\ IF Cmd.kernal THEN p[2] < s ELSE p[2] > s)
        BY <2>5, <3>1 DEF PassedAt
      <3>3. p[1] < t \/ (p[1] = t /\ (p[2] = n \/ IF Cmd.kernal THEN p[2] < n ELSE p[2] > n))
        BY <1>1, <1>2, <3>2
      <3> QED
        BY <1>1, <1>2, <3>3 DEF PassedAt
    <2> QED
      BY <2>2, <2>4, <2>5
  <1>5. CASE s \notin 0 .. NumSectors[t] - 1
    <2>1. After(ts) = FirstOf(t + 1)
      BY <1>5 DEF After
    <2>2. \A p \in TS : p[1] = t => p = ts \/ PassedAt(ts, p)
      BY <1>1, <1>2, <1>5 DEF PassedAt
    <2>3. CASE t = Len(NumSectors)
      <3>1. After(ts) = EndTS
        BY <1>1, <2>1, <2>3 DEF FirstOf
      <3>2. \A p \in TS : p[1] = t \/ p[1] < t
        BY <1>1, <1>2, <2>3
      <3> QED
        BY <2>2, <3>1, <3>2, Geometry DEF PassedAt
    <2>4. CASE t # Len(NumSectors)
      <3>1. t + 1 \in 1 .. Len(NumSectors) /\ ~(t + 1 > Len(NumSectors))
        BY <1>1, <2>4
      <3>2. NumSectors[t + 1] \in Nat \ {0}
        BY <3>1, Geometry
      <3>3. After(ts) = IF Cmd.kernal THEN <<t + 1, 0>> ELSE <<t + 1, NumSectors[t + 1] - 1>>
        BY <2>1, <3>1 DEF FirstOf
      <3>4. 0 \in 0 .. NumSectors[t + 1] - 1 /\ NumSectors[t + 1] - 1 \in 0 .. NumSectors[t + 1] - 1
        BY <3>2
      <3>5. After(ts) \in TS /\ After(ts) # EndTS /\ After(ts)[1] = t + 1
        BY <3>1, <3>3, <3>4, Geometry
      <3>6. Cmd.kernal => Linear(After(ts)) = Linear(ts) + 1
        <4>1. Linear(<<t + 1, 0>>) = Before[t] + 0
          <5>1. \A u : Linear(<<u, 0>>) = Before[u - 1] + 0
            <6> TAKE u
            <6> DEFINE q == <<u, 0>>
            <6>1. Linear(q) = Before[q[1] - 1] + q[2]
              BY LinearIs
            <6> QED
              BY <6>1
          <5>2. (t + 1) - 1 = t
            BY <1>1
          <5> HIDE DEF t
          <5> QED
            BY <5>1, <5>2
        <4>2. Cmd.kernal => n = NumSectors[t] - 1
          BY <1>1, <1>5
        <4>3. Before[t] \in Nat
          BY <1>1, <1>3
        <4>4. ASSUME Cmd.kernal PROVE Linear(ts) + 1 = Before[t]
          BY <1>1, <1>3, <4>2, <4>4
        <4>5. ASSUME Cmd.kernal PROVE Linear(After(ts)) = Before[t]
          BY <3>3, <4>1, <4>3, <4>5
        <4> QED
          BY <4>4, <4>5
      <3>7. ASSUME NEW p \in TS, PassedAt(After(ts), p) PROVE p = ts \/ PassedAt(ts, p)
        <4>1. p[1] < t + 1 \/ (p[1] = t + 1 /\ IF Cmd.kernal THEN p[2] < 0 ELSE p[2] > NumSectors[t + 1] - 1)
          BY <3>3, <3>5, <3>7 DEF PassedAt
        <4>2. p[1] < t \/ p[1] = t
          BY <1>1, <1>2, <3>2, <4>1
        <4> QED
          BY <2>2, <4>2 DEF PassedAt
      <3> QED
        BY <3>5, <3>6, <3>7
    <2> QED
      BY <2>3, <2>4
  <1> QED
    BY <1>4, <1>5

-----------------------------------------------------------------------------
(***************************************************************************)
(* chusb and its server are at the same command.                           *)
(***************************************************************************)
\* The items of a sector, for each of the four ways to go through a disk.
LEMMA ThenAre ==
  /\ Writing /\ Cmd.kernal =>
        /\ ItemSet = {"status", "place", "bsum", "block", "mark", "sack"}
        /\ Then("status") = "place" /\ Then("place") = "bsum" /\ Then("bsum") = "block"
        /\ Then("block") = "mark"
  /\ Writing /\ ~Cmd.kernal =>
        /\ ItemSet = {"status", "block", "place", "mark", "sack"}
        /\ Then("status") = "block" /\ Then("block") = "place" /\ Then("place") = "mark"
  /\ ~Writing /\ Cmd.kernal =>
        /\ ItemSet = {"status", "place", "rblock", "bsum", "mark", "sack"}
        /\ Then("status") = "place" /\ Then("place") = "rblock" /\ Then("rblock") = "bsum"
        /\ Then("bsum") = "mark"
  /\ ~Writing /\ ~Cmd.kernal =>
        /\ ItemSet = {"status", "place", "rblock", "mark", "sack"}
        /\ Then("status") = "place" /\ Then("place") = "rblock" /\ Then("rblock") = "mark"
  <1>1. ASSUME NEW x, NEW i \in DOMAIN Items, Items[i] = x, \A j \in DOMAIN Items : Items[j] = x => j = i
        PROVE  Then(x) = Items[i + 1]
    <2>1. (CHOOSE j \in DOMAIN Items : Items[j] = x) = i
      BY <1>1
    <2>2. 1 + i = i + 1
      BY <1>1, ItemsAre
    <2> QED
      BY <2>1, <2>2 DEF Then
  <1>2. CASE Writing /\ Cmd.kernal
    <2>1. Items = <<"status", "place", "bsum", "block", "mark", "sack">>
      BY <1>2 DEF Items
    <2>2. DOMAIN Items = 1 .. 6
      BY <2>1
    <2>3. Then("status") = "place" /\ Then("place") = "bsum"
      BY <1>1, <2>1, <2>2
    <2>4. Then("bsum") = "block" /\ Then("block") = "mark"
      BY <1>1, <2>1, <2>2
    <2> QED
      BY <1>2, <2>1, <2>2, <2>3, <2>4 DEF ItemSet
  <1>3. CASE Writing /\ ~Cmd.kernal
    <2>1. Items = <<"status", "block", "place", "mark", "sack">>
      BY <1>3 DEF Items
    <2>2. DOMAIN Items = 1 .. 5
      BY <2>1
    <2>3. Then("status") = "block" /\ Then("block") = "place" /\ Then("place") = "mark"
      BY <1>1, <2>1, <2>2
    <2> QED
      BY <1>3, <2>1, <2>2, <2>3 DEF ItemSet
  <1>4. CASE ~Writing /\ Cmd.kernal
    <2>1. Items = <<"status", "place", "rblock", "bsum", "mark", "sack">>
      BY <1>4 DEF Items
    <2>2. DOMAIN Items = 1 .. 6
      BY <2>1
    <2>3. Then("status") = "place" /\ Then("place") = "rblock" /\ Then("rblock") = "bsum" /\ Then("bsum") = "mark"
      BY <1>1, <2>1, <2>2
    <2> QED
      BY <1>4, <2>1, <2>2, <2>3 DEF ItemSet
  <1>5. CASE ~Writing /\ ~Cmd.kernal
    <2>1. Items = <<"status", "place", "rblock", "mark", "sack">>
      BY <1>5 DEF Items
    <2>2. DOMAIN Items = 1 .. 5
      BY <2>1
    <2>3. Then("status") = "place" /\ Then("place") = "rblock" /\ Then("rblock") = "mark"
      BY <1>1, <2>1, <2>2
    <2> QED
      BY <1>5, <2>1, <2>2, <2>3 DEF ItemSet
  <1> QED
    BY <1>2, <1>3, <1>4, <1>5

\* The steps of the server that leave disk, screen and files alone.
Steady == UNCHANGED <<disk, mark, flaws, files>> /\ (cpc' \in {"close", "data"} => UNCHANGED <<cpc, fdata>>)

LEMMA SteadyKept == Kept /\ Steady => Kept'
  BY DEF Kept, Steady

\* chcodenet does not touch the server of chusb.
LEMMA PlacesCodenet ==
  ASSUME AtWork, OwnPlace, Partners, CodenetNext, UNCHANGED usbVars
  PROVE  /\ OwnPlace' /\ Partners' /\ Steady /\ (tool = "chusb" => upc = "dma")
         /\ ~Sectoring' /\ \A c \in {"fetch", "copy", "dir"} : ~Running(c)'
  <1>1. UNCHANGED <<upc, cpc, disk, mark, flaws, files, fdata>>
    BY DEF usbVars, serverVars, sectorVars, fileVars, driveVars
  <1>2. \/ StartCodenet /\ tool \in {"none", "ok", "failed"} /\ tool' = "codenet" /\ Cmd'.prog = "chcodenet"
        \/ /\ tool = "codenet" /\ UNCHANGED <<jobs, turn>> /\ tool' \in {"codenet", "ok", "failed"}
           /\ Cmd.prog = "chcodenet"
        \/ /\ tool = "chusb" /\ upc = "dma" /\ UNCHANGED <<jobs, turn>> /\ Cmd.cmd \in Sending
           /\ tool' \in {"chusb", "failed"}
    <2>1. StartCodenet => tool \in {"none", "ok", "failed"} /\ tool' = "codenet" /\ Cmd'.prog = "chcodenet"
      BY DEF StartCodenet, Starts, Cmd, Job
    <2>2. NextOption \/ CodenetExits =>
            tool = "codenet" /\ UNCHANGED <<jobs, turn>> /\ tool' \in {"codenet", "ok", "failed"}
      BY DEF NextOption, CodenetExits
    <2>3. RequestFails \/ Pokes => todo # <<>> /\ UNCHANGED <<jobs, turn>> /\ (tool' = tool \/ tool' = "failed")
      BY DEF RequestFails, Pokes, PokeRam, PokePointer, PokeCount, PokeKeys, PokeScreen, Reset, PollReady, Doing
    <2> QED
      BY <2>1, <2>2, <2>3 DEF CodenetNext, Pokes, AtWork, Starting
  <1>3. Cmd' = Cmd \/ StartCodenet
    BY <1>2 DEF Cmd
  <1>4. tool' = "chusb" => tool = "chusb" /\ upc = "dma" /\ Cmd' = Cmd
    BY <1>2 DEF Cmd
  <1>5. OwnPlace'
    BY <1>1, <1>4 DEF OwnPlace, OfCopy, OfFetch, OfFormat, OfTest, OfSectors
  <1>6. tool # "chusb" \/ upc = "dma"
    BY <1>2
  <1>7. Partners'
    BY <1>1, <1>6 DEF Partners, ChusbAt
  <1>8. \A c \in {"write", "read", "fetch", "copy", "dir"} : ~Running(c)'
    BY <1>2, <1>3 DEF Running, Sending, Cmd
  <1> QED
    BY <1>1, <1>5, <1>6, <1>7, <1>8 DEF Steady, Sectoring

Matched == OwnPlace /\ Partners

\* The steps of the C64 that are no steps of a command.
Idle ==
    /\ UNCHANGED <<jobs, turn, tool, upc, k, ts, buf, pname, written, sectorVars, sumVars, fname,
                   fdata, filebuf, driveVars, glitched>>
    /\ cpc' \in {cpc, "menu"}

\* The C64 and its user leave the server alone while it works for a command.
LEMMA PlacesIdle ==
  ASSUME Matched, \/ BasicNext /\ UNCHANGED usbVars
                 \/ ServerStarts \/ UserContinues \/ UserResets
  PROVE  Idle /\ Matched' /\ Steady
  <1>1. Idle
    <2>1. ASSUME BasicNext, UNCHANGED usbVars PROVE Idle
      BY <2>1 DEF Idle, BasicNext, SystemNext, KernalStarts, BasicNew, PrintReady, TakeKey, ProgramEnds,
                    ProgramTakesKey, toolVars, usbVars,
             walkVars, pcVars, serverVars, fileVars
    <2>2. ASSUME ServerStarts \/ UserContinues \/ UserResets PROVE Idle
      BY <2>2 DEF Idle, ServerStarts, UserContinues, UserResets, toolVars, usbVars, walkVars, pcVars, serverVars,
             fileVars
    <2> QED
      BY <2>1, <2>2
  <1>2. Cmd' = Cmd
    BY <1>1 DEF Idle, Cmd
  <1>3. Matched'
    BY <1>1, <1>2 DEF Idle, Matched, OwnPlace, Partners, ChusbAt, Writing
  <1>4. Steady
    BY <1>1 DEF Idle, Steady, driveVars, sectorVars
  <1> QED
    BY <1>1, <1>3, <1>4

\* Steps of chusb that keep its command, or end it.
LEMMA PlacesGo ==
  ASSUME Matched, UNCHANGED <<jobs, turn>>, tool = "chusb",
         \/ tool' # "chusb"
         \/ /\ tool' = "chusb"
            /\ upc' \in OfCopy => upc \in OfCopy \/ Cmd.cmd \in {"copy", "dir"}
            /\ upc' \in OfFetch => upc \in OfFetch \/ Cmd.cmd = "fetch"
            /\ upc' \in OfFormat => upc \in OfFormat \/ Cmd.cmd = "format"
            /\ upc' \in OfTest => upc \in OfTest \/ Cmd.cmd = "test"
            /\ upc' \in OfSectors \cup {"mode"} =>
                  upc \in OfSectors \cup {"mode"} \/ Cmd.cmd \in {"write", "read"}
  PROVE  OwnPlace'
  <1>1. Cmd' = Cmd
    BY DEF Cmd
  <1> QED
    BY <1>1 DEF Matched, OwnPlace

\* What chusb does without its server.
LEMMA PlacesWalk ==
  ASSUME Matched, Quit \/ Walk \/ Send
  PROVE  Matched' /\ Steady
  <1>1. UNCHANGED <<jobs, turn, disk, mark, flaws, files, fdata>> /\ tool = "chusb"
        /\ (cpc' = cpc \/ (cpc = "menu" /\ cpc' = "cmdack"))
    BY DEF Quit, Exits, Walk, Send, CheckServer, StartNoAck, Meet, GoesOn, DmaDone, directVars, toolVars,
           serverVars, sectorVars, fileVars, driveVars
  <1>2. CASE Quit
    <2>1. tool' # "chusb" /\ cpc' = cpc /\ upc \in {"quit", "endmark"}
      BY <1>2 DEF Quit, Exits, serverVars
    <2>2. OwnPlace'
      BY <1>1, <2>1, PlacesGo
    <2> QED
      BY <1>1, <2>1, <2>2 DEF Matched, Partners, ChusbAt, Steady
  <1>3. CASE Walk
    <2>1. tool' = tool /\ upc \in OfCopy /\ upc' \in OfCopy /\ cpc' = cpc
          /\ upc \notin {"data", "ack"}
      BY <1>3 DEF Walk, directVars, toolVars, serverVars, OfCopy, WalkNext, DirectorySector, LastEntry, SkipEntry,
                  FirstSector, LoopFound, Overrun, Remember, IllegalLink, ChainSector
    <2>2. OwnPlace'
      BY <1>1, <2>1, PlacesGo DEF OfCopy, OfFetch, OfFormat, OfTest, OfSectors
    <2> QED
      BY <1>1, <2>1, <2>2 DEF Matched, Partners, ChusbAt, Steady, OfCopy
  <1>4. CASE Send
    <2>1. upc \in Starting /\ (tool' # "chusb" \/ (tool' = tool /\ upc' \in Starting))
      BY <1>1, <1>4 DEF Send, CheckServer, StartNoAck, Meet, GoesOn, DmaDone, Exits, directVars, toolVars, Starting
    <2>2. OwnPlace'
      BY <1>1, <2>1, PlacesGo DEF OfCopy, OfFetch, OfFormat, OfTest, OfSectors, Starting
    <2> QED
      BY <1>1, <2>1, <2>2 DEF Matched, Partners, ChusbAt, Steady, Starting
  <1> QED
    BY <1>2, <1>3, <1>4

\* A copy, and only a copy, makes the server store files.
LEMMA PlacesCopy ==
  ASSUME Matched, Kept, Copy
  PROVE  Matched' /\ Kept' /\ Cmd.cmd \in {"copy", "dir"}
  <1>1. UNCHANGED <<jobs, turn, disk, mark, flaws, files>> /\ tool = "chusb" /\ upc \in OfCopy
        /\ (tool' # "chusb" \/ (tool' = "chusb" /\ upc' \in OfCopy))
    BY DEF Copy, SendType, EndMark, SendName, SendLen, SendSum, SendData, Swallow, FileAck, Meet, GoesOn, Exits,
           AfterSum, AfterByte, directVars, toolVars, serverVars, sectorVars, driveVars, OfCopy
  <1>2. OwnPlace'
    BY <1>1, PlacesGo DEF OfCopy, OfFetch, OfFormat, OfTest, OfSectors
  <1>3. \/ cpc' \in {"menu", "name", "len", "sum", "type", "space"}
        \/ SendSum /\ cpc' = "open" /\ upc' \in {"data", "ack"} /\ tool' = "chusb"
        \/ SendData /\ cpc' \in {"data", "close"} /\ upc' \in {"data", "ack"} /\ tool' = "chusb"
    BY DEF Copy, SendType, EndMark, SendName, SendLen, SendSum, SendData, Swallow, FileAck, Meet, GoesOn, AfterSum,
           AfterByte, directVars, toolVars, serverVars
  <1>4. Partners'
    BY <1>3 DEF Partners, ChusbAt
  <1>5. SendData => fdata' \in Seq(Bytes) \ {<<>>}
    <2>1. SUFFICES ASSUME SendData PROVE fdata' \in Seq(Bytes) \ {<<>>}
      OBVIOUS
    <2>2. PICK b \in Bytes : fdata' = Append(fdata, b)
      BY <2>1 DEF SendData
    <2>3. fdata \in Seq(Bytes)
      BY <2>1 DEF SendData, Meet, Kept
    <2> QED
      BY <2>2, <2>3
  <1>6. Kept'
    BY <1>1, <1>3, <1>5 DEF Kept
  <1> QED
    BY <1>1, <1>2, <1>4, <1>6 DEF Matched, OwnPlace

\* The server takes up the command that chusb waits for.
LEMMA PlacesCommand ==
  ASSUME AtWork, Matched, StartCommand \/ Command
  PROVE  /\ Matched' /\ Steady
         /\ UNCHANGED <<jobs, turn, tool, k, ts, buf, pname, written, filebuf, fname, fdata, glitched>>
         /\ tool = "chusb" /\ upc' \notin OfSectors \cup {"xname", "xbyte", "xmore"}
         /\ cpc' \notin {"xstart", "rblock"}
  <1>1. UNCHANGED <<jobs, turn, tool, k, ts, buf, pname, written, disk, mark, flaws, files, filebuf, fname, fdata,
                    glitched>>
        /\ tool = "chusb" /\ upc \in {"sync", "cmdack"}
    BY DEF StartCommand, Command, Meet, GoesOn, directVars, toolVars, walkVars, pcVars, sectorVars, fileVars, driveVars
  <1>2. CASE StartCommand
    <2>1. upc' = "cmdack" /\ cpc' = "cmdack"
      BY <1>2 DEF StartCommand, GoesOn
    <2>2. OwnPlace'
      BY <1>1, <2>1, PlacesGo DEF OfCopy, OfFetch, OfFormat, OfTest, OfSectors
    <2> QED
      BY <1>1, <2>1, <2>2 DEF Matched, Partners, ChusbAt, Steady, OfSectors
  <1>3. CASE Command
    <2>1. Cmd.prog = "chusb" /\ Cmd.cmd \notin {"dir"} \cup Sending /\ jobs \in Sessions /\ turn \in DOMAIN jobs
      BY <1>1 DEF AtWork
    <2>2. Cmd.cmd \in {"copy", "write", "read", "fetch", "format", "test"}
      BY <2>1, SessionAssumption DEF Commands, Sending, Cmd
    <2>3. upc' = FirstStep
          /\ cpc' = IF Cmd.cmd = "copy" THEN "type" ELSE IF Cmd.cmd = "fetch" THEN "browse" ELSE FirstStep
      BY <1>3, <2>2 DEF Command, GoesOn
    <2>4. \/ Cmd.cmd = "copy" /\ upc' \in {"type", "directory"} /\ cpc' = "type"
          \/ Cmd.cmd \in {"write", "read"} /\ upc' = "mode" /\ cpc' = "mode"
          \/ Cmd.cmd = "format" /\ upc' = "tracks" /\ cpc' = "tracks"
          \/ Cmd.cmd = "fetch" /\ upc' = "xstatus" /\ cpc' = "browse"
          \/ Cmd.cmd = "test" /\ upc' = "hello" /\ cpc' = "hello"
      BY <2>2, <2>3 DEF FirstStep
    <2>5. OwnPlace'
      BY <1>1, <2>4, PlacesGo DEF OfCopy, OfFetch, OfFormat, OfTest, OfSectors
    <2> QED
      BY <1>1, <2>4, <2>5 DEF Matched, Partners, ChusbAt, Steady, OfSectors
  <1> QED
    BY <1>2, <1>3

\* chusb and the server of a disk command meet at the next item.
LEMMA MatchedSector ==
  ASSUME Matched, InItems, Sector
  PROVE  /\ Matched' /\ (tool' = "chusb" => upc' \in OfSectors) /\ tool = "chusb" /\ upc \in OfSectors \cup {"mode"}
         /\ Cmd.cmd \in {"write", "read"}
         /\ UNCHANGED <<jobs, turn, disk, flaws, files, fdata>> /\ cpc' \notin {"close", "data"}
  <1>1. /\ UNCHANGED <<jobs, turn, disk, flaws, files, fdata>> /\ tool = "chusb" /\ upc \in OfSectors \cup {"mode"}
    BY DEF Sector, SendMode, SendStatus, SendPlace, SendBlockSum, SendBlock, SendMark, TakeBlock, SendEnd, SectorAck,
           Meet, GoesOn, Exits, directVars, toolVars, serverVars, sectorVars, fileVars, driveVars, OfSectors
  <1>2. upc \in {"status", "place", "bsum", "block", "rblock"} /\ upc \in ItemSet =>
          /\ Then(upc) \in {"place", "bsum", "block", "rblock", "mark"}
          /\ upc = "place" /\ ~Writing => Then(upc) = "rblock"
    BY ThenAre
  <1>3. \/ SendMode /\ cpc' = "status" /\ upc' = "status" /\ tool' = tool
        \/ /\ SendStatus \/ SendPlace \/ SendBlockSum \/ SendBlock \/ TakeBlock
           /\ upc \in {"status", "place", "bsum", "block", "rblock"} /\ upc \in ItemSet /\ upc' = Then(upc) /\ tool' = tool
           /\ cpc' = upc' \/ (upc = "place" /\ ~Writing /\ cpc' = "seek")
        \/ SendMark /\ upc' = "sack" /\ tool' = tool /\ cpc' \in {"key", "nak", "store"} /\ (cpc' = "store" => Writing)
        \/ SendEnd(TRUE) /\ tool' # "chusb" /\ cpc' = "space"
        \/ SendEnd(FALSE) /\ tool' # "chusb" /\ cpc' = "space"
        \/ upc = "sack" /\ (tool' # "chusb" \/ (tool' = tool /\ upc' = "status")) /\ cpc' \in {"status", "space"}
    <2>1. SendMode => cpc' = "status" /\ upc' = "status" /\ tool' = tool
      BY DEF SendMode, GoesOn, directVars, toolVars
    <2>2. "status" \in ItemSet
      BY ItemsAre DEF ItemSet
    <2>3. tool = "chusb" /\ upc \in SectorPlaces => upc \in ItemSet
      BY DEF InItems
    <2>4. SendStatus \/ SendPlace \/ SendBlockSum \/ SendBlock \/ TakeBlock =>
            /\ upc \in {"status", "place", "bsum", "block", "rblock"} /\ upc' = Then(upc) /\ tool' = tool
            /\ cpc' = upc' \/ (upc = "place" /\ ~Writing /\ cpc' = "seek")
      BY DEF SendStatus, SendPlace, SendBlockSum, SendBlock, TakeBlock, Meet, GoesOn, directVars, toolVars
    <2>5. SendMark => upc' = "sack" /\ tool' = tool /\ cpc' \in {"key", "nak", "store"} /\ (cpc' = "store" => Writing)
      BY DEF SendMark, GoesOn, directVars, toolVars
    <2>6. \A opens \in BOOLEAN : SendEnd(opens) => tool' # "chusb" /\ cpc' = "space"
      BY DEF SendEnd, Exits
    <2>7. \A c \in {"ack", "nak"}, a \in {0, 255} : SectorAck(c, a) =>
            upc = "sack" /\ (tool' # "chusb" \/ (tool' = tool /\ upc' = "status")) /\ cpc' \in {"status", "space"}
      BY DEF SectorAck, Meet, GoesOn, Exits, directVars, toolVars
    <2> QED
      BY <1>1, <2>1, <2>2, <2>3, <2>4, <2>5, <2>6, <2>7 DEF Sector, SectorPlaces
  <1>4. tool' # "chusb" \/ (tool' = "chusb" /\ upc' \in OfSectors)
    BY <1>1, <1>2, <1>3 DEF OfSectors
  <1>5. Cmd' = Cmd
    BY <1>1 DEF Cmd
  <1>6. OwnPlace'
    BY <1>1, <1>4, PlacesGo DEF OfCopy, OfFetch, OfFormat, OfTest, OfSectors
  <1>7. Partners'
    BY <1>1, <1>2, <1>3, <1>5 DEF Matched, Partners, ChusbAt, Writing
  <1>8. cpc' \notin {"close", "data"}
    BY <1>2, <1>3
  <1> QED
    BY <1>1, <1>4, <1>6, <1>7, <1>8 DEF Matched, OwnPlace

\* Fetching, formatting and testing go hand in hand.
LEMMA MatchedOther ==
  ASSUME Matched, Kept, Other
  PROVE  /\ Matched' /\ Kept' /\ Cmd.cmd \in {"fetch", "format", "test"}
         /\ UNCHANGED <<jobs, turn, files>> /\ tool = "chusb" /\ flaws' \in {flaws, flaws + 1}
  <1>1. UNCHANGED <<jobs, turn, disk, mark, files>> /\ tool = "chusb" /\ flaws' \in {flaws, flaws + 1}
    BY DEF Drive, Other, FetchFile, FetchEnd, FetchName, FetchByte, FetchMore, SendTracks, FormatAck, TestHello, TestProbe,
           TestEcho, Meet, GoesOn, Exits, directVars, toolVars, sectorVars, driveVars
  <1>2. \/ /\ upc \in OfFetch
           /\ \/ tool' # "chusb" /\ cpc' = "menu"
              \/ upc' = "xname" /\ cpc' = "xname" /\ tool' = "chusb"
              \/ upc' = "xbyte" /\ cpc' \in {"xbyte", "xopen"} /\ tool' = "chusb"
              \/ upc' = "xmore" /\ cpc' = "xmore" /\ tool' = "chusb"
              \/ upc' = "xstatus" /\ cpc' = "browse" /\ tool' = "chusb"
        \/ /\ upc \in OfFormat
           /\ \/ tool' # "chusb" /\ cpc' = "space"
              \/ upc' = "fmtack" /\ cpc' = "format" /\ tool' = "chusb"
        \/ /\ upc \in OfTest
           /\ tool' # "chusb" \/ (upc' \in OfTest /\ tool' = "chusb")
           /\ cpc' \in {"probe", "echo"}
    BY DEF Other, FetchFile, FetchEnd, FetchName, FetchByte, FetchMore, SendTracks, FormatAck, TestHello, TestProbe,
           TestEcho, Meet, GoesOn, Exits, directVars, toolVars, OfFetch, OfFormat, OfTest
  <1>3. OwnPlace'
    BY <1>1, <1>2, PlacesGo DEF OfCopy, OfFetch, OfFormat, OfTest, OfSectors
  <1>4. Partners'
    BY <1>2 DEF Partners, ChusbAt
  <1>5. Kept'
    BY <1>1, <1>2 DEF Kept
  <1> QED
    BY <1>1, <1>2, <1>3, <1>4, <1>5 DEF Matched, OwnPlace

\* What the server does for a command the PC waits for.
LEMMA MatchedAlone ==
  ASSUME Matched, Kept, ServerAlone \/ Browse \/ UserTypes
  PROVE  /\ Matched' /\ Kept' /\ UNCHANGED <<jobs, turn, tool, upc>> /\ tool = "chusb"
         /\ OpenFile \/ (\E taken, stop \in BOOLEAN : CloseFile(taken, stop)) => Cmd.cmd \in {"copy", "dir"}
         /\ FormatDisk => Cmd.cmd = "format"
         /\ Browse => Cmd.cmd = "fetch"
         /\ (\E b \in BOOLEAN : StoreSector(b) \/ ReadSector(b) \/ CheckKey(b)) \/ VerifySector =>
               Cmd.cmd \in {"write", "read"}
         /\ NoDrive => Cmd.cmd \in {"write", "read", "fetch"}
         /\ NoDrive \/ UserTypes => cpc' \in {"keyboard", "rblock", "key", "store"} /\ UNCHANGED files
         /\ UserTypes => Cmd.cmd \in {"write", "read"}
  <1>1. UNCHANGED <<jobs, turn, tool, upc>>
    BY DEF ServerAlone, OpenFile, VerifySector, NoDrive, UserTypes, FormatDisk, StoreSector, ReadSector, CheckKey, CloseFile, ServerStep,
           Browse, directVars, toolVars
  <1>2. Cmd' = Cmd
    BY <1>1 DEF Cmd
  <1>3. OwnPlace'
    BY <1>1, <1>2 DEF Matched, OwnPlace
  <1>4. \/ OpenFile \/ \E taken, stop \in BOOLEAN : CloseFile(taken, stop)
        \/ FormatDisk \/ Browse \/ NoDrive \/ UserTypes
        \/ (\E b \in BOOLEAN : StoreSector(b) \/ ReadSector(b) \/ CheckKey(b)) \/ VerifySector
    BY DEF ServerAlone
  <1>5. ASSUME OpenFile
        PROVE  Partners' /\ Kept' /\ tool = "chusb" /\ upc \in OfCopy
    BY <1>1, <1>5 DEF OpenFile, Matched, Partners, ChusbAt, Kept, OfCopy, driveVars, sectorVars
  <1>6. ASSUME NEW taken \in BOOLEAN, NEW stop \in BOOLEAN, CloseFile(taken, stop)
        PROVE  Partners' /\ Kept' /\ tool = "chusb" /\ upc \in OfCopy
    <2>1. cpc = "close" /\ cpc' \in {"nak", "ack"} /\ UNCHANGED <<disk, mark, flaws>>
      BY <1>6 DEF CloseFile, sectorVars
    <2>2. tool = "chusb" /\ upc \in OfCopy
      BY <2>1 DEF Matched, Partners, ChusbAt, OfCopy
    <2>3. files' = files \/ files' = files \cup {[name |-> fname, type |-> ftype, body |-> fdata]}
      BY <1>6 DEF CloseFile
    <2> QED
      BY <1>1, <2>1, <2>2, <2>3 DEF Partners, Kept
  <1>7. ASSUME FormatDisk
        PROVE  Partners' /\ Kept' /\ tool = "chusb" /\ upc = "fmtack"
    BY <1>1, <1>7 DEF FormatDisk, Matched, Partners, ChusbAt, Kept, sectorVars
  <1>8. ASSUME Browse
        PROVE  Partners' /\ Kept' /\ tool = "chusb" /\ upc = "xstatus"
    BY <1>1, <1>8 DEF Browse, Matched, Partners, ChusbAt, Kept, driveVars, sectorVars
  <1>9. ASSUME NEW b \in BOOLEAN, StoreSector(b) \/ ReadSector(b) \/ CheckKey(b) \/ VerifySector
        PROVE  Partners' /\ Kept' /\ tool = "chusb" /\ upc \in OfSectors
    <2>1. UNCHANGED files /\ flaws' \in {flaws, flaws + 1}
          /\ (disk' = disk \/ \E v : disk' = [disk EXCEPT ![cts] = v])
          /\ (mark' = mark \/ \E v : mark' = [mark EXCEPT ![ts] = v])
      BY <1>9 DEF StoreSector, ReadSector, CheckKey, VerifySector, Drive, Compared, ServerStep, sectorVars
    <2>2. /\ cpc \in {"store", "verify", "key", "seek"} /\ cpc' \in {"store", "verify", "key", "rblock", "nak", "ack"}
          /\ cpc' \in {"store", "verify"} => cpc \in {"store", "verify"}
          /\ cpc' = "key" => cpc \in {"store", "verify"}
          /\ cpc' = "rblock" => cpc = "seek"
      BY <1>9 DEF StoreSector, ReadSector, CheckKey, VerifySector, Compared
    <2>3. Partners' /\ tool = "chusb" /\ upc \in OfSectors
      BY <1>1, <1>2, <2>2 DEF Matched, Partners, ChusbAt, Writing, OfSectors
    <2>4. flaws' \in Nat
      BY <2>1 DEF Kept
    <2>5. disk' = [p \in TS |-> disk'[p]]
      BY <2>1, Zenon DEF Kept
    <2>6. mark' = [p \in TS |-> mark'[p]]
      BY <2>1, Zenon DEF Kept
    <2> QED
      BY <2>1, <2>2, <2>3, <2>4, <2>5, <2>6 DEF Kept
  <1>11. ASSUME NoDrive
         PROVE  Partners' /\ Kept' /\ tool = "chusb" /\ Cmd.cmd \in {"write", "read", "fetch"}
                /\ cpc' = "keyboard" /\ UNCHANGED files
    <2>1. cpc \in {"seek", "verify", "xopen"} /\ cpc' = "keyboard" /\ flaws' = flaws + 1
          /\ UNCHANGED <<files, disk, mark>>
      BY <1>11 DEF NoDrive, Drive, ServerStep, sectorVars
    <2>2. tool = "chusb" /\ upc \in (IF Writing THEN {"sack"} ELSE {"rblock", "xbyte"})
      BY <2>1 DEF Matched, Partners, OwnPlace, ChusbAt, Writing, OfFetch
    <2>3. Partners'
      BY <1>1, <1>2, <2>1, <2>2 DEF Partners, ChusbAt, Writing
    <2>4. Kept'
      BY <2>1 DEF Kept
    <2> QED
      BY <2>1, <2>2, <2>3, <2>4 DEF Matched, OwnPlace, OfSectors, OfFetch
  <1>12. ASSUME UserTypes
         PROVE  Partners' /\ Kept' /\ tool = "chusb" /\ Cmd.cmd \in {"write", "read"}
                /\ cpc' \in {"rblock", "key", "store"} /\ UNCHANGED files
    <2>1. cpc = "keyboard" /\ Cmd.cmd \in {"write", "read"} /\ UNCHANGED <<files, disk, flaws>>
          /\ IF Writing THEN cpc' \in {"key", "store"} ELSE cpc' = "rblock"
      BY <1>12 DEF UserTypes, Compared, ServerStep
    <2>6. mark' = mark \/ \E v : mark' = [mark EXCEPT ![ts] = v]
      BY <1>12 DEF UserTypes, Compared
    <2>2. tool = "chusb" /\ upc \in (IF Writing THEN {"sack"} ELSE {"rblock"})
      BY <2>1 DEF Matched, Partners, OwnPlace, ChusbAt, OfFetch
    <2>3. Partners'
      BY <1>1, <1>2, <2>1, <2>2 DEF Partners, ChusbAt, Writing
    <2>4. mark' = [p \in TS |-> mark'[p]]
      BY <2>6, Zenon DEF Kept
    <2>5. Kept'
      BY <2>1, <2>4 DEF Kept
    <2> QED
      BY <2>1, <2>2, <2>3, <2>5
  <1>10. Partners' /\ Kept' /\ tool = "chusb"
    BY <1>4, <1>5, <1>6, <1>7, <1>8, <1>9, <1>11, <1>12
  <1> QED
    BY <1>1, <1>3, <1>5, <1>6, <1>7, <1>8, <1>9, <1>10, <1>11, <1>12 DEF Matched, OwnPlace, OfSectors, OfFormat, OfFetch

\* A new command finds no server at work for an old one.
LEMMA MatchedStart ==
  ASSUME Matched, NEW there \in BOOLEAN, StartChusb(there)
  PROVE  /\ Matched' /\ Steady /\ written' = {} /\ k' = 0 /\ tool' \in {"chusb", "ok", "failed"}
         /\ tool' = "chusb" => upc' \in {"directory", "check", "sync"} /\ cpc' \notin {"xstart", "rblock"}
         /\ buf' = IF Writing' THEN Cmd'.data ELSE NoImage
  <1>1. /\ tool \in {"none", "ok", "failed"} /\ UNCHANGED <<cpc, disk, mark, flaws, files, fdata>>
        /\ Cmd' = Job /\ buf' = IF Job.cmd = "write" THEN Job.data ELSE NoImage
        /\ written' = {} /\ k' = 0 /\ tool' \in {"chusb", "ok", "failed"}
    BY DEF StartChusb, Starts, Cmd, Job, serverVars, sectorVars, fileVars, driveVars
  <1>2. tool' = "chusb" =>
          upc' = IF Job.cmd = "dir" THEN "directory" ELSE IF Job.cmd \in Sending THEN "check" ELSE "sync"
    BY DEF StartChusb, Sending
  <1>3. tool' = "chusb" => upc' \in {"directory", "check", "sync"} /\ (upc' = "directory" => Cmd'.cmd = "dir")
    BY <1>1, <1>2
  <1>4. OwnPlace'
    BY <1>3 DEF OwnPlace, OfCopy, OfFetch, OfFormat, OfTest, OfSectors
  <1>5. Partners' /\ cpc' \notin {"xstart", "rblock"}
    BY <1>1 DEF Matched, Partners, ChusbAt
  <1>6. Steady
    BY <1>1 DEF Steady
  <1> QED
    BY <1>1, <1>3, <1>4, <1>5, <1>6 DEF Matched, Writing

LEMMA InitDisk == Init => DiskInv
  <1> SUFFICES ASSUME Init PROVE DiskInv
    OBVIOUS
  <1>1. /\ tool = "none" /\ cpc = "menu" /\ mark = [p \in TS |-> " "] /\ files \in Stocks /\ disk \in Disks
        /\ flaws = 0
    BY Zenon DEF Init, DirectInit
  <1>2. disk \in [TS -> Contents] /\ \A f \in files : f.body \in Seq(Bytes) \ {<<>>}
    BY <1>1, UsbAssumption
  <1>3. ServerInv
    BY <1>1, <1>2 DEF ServerInv, OwnPlace, Partners, Kept
  <1> QED
    BY <1>1, <1>3 DEF DiskInv, SectorInv, Sectoring, FetchInv, Running

\* The two sides stay at the same command in every step.
LEMMA ServerMatched ==
  ASSUME AtWork, InItems, ServerInv, [Next]_vars
  PROVE  ServerInv'
  <1> USE DEF ServerInv
  <1>0. CASE UNCHANGED vars
    BY <1>0 DEF vars, usbVars, directVars, toolVars, walkVars, serverVars, sectorVars, fileVars, driveVars, OwnPlace,
                Partners, ChusbAt, Kept, Cmd, Writing
  <1>m. Matched
    BY DEF Matched
  <1>1. CASE CodenetNext /\ UNCHANGED usbVars
    BY <1>1, PlacesCodenet, SteadyKept
  <1>2. CASE (BasicNext /\ UNCHANGED usbVars) \/ ServerStarts \/ UserContinues \/ UserResets
    BY <1>m, <1>2, PlacesIdle, SteadyKept DEF Matched
  <1>3. CASE Quit \/ Walk \/ Send
    BY <1>m, <1>3, PlacesWalk, SteadyKept DEF Matched
  <1>4. CASE Copy
    BY <1>m, <1>4, PlacesCopy DEF Matched
  <1>5. CASE StartCommand \/ Command
    BY <1>m, <1>5, PlacesCommand, SteadyKept DEF Matched
  <1>6. CASE Sector
    <2>1. Matched' /\ UNCHANGED <<disk, flaws, files, fdata>> /\ cpc' \notin {"close", "data"}
      BY <1>m, <1>6, MatchedSector
    <2>2. mark' = mark \/ \E v : mark' = [mark EXCEPT ![ts] = v]
      BY <1>6 DEF Sector, SendMode, SendStatus, SendPlace, SendBlockSum, SendBlock, SendMark, TakeBlock, SendEnd,
                  SectorAck, serverVars, sectorVars
    <2>3. mark' = [p \in TS |-> mark'[p]]
      BY <2>2, Zenon DEF Kept
    <2>4. Kept'
      BY <2>1, <2>3 DEF Kept
    <2> QED
      BY <2>1, <2>4 DEF Matched
  <1>7. CASE Other
    BY <1>m, <1>7, MatchedOther DEF Matched
  <1>8. CASE ServerAlone \/ Browse \/ UserTypes
    BY <1>m, <1>8, MatchedAlone DEF Matched
  <1>9. ASSUME NEW there \in BOOLEAN, StartChusb(there) PROVE ServerInv'
    BY <1>m, <1>9, MatchedStart, SteadyKept DEF Matched
  <1> QED
    BY <1>0, <1>1, <1>2, <1>3, <1>4, <1>5, <1>6, <1>7, <1>8, <1>9 DEF Next, Program, C64, User

-----------------------------------------------------------------------------
\* What came of a sector is not forgotten when something else goes wrong.
LEMMA StillWritten ==
  ASSUME UNCHANGED <<jobs, turn>>, glitched \subseteq glitched', flaws > 0 => flaws' > 0,
         NEW p, IsWritten(p), UNCHANGED <<disk[p], mark[p]>>
  PROVE  IsWritten(p)'
  <1>1. Cmd' = Cmd
    BY DEF Cmd
  <1>2. disk'[p] = disk[p] /\ mark'[p] = mark[p]
    OBVIOUS
  <1> QED
    BY <1>1, <1>2 DEF IsWritten

-----------------------------------------------------------------------------
(***************************************************************************)
(* Sectors that are written.                                               *)
(***************************************************************************)
\* Without a glitch of its kind what was sent arrives.
LEMMA ArrivesIs ==
  ASSUME NEW item, NEW v, NEW w, Arrives(item, v, w)
  PROVE  glitched \subseteq glitched' /\ (w = v \/ item \in glitched')
  BY DEF Arrives

\* What is behind stays as it is while the sector at hand is worked on.
LEMMA StillBehind ==
  ASSUME UNCHANGED <<jobs, turn, ts, buf, disk, mark, flaws>>, glitched \subseteq glitched', Behind, Kept
  PROVE  Behind'
  <1>1. Cmd' = Cmd
    BY DEF Cmd
  <1>2. Writing' <=> Writing
    BY <1>1 DEF Writing
  <1>3. \A p : PassedAt(ts, p)' <=> PassedAt(ts, p)
    BY <1>1 DEF PassedAt
  <1>4. CASE Writing
    <2>1. \A p \in TS : PassedAt(ts, p) => IsWritten(p)
      BY <1>4 DEF Behind
    <2>2. \A p \in TS : PassedAt(ts, p) => IsWritten(p)'
      BY <2>1, StillWritten
    <2> QED
      BY <1>2, <1>3, <1>4, <2>2 DEF Behind
  <1>5. CASE ~Writing
    <2>1. \A p \in TS : PassedAt(ts, p) => IsRead(p, buf[Linear(p)])
      BY <1>5 DEF Behind
    <2>2. \A p \in TS : PassedAt(ts, p) => IsRead(p, buf[Linear(p)])'
      BY <1>1, <2>1 DEF IsRead
    <2> QED
      BY <1>2, <1>3, <1>5, <2>2 DEF Behind
  <1> QED
    BY <1>4, <1>5

\* The items of a sector up to its mark, in writing.
LEMMA WriteItems ==
  ASSUME InItems, Kept, Writing, tool = "chusb", upc \in OfSectors, PassInv,
         SendStatus \/ SendPlace \/ SendBlockSum \/ SendBlock \/ SendMark
  PROVE  PassInv'
  <1>1. /\ UNCHANGED <<jobs, turn, tool, ts, k, buf, disk, mark, flaws>> /\ glitched \subseteq glitched'
    BY ArrivesIs DEF SendStatus, SendPlace, SendBlockSum, SendBlock, SendMark, GoesOn, directVars, toolVars, pcVars,
           sectorVars, driveVars
  <1>2. Cmd' = Cmd /\ Writing' /\ BufIndex(ts)' = BufIndex(ts) /\ Want' = Want
        /\ PlaceKnown' = PlaceKnown
    <2>1. Cmd' = Cmd
      BY <1>1 DEF Cmd
    <2> QED
      BY <1>1, <2>1 DEF Writing, BufIndex, Want, PlaceKnown
  <1>3. AtPlace /\ Behind /\ Known /\ AtHandWrite
    BY DEF PassInv, ChusbAt
  <1>4. Behind'
    BY <1>1, <1>3, StillBehind
  <1>5. "status" \in ItemSet /\ (upc \in SectorPlaces => upc \in ItemSet)
    BY ItemsAre DEF ItemSet, InItems
  <1>6. CASE SendStatus
    <2>1. upc = "status" /\ ts # EndTS /\ upc' = Then("status") /\ UNCHANGED glitched
          /\ retries' = IF Cmd.verify THEN 3 ELSE 0
      BY <1>6 DEF SendStatus, Meet, GoesOn
    <2>2. AtPlace'
      BY <1>1, <1>2, <1>3, <2>1 DEF AtPlace
    <2>3. IF Cmd.kernal THEN upc' = "place" ELSE upc' = "block"
      BY <2>1, ThenAre
    <2>4. Known'
      BY <1>2, <2>3 DEF Known, PlaceKnown, OfSectors
    <2>5. AtHandWrite'
      BY <1>2, <2>1, <2>3 DEF AtHandWrite
    <2> QED
      BY <1>2, <1>4, <2>2, <2>4, <2>5 DEF PassInv
  <1>7. CASE SendPlace
    <2>1. upc = "place" /\ upc' = Then("place") /\ UNCHANGED <<block, retries, mychecksum, checkcalc>>
      BY <1>7 DEF SendPlace, Meet, GoesOn, sumVars
    <2>2. cts' \in TS /\ (cts' = ts \/ "place" \in glitched')
      BY <1>7, ArrivesIs DEF SendPlace
    <2>3. AtPlace'
      BY <1>1, <1>2, <1>3, <2>1 DEF AtPlace
    <2>4. IF Cmd.kernal THEN upc' = "bsum" ELSE upc' = "mark"
      BY <2>1, ThenAre
    <2>5. Known'
      BY <1>1, <2>2 DEF Known
    <2>6. AtHandWrite'
      BY <1>1, <1>2, <1>3, <2>1, <2>4 DEF AtHandWrite
    <2> QED
      BY <1>2, <1>4, <2>3, <2>5, <2>6 DEF PassInv
  <1>8. CASE SendBlockSum
    <2>1. upc = "bsum" /\ upc' = Then("bsum") /\ UNCHANGED <<cts, block, retries>>
          /\ (mychecksum' = BlockSum(Want) \/ "bsum" \in glitched')
      BY <1>8, ArrivesIs DEF SendBlockSum, Meet, GoesOn, sectorVars, Want
    <2>2. Cmd.kernal /\ upc' = "block"
      BY <1>5, <2>1, ThenAre DEF SectorPlaces
    <2>3. AtPlace'
      BY <1>1, <1>2, <1>3, <2>1 DEF AtPlace
    <2>4. Known'
      BY <1>1, <1>2, <1>3, <2>1, <2>2 DEF Known, PlaceKnown, OfSectors
    <2>5. AtHandWrite'
      BY <1>1, <1>2, <1>3, <2>1, <2>2 DEF AtHandWrite
    <2> QED
      BY <1>2, <1>4, <2>3, <2>4, <2>5 DEF PassInv
  <1>9. CASE SendBlock
    <2>1. upc = "block" /\ upc' = Then("block") /\ UNCHANGED <<cts, retries, mychecksum>>
          /\ checkcalc' = BlockSum(block') /\ (block' = Want \/ "block" \in glitched')
      BY <1>9, ArrivesIs DEF SendBlock, Meet, GoesOn, Want
    <2>2. IF Cmd.kernal THEN upc' = "mark" ELSE upc' = "place"
      BY <2>1, ThenAre
    <2>3. AtPlace'
      BY <1>1, <1>2, <1>3, <2>1 DEF AtPlace
    <2>4. Known'
      BY <1>1, <1>2, <1>3, <2>1, <2>2 DEF Known, PlaceKnown, OfSectors
    <2>5. AtHandWrite'
      BY <1>1, <1>2, <1>3, <2>1, <2>2 DEF AtHandWrite
    <2> QED
      BY <1>2, <1>4, <2>3, <2>4, <2>5 DEF PassInv
  <1>10. CASE SendMark
    <2>1. upc = "mark" /\ upc' = "sack" /\ UNCHANGED <<cts, block, retries, mychecksum, checkcalc, glitched>>
          /\ (cpc' = "nak" \/ (cpc' = "store" /\ (Cmd.kernal => mychecksum = checkcalc)))
      BY <1>10 DEF SendMark, Meet, GoesOn, sumVars, SumIsWrong
    <2>2. AtPlace'
      BY <1>1, <1>2, <1>3, <2>1 DEF AtPlace
    <2>3. Known'
      BY <1>1, <1>2, <1>3, <2>1 DEF Known, PlaceKnown, OfSectors
    <2>4. AtHandWrite'
      BY <1>1, <1>2, <1>3, <2>1 DEF AtHandWrite
    <2> QED
      BY <1>2, <1>4, <2>2, <2>3, <2>4 DEF PassInv
  <1> QED
    BY <1>6, <1>7, <1>8, <1>9, <1>10

\* The sector goes to the disk, as often as it takes.
LEMMA WriteSector ==
  ASSUME Kept, Partners, Writing, tool = "chusb", upc = "sack", PassInv,
         \/ \E b \in BOOLEAN : StoreSector(b) \/ CheckKey(b)
         \/ VerifySector \/ NoDrive \/ UserTypes
  PROVE  PassInv'
  <1>1. /\ UNCHANGED <<jobs, turn, tool, upc, ts, k, buf, cts, block, glitched, mychecksum, checkcalc>>
        /\ flaws' \in {flaws, flaws + 1} /\ (flaws > 0 => flaws' > 0)
    <2>1. UNCHANGED <<jobs, turn, tool, upc, ts, k, buf, glitched, mychecksum, checkcalc>>
      BY DEF StoreSector, CheckKey, VerifySector, NoDrive, UserTypes, ServerStep, directVars, toolVars, pcVars,
             sumVars
    <2>2. UNCHANGED <<cts, block>>
      BY DEF StoreSector, CheckKey, VerifySector, NoDrive, UserTypes, sectorVars
    <2>3. flaws' = flaws \/ flaws' = flaws + 1
      BY DEF StoreSector, CheckKey, VerifySector, NoDrive, UserTypes, Drive
    <2> QED
      BY <2>1, <2>2, <2>3 DEF Kept
  <1>2. Cmd' = Cmd /\ Writing' /\ BufIndex(ts)' = BufIndex(ts) /\ Want' = Want
        /\ PlaceKnown' = PlaceKnown /\ \A p : PassedAt(ts, p)' <=> PassedAt(ts, p)
    <2>1. Cmd' = Cmd
      BY <1>1 DEF Cmd
    <2> QED
      BY <1>1, <2>1 DEF Writing, BufIndex, Want, PlaceKnown, PassedAt
  <1>3. AtPlace /\ Behind /\ Known /\ AtHandWrite /\ ts \in TS
    BY DEF PassInv, ChusbAt, OfSectors, AtPlace
  <1>4. cts \in TS /\ ("place" \in glitched \/ cts = ts)
    BY <1>3 DEF Known, PlaceKnown, OfSectors
  <1>5. AtPlace' /\ Known'
    BY <1>1, <1>2, <1>3 DEF AtPlace, Known
  <1>6. /\ disk' = disk \/ \E v : disk' = [disk EXCEPT ![cts] = v]
        /\ mark' = mark \/ \E v : mark' = [mark EXCEPT ![ts] = v]
    BY DEF StoreSector, CheckKey, VerifySector, NoDrive, UserTypes, Compared, ServerStep, sectorVars
  <1>7. Behind'
    <2>1. ASSUME NEW p \in TS, PassedAt(ts, p)
          PROVE  IsWritten(p)'
      <3>1. IsWritten(p)
        BY <1>3, <2>1 DEF Behind
      <3>2. p # ts /\ ts # EndTS
        BY <1>3, <2>1, Geometry DEF PassedAt
      <3>3. mark'[p] = mark[p]
        <4>1. \A v : [mark EXCEPT ![ts] = v][p] = mark[p]
          BY <3>2, Zenon DEF Kept
        <4> QED
          BY <1>6, <4>1, Zenon
      <3>4. CASE cts = ts
        <4>1. disk'[p] = disk[p]
          <5>1. \A v : [disk EXCEPT ![ts] = v][p] = disk[p]
            BY <3>2, Zenon DEF Kept
          <5> QED
            BY <1>6, <3>4, <5>1, Zenon
        <4> QED
          BY <1>1, <3>1, <3>3, <4>1, StillWritten
      <3>5. CASE "place" \in glitched
        <4>1. glitched' # {} /\ ~(glitched' \subseteq {"block"}) /\ ~(glitched' \subseteq {"bsum"})
          BY <1>1, <3>5
        <4> QED
          BY <4>1 DEF IsWritten
      <3> QED
        BY <1>4, <3>4, <3>5
    <2> QED
      BY <1>2, <2>1 DEF Behind
  <1>8. AtHandWrite'
    <2>1. ASSUME NEW b \in BOOLEAN, StoreSector(b) PROVE AtHandWrite'
      <3>1. cpc = "store" /\ (b => disk' = [disk EXCEPT ![cts] = block]) /\ (~b => flaws' = flaws + 1)
            /\ IF retries = 0 THEN cpc' = "key" ELSE cpc' = "verify" /\ retries' = retries - 1
        BY <2>1 DEF StoreSector, Drive
      <3>2. disk'[cts] = block \/ flaws' > 0
        BY <1>4, <3>1 DEF Kept
      <3>3. retries \in Nat /\ (Cmd.verify => retries > 0)
            /\ (Cmd.kernal => mychecksum = checkcalc)
        BY <1>3, <3>1 DEF AtHandWrite
      <3> QED
        BY <1>1, <1>2, <1>3, <3>1, <3>2, <3>3 DEF AtHandWrite
    <2>2. CASE VerifySector
      <3>0. PICK good \in BOOLEAN : Compared(good /\ disk[cts] = block)
        BY <2>2 DEF VerifySector
      <3>1. cpc = "verify" /\ mark' = [mark EXCEPT ![ts] = Shown(good /\ disk[cts] = block, retries)]
            /\ cpc' = (IF mark'[ts] = "*" \/ retries = 0 THEN "key" ELSE "store")
            /\ UNCHANGED <<retries, disk>>
        BY <2>2, <3>0 DEF VerifySector, Compared
      <3>2. mark'[ts] = IF good /\ disk[cts] = block THEN "*" ELSE "E"
        BY <1>3, <3>1, Zenon DEF Kept, Shown
      <3>3. retries \in Nat /\ (Cmd.kernal => mychecksum = checkcalc)
        BY <1>3, <3>1 DEF AtHandWrite
      <3>4. disk[cts] = block \/ mark'[ts] = "E"
        BY <3>2
      <3>5. cpc' \in {"key", "store"} /\ (cpc' = "store" => retries # 0)
        BY <3>1
      <3>6. cpc' = "store" => retries > 0
        BY <3>3, <3>5
      <3> QED
        BY <1>1, <1>2, <1>3, <3>1, <3>3, <3>4, <3>5, <3>6 DEF AtHandWrite
    <2>3. ASSUME NEW b \in BOOLEAN, CheckKey(b) PROVE AtHandWrite'
      <3>1. cpc = "key" /\ cpc' \in {"nak", "ack"} /\ UNCHANGED <<disk, mark, retries>>
        BY <2>3 DEF CheckKey, sectorVars
      <3> QED
        BY <1>1, <1>2, <1>3, <3>1 DEF AtHandWrite
    <2>4. CASE NoDrive
      <3>1. cpc \in {"verify"} /\ cpc' = "keyboard" /\ UNCHANGED <<disk, mark, retries>>
        BY <2>4 DEF NoDrive, sectorVars, Partners, ChusbAt
      <3> QED
        BY <1>1, <1>2, <1>3, <3>1 DEF AtHandWrite
    <2>5. CASE UserTypes
      <3>1. cpc = "keyboard" /\ mark' = [mark EXCEPT ![ts] = Shown(FALSE, retries)]
            /\ cpc' = (IF mark'[ts] = "*" \/ retries = 0 THEN "key" ELSE "store")
            /\ UNCHANGED <<retries, disk>>
        BY <2>5 DEF UserTypes, Compared
      <3>2. mark'[ts] = "E"
        BY <1>3, <3>1, Zenon DEF Kept, Shown
      <3>3. retries \in Nat /\ (Cmd.kernal => mychecksum = checkcalc)
        BY <1>3, <3>1 DEF AtHandWrite
      <3>4. cpc' \in {"key", "store"} /\ (cpc' = "store" => retries # 0)
        BY <3>1
      <3>5. cpc' = "store" => retries > 0
        BY <3>3, <3>4
      <3> QED
        BY <1>1, <1>2, <1>3, <3>1, <3>2, <3>3, <3>4, <3>5 DEF AtHandWrite
    <2> QED
      BY <2>1, <2>2, <2>3, <2>4, <2>5
  <1> QED
    BY <1>2, <1>5, <1>7, <1>8 DEF PassInv

-----------------------------------------------------------------------------
(***************************************************************************)
(* Sectors that are read.                                                  *)
(***************************************************************************)
\* The items of a sector up to its mark, in reading.
LEMMA ReadItems ==
  ASSUME InItems, Kept, Partners, ~Writing, tool = "chusb", upc \in OfSectors, PassInv,
         SendStatus \/ SendPlace \/ SendBlockSum \/ SendBlock \/ SendMark
  PROVE  PassInv'
  <1>1. /\ UNCHANGED <<jobs, turn, tool, ts, k, buf, disk, flaws>> /\ glitched \subseteq glitched'
    BY ArrivesIs DEF SendStatus, SendPlace, SendBlockSum, SendBlock, SendMark, GoesOn, directVars, toolVars, pcVars,
           sectorVars, driveVars
  <1>2. Cmd' = Cmd /\ ~Writing' /\ Want' = Want /\ PlaceKnown' = PlaceKnown
        /\ \A p : PassedAt(ts, p)' <=> PassedAt(ts, p)
    <2>1. Cmd' = Cmd
      BY <1>1 DEF Cmd
    <2> QED
      BY <1>1, <2>1 DEF Writing, BufIndex, Want, PlaceKnown, PassedAt
  <1>3. AtPlace /\ Behind /\ Known /\ AtHandRead
    BY DEF PassInv, ChusbAt
  <1>4. Behind'
    <2>1. \A p \in TS : PassedAt(ts, p) => IsRead(p, buf[Linear(p)])
      BY <1>3 DEF Behind
    <2>2. \A p \in TS : PassedAt(ts, p) => IsRead(p, buf[Linear(p)])'
      BY <1>1, <1>2, <2>1 DEF IsRead
    <2> QED
      BY <1>2, <2>2 DEF Behind
  <1>5. "status" \in ItemSet /\ (upc \in SectorPlaces => upc \in ItemSet)
    BY ItemsAre DEF ItemSet, InItems
  <1>6. CASE SendStatus
    <2>1. upc = "status" /\ ts # EndTS /\ upc' = "place" /\ cpc' = "place"
      BY <1>6, ThenAre DEF SendStatus, Meet, GoesOn
    <2>2. AtPlace'
      BY <1>1, <1>2, <1>3, <2>1 DEF AtPlace
    <2>3. Known' /\ AtHandRead'
      BY <1>2, <2>1 DEF Known, PlaceKnown, AtHandRead
    <2> QED
      BY <1>2, <1>4, <2>2, <2>3 DEF PassInv
  <1>7. CASE SendPlace
    <2>1. upc = "place" /\ upc' = "rblock" /\ cpc' = "seek"
      BY <1>7, ThenAre DEF SendPlace, Meet, GoesOn
    <2>2. cts' \in TS /\ (cts' = ts \/ "place" \in glitched')
      BY <1>7, ArrivesIs DEF SendPlace
    <2>3. AtPlace'
      BY <1>1, <1>2, <1>3, <2>1 DEF AtPlace
    <2>4. Known' /\ AtHandRead'
      BY <1>1, <1>2, <2>1, <2>2 DEF Known, AtHandRead
    <2> QED
      BY <1>2, <1>4, <2>3, <2>4 DEF PassInv
  <1>8. CASE SendBlockSum
    <2>1. upc = "bsum" /\ upc' = Then("bsum") /\ cpc' = upc' /\ UNCHANGED <<cts, block, checkcalc>>
          /\ (mychecksum' = BlockSum(Want) \/ "bsum" \in glitched')
      BY <1>8, ArrivesIs DEF SendBlockSum, Meet, GoesOn, sectorVars, Want
    <2>2. Cmd.kernal /\ upc' = "mark"
      BY <1>5, <2>1, ThenAre DEF SectorPlaces
    <2>3. AtPlace'
      BY <1>1, <1>2, <1>3, <2>1 DEF AtPlace
    <2>4. Known'
      BY <1>1, <1>2, <1>3, <2>1, <2>2 DEF Known, PlaceKnown, OfSectors
    <2>5. AtHandRead'
      BY <1>1, <1>2, <1>3, <2>1, <2>2 DEF AtHandRead
    <2> QED
      BY <1>2, <1>4, <2>3, <2>4, <2>5 DEF PassInv
  <1>9. CASE SendBlock
    <2>1. upc = "block"
      BY <1>9 DEF SendBlock, Meet
    <2> QED
      BY <1>5, <2>1, ThenAre DEF SectorPlaces
  <1>10. CASE SendMark
    <2>1. upc = "mark" /\ upc' = "sack" /\ cpc' \notin {"ack", "keyboard"}
          /\ UNCHANGED <<cts, block, mychecksum, checkcalc, glitched>>
      BY <1>10 DEF SendMark, Meet, GoesOn, sumVars
    <2>2. AtPlace'
      BY <1>1, <1>2, <1>3, <2>1 DEF AtPlace
    <2>3. Known'
      BY <1>1, <1>2, <1>3, <2>1 DEF Known, PlaceKnown, OfSectors
    <2>4. AtHandRead'
      BY <1>1, <1>2, <1>3, <2>1 DEF AtHandRead
    <2> QED
      BY <1>2, <1>4, <2>2, <2>3, <2>4 DEF PassInv
  <1> QED
    BY <1>6, <1>7, <1>8, <1>9, <1>10

\* What the drive gives, and the last look at it.
LEMMA ReadDrive ==
  ASSUME Kept, Partners, ~Writing, tool = "chusb", upc \in OfSectors, PassInv,
         NoDrive \/ UserTypes \/ \E b \in BOOLEAN : ReadSector(b) \/ CheckKey(b)
  PROVE  PassInv'
  <1>1. /\ UNCHANGED <<jobs, turn, tool, upc, ts, k, buf, cts, disk, glitched, mychecksum, checkcalc>>
        /\ flaws' \in {flaws, flaws + 1}
    BY DEF ReadSector, CheckKey, NoDrive, UserTypes, Drive, Compared, ServerStep, directVars, toolVars,
           pcVars, sectorVars, sumVars
  <1>2. Cmd' = Cmd /\ ~Writing' /\ Want' = Want /\ PlaceKnown' = PlaceKnown
        /\ \A p : PassedAt(ts, p)' <=> PassedAt(ts, p)
    <2>1. Cmd' = Cmd
      BY <1>1 DEF Cmd
    <2> QED
      BY <1>1, <2>1 DEF Writing, BufIndex, Want, PlaceKnown, PassedAt
  <1>3. AtPlace /\ Behind /\ Known /\ AtHandRead
    BY DEF PassInv, ChusbAt
  <1>4. Behind'
    <2>1. \A p \in TS : PassedAt(ts, p) => IsRead(p, buf[Linear(p)])
      BY <1>3 DEF Behind
    <2>2. flaws > 0 => flaws' > 0
      BY <1>1 DEF Kept
    <2>3. \A p \in TS : PassedAt(ts, p) => IsRead(p, buf[Linear(p)])'
      BY <1>1, <1>2, <2>1, <2>2 DEF IsRead
    <2> QED
      BY <1>2, <2>3 DEF Behind
  <1>5. AtPlace' /\ Known'
    BY <1>1, <1>2, <1>3 DEF AtPlace, Known
  <1>6. ASSUME NEW b \in BOOLEAN, ReadSector(b) PROVE AtHandRead'
    <2>1. cpc = "seek" /\ upc = "rblock" /\ cpc' = "rblock"
      BY <1>6 DEF ReadSector, Partners, ChusbAt
    <2>2. block' = disk[cts] \/ (block' = Flaw /\ flaws' > 0)
      BY <1>6 DEF ReadSector, Drive, Kept
    <2> QED
      BY <1>1, <2>1, <2>2 DEF AtHandRead
  <1>7. ASSUME NEW b \in BOOLEAN, CheckKey(b) PROVE AtHandRead'
    <2>1. cpc = "key" /\ UNCHANGED <<block, flaws>>
          /\ (cpc' = "nak" \/ (cpc' = "ack" /\ (Cmd.kernal => mychecksum = checkcalc)))
      BY <1>7 DEF CheckKey, sectorVars, SumIsWrong
    <2> QED
      BY <1>1, <1>2, <1>3, <2>1 DEF AtHandRead
  <1>8. ASSUME NoDrive PROVE AtHandRead'
    <2>1. cpc = "seek" /\ upc = "rblock" /\ cpc' = "keyboard" /\ flaws' = flaws + 1
      BY <1>8 DEF NoDrive, Drive, Partners, ChusbAt, OfSectors
    <2>2. flaws' > 0
      BY <2>1 DEF Kept
    <2> QED
      BY <1>1, <2>1, <2>2 DEF AtHandRead
  <1>9. ASSUME UserTypes PROVE AtHandRead'
    <2>1. cpc = "keyboard" /\ upc = "rblock" /\ cpc' = "rblock" /\ block' = Flaw /\ flaws' = flaws
      BY <1>9 DEF UserTypes, Partners, ChusbAt, OfSectors
    <2>2. flaws' > 0
      BY <1>3, <2>1 DEF AtHandRead
    <2> QED
      BY <1>1, <2>1, <2>2 DEF AtHandRead
  <1> QED
    BY <1>2, <1>4, <1>5, <1>6, <1>7, <1>8, <1>9 DEF PassInv

\* The block goes to its place in the image.
LEMMA ReadBlock ==
  ASSUME InItems, Kept, tool = "chusb", upc \in OfSectors, PassInv, TakeBlock,
         ~Writing, buf = [i \in 0 .. Cardinality(TS) - 1 |-> buf[i]]
  PROVE  PassInv' /\ buf' = [i \in 0 .. Cardinality(TS) - 1 |-> buf'[i]]
  <1>1. /\ UNCHANGED <<jobs, turn, tool, ts, k, cts, block, disk, flaws>> /\ glitched \subseteq glitched'
        /\ upc = "rblock" /\ cpc = "rblock" /\ upc' = Then("rblock") /\ cpc' = upc' /\ checkcalc' = BlockSum(block)
        /\ \E b : (b = block \/ "rblock" \in glitched') /\ buf' = [buf EXCEPT ![BufIndex(ts)] = b]
    BY ArrivesIs DEF TakeBlock, Meet, GoesOn, directVars, toolVars, sectorVars, driveVars
  <1>2. Cmd' = Cmd /\ ~Writing' /\ PlaceKnown' = PlaceKnown /\ BufIndex(ts)' = BufIndex(ts)
        /\ \A p : PassedAt(ts, p)' <=> PassedAt(ts, p)
    <2>1. Cmd' = Cmd
      BY <1>1 DEF Cmd
    <2> QED
      BY <1>1, <2>1 DEF Writing, BufIndex, PlaceKnown, PassedAt
  <1>3. AtPlace /\ Behind /\ Known /\ AtHandRead /\ ts \in TS
    BY <1>1 DEF PassInv, ChusbAt, AtPlace
  <1>4. BufIndex(ts) = Linear(ts) /\ Linear(ts) \in 0 .. Cardinality(TS) - 1
    BY <1>3, Capacity DEF AtPlace, BufIndex
  <1>5. PICK b : (b = block \/ "rblock" \in glitched') /\ buf' = [buf EXCEPT ![Linear(ts)] = b]
    BY <1>1, <1>4
  <1>6. buf'[Linear(ts)] = b
    BY <1>4, <1>5
  <1>7. \A i \in 0 .. Cardinality(TS) - 1 : i # Linear(ts) => buf'[i] = buf[i]
    BY <1>5
  <1>8. Want' = b
    BY <1>1, <1>2, <1>4, <1>6 DEF Want
  <1>9. upc' = IF Cmd.kernal THEN "bsum" ELSE "mark"
    BY <1>1, ThenAre
  <1>10. AtPlace'
    BY <1>1, <1>2, <1>3 DEF AtPlace
  <1>11. Behind'
    <2>1. ASSUME NEW p \in TS, PassedAt(ts, p) PROVE IsRead(p, buf[Linear(p)])'
      <3>1. p # ts
        BY <1>3, <2>1, Geometry DEF PassedAt
      <3>2. buf'[Linear(p)] = buf[Linear(p)]
        BY <1>3, <1>7, <3>1, Capacity, LinearGrows
      <3>3. IsRead(p, buf[Linear(p)])
        BY <1>3, <2>1 DEF Behind
      <3> QED
        BY <1>1, <1>2, <3>2, <3>3 DEF IsRead
    <2> QED
      BY <1>2, <2>1 DEF Behind
  <1>12. Known'
    BY <1>1, <1>2, <1>3, <1>9 DEF Known, PlaceKnown, OfSectors
  <1>13. AtHandRead'
    BY <1>1, <1>2, <1>3, <1>5, <1>8, <1>9 DEF AtHandRead
  <1>14. buf' = [i \in 0 .. Cardinality(TS) - 1 |-> buf'[i]]
    BY <1>5
  <1> QED
    BY <1>2, <1>10, <1>11, <1>12, <1>13, <1>14 DEF PassInv

-----------------------------------------------------------------------------
(***************************************************************************)
(* From one sector to the next.                                            *)
(***************************************************************************)
\* An acknowledged sector is done.
LEMMA AckedWritten ==
  ASSUME Kept, Writing, tool = "chusb", upc = "sack", PassInv, buf = Cmd.data, cpc = "ack" \/ "ack" \in glitched,
         ts \in TS, AtPlace
  PROVE  IsWritten(ts)
  <1>1. AtHandWrite /\ Known /\ BufIndex(ts) = Linear(ts)
    BY DEF PassInv, ChusbAt, OfSectors, AtPlace, BufIndex
  <1>2. CASE "ack" \in glitched
    BY <1>2 DEF IsWritten
  <1>3. CASE cpc = "ack"
    <2>1. /\ Cmd.kernal => mychecksum = checkcalc /\ ("bsum" \in glitched \/ mychecksum = BlockSum(Want))
          /\ checkcalc = BlockSum(block) /\ ("block" \in glitched \/ block = Want)
          /\ disk[cts] = block \/ mark[ts] = "E" \/ (~Cmd.verify /\ flaws > 0)
      BY <1>1, <1>3 DEF AtHandWrite
    <2>2. "place" \in glitched \/ cts = ts
      BY <1>1 DEF Known, PlaceKnown, OfSectors
    <2>3. Want = Cmd.data[Linear(ts)]
      BY <1>1 DEF Want
    <2>4. ASSUME glitched = {}
          PROVE  disk[ts] = Want \/ mark[ts] = "E" \/ (~Cmd.verify /\ flaws > 0)
      BY <2>1, <2>2, <2>4
    <2>5. ASSUME Cmd.kernal, glitched \subseteq {"block"} \/ glitched \subseteq {"bsum"}
          PROVE  BlockSum(disk[ts]) = BlockSum(Want) \/ mark[ts] = "E" \/ (~Cmd.verify /\ flaws > 0)
      <3>1. cts = ts
        BY <2>2, <2>5
      <3>2. BlockSum(block) = BlockSum(Want)
        BY <2>1, <2>5
      <3> QED
        BY <2>1, <3>1, <3>2
    <2> QED
      BY <2>3, <2>4, <2>5 DEF IsWritten
  <1> QED
    BY <1>2, <1>3

\* So is one that was read.
LEMMA AckedRead ==
  ASSUME Kept, ~Writing, tool = "chusb", upc = "sack", PassInv, cpc = "ack" \/ "ack" \in glitched,
         ts \in TS, AtPlace
  PROVE  IsRead(ts, buf[Linear(ts)])
  <1>1. AtHandRead /\ Known /\ BufIndex(ts) = Linear(ts)
    BY DEF PassInv, ChusbAt, OfSectors, AtPlace, BufIndex
  <1>2. CASE "ack" \in glitched
    BY <1>2 DEF IsRead
  <1>3. CASE cpc = "ack"
    <2>1. /\ Cmd.kernal => mychecksum = checkcalc /\ ("bsum" \in glitched \/ mychecksum = BlockSum(Want))
          /\ checkcalc = BlockSum(block) /\ ("rblock" \in glitched \/ block = Want)
          /\ block = disk[cts] \/ (block = Flaw /\ flaws > 0)
      BY <1>1, <1>3 DEF AtHandRead
    <2>2. "place" \in glitched \/ cts = ts
      BY <1>1 DEF Known, PlaceKnown, OfSectors
    <2>3. Want = buf[Linear(ts)]
      BY <1>1 DEF Want
    <2>4. ASSUME glitched = {}
          PROVE  Want = disk[ts] \/ (flaws > 0 /\ Want = Flaw)
      BY <2>1, <2>2, <2>4
    <2>5. ASSUME Cmd.kernal, glitched \subseteq {"rblock"} \/ glitched \subseteq {"bsum"}
          PROVE  BlockSum(Want) = BlockSum(disk[ts]) \/ flaws > 0
      <3>1. cts = ts
        BY <2>2, <2>5
      <3>2. BlockSum(block) = BlockSum(Want)
        BY <2>1, <2>5
      <3> QED
        BY <2>1, <3>1, <3>2
    <2> QED
      BY <2>3, <2>4, <2>5 DEF IsRead
  <1> QED
    BY <1>2, <1>3

\* The answer sends chusb to the next sector, or ends it.
LEMMA AckStep ==
  ASSUME Kept, tool = "chusb", upc \in OfSectors, PassInv, DoneInv, Cmd.cmd \in {"write", "read"},
         NEW c \in {"ack", "nak"}, NEW a \in {0, 255}, SectorAck(c, a)
  PROVE  PassInv' /\ DoneInv'
  <1>1. /\ UNCHANGED <<jobs, turn, buf, written, disk, mark, flaws, cts, block>> /\ glitched \subseteq glitched'
        /\ upc = "sack" /\ cpc = c /\ (a = Answer(c) \/ "ack" \in glitched')
    BY ArrivesIs DEF SectorAck, Meet, GoesOn, Exits, directVars, toolVars, sectorVars, driveVars
  <1>2. Cmd' = Cmd /\ (Writing' <=> Writing) /\ \A q, p : PassedAt(q, p)' <=> PassedAt(q', p)
    <2>1. Cmd' = Cmd
      BY <1>1 DEF Cmd
    <2> QED
      BY <1>1, <2>1 DEF Writing, PassedAt
  <1>3. AtPlace /\ Behind /\ ts \in TS
    BY <1>1 DEF PassInv, ChusbAt, AtPlace
  <1>4. CASE a # 255
    <2>1. tool' = "failed" /\ written' = {}
      BY <1>1, <1>4 DEF SectorAck, Exits, DoneInv
    <2> QED
      BY <2>1 DEF PassInv, ChusbAt, DoneInv
  <1>5. CASE a = 255
    <2>1. tool' = tool /\ upc' = "status" /\ ts' = After(ts) /\ k' = k + 1
      BY <1>5 DEF SectorAck, GoesOn, directVars, toolVars
    <2>2. DoneInv'
      BY <1>1, <1>2, <2>1 DEF DoneInv
    <2>3. cpc = "ack" \/ "ack" \in glitched'
      BY <1>1, <1>5 DEF Answer
    <2>4. After(ts) \in TS \cup {EndTS} /\ (Cmd.kernal /\ After(ts) \in TS => Linear(After(ts)) = Linear(ts) + 1)
          /\ \A p \in TS : PassedAt(After(ts), p) => p = ts \/ PassedAt(ts, p)
      BY <1>3, NextSector
    <2>5. AtPlace'
      BY <1>2, <1>3, <2>1, <2>4 DEF AtPlace
    <2>6. Known'
      BY <2>1 DEF Known, PlaceKnown, OfSectors
    <2>7. \A p : PassedAt(ts, p)' <=> PassedAt(After(ts), p)
      BY <1>2, <2>1 DEF PassedAt
    <2>8. CASE Writing
      <3>1. IsWritten(ts) \/ "ack" \in glitched'
        BY <1>3, <2>3, <2>8, <1>1, AckedWritten DEF DoneInv
      <3>2. ASSUME NEW p \in TS, PassedAt(After(ts), p) PROVE IsWritten(p)'
        <4>1. CASE "ack" \in glitched'
          BY <4>1 DEF IsWritten
        <4>2. CASE IsWritten(ts)
          <5>1. IsWritten(p)
            BY <1>3, <2>4, <2>8, <3>2, <4>2 DEF Behind
          <5> QED
            BY <1>1, <5>1, StillWritten
        <4> QED
          BY <3>1, <4>1, <4>2
      <3>3. AtHandWrite'
        BY <2>1 DEF AtHandWrite
      <3>4. Behind'
        BY <1>2, <2>7, <2>8, <3>2 DEF Behind
      <3> QED
        BY <1>2, <2>2, <2>5, <2>6, <2>8, <3>3, <3>4 DEF PassInv
    <2>9. CASE ~Writing
      <3>1. IsRead(ts, buf[Linear(ts)]) \/ "ack" \in glitched'
        BY <1>1, <1>3, <2>3, <2>9, AckedRead
      <3>2. ASSUME NEW p \in TS, PassedAt(After(ts), p) PROVE IsRead(p, buf[Linear(p)])'
        <4>1. CASE "ack" \in glitched'
          BY <4>1 DEF IsRead
        <4>2. CASE IsRead(ts, buf[Linear(ts)])
          <5>1. IsRead(p, buf[Linear(p)])
            BY <1>3, <2>4, <2>9, <3>2, <4>2 DEF Behind
          <5> QED
            BY <1>1, <1>2, <5>1 DEF IsRead
        <4> QED
          BY <3>1, <4>1, <4>2
      <3>3. AtHandRead'
        <4>1. cpc' \notin {"rblock", "keyboard"}
          BY DEF SectorAck
        <4> QED
          BY <2>1, <4>1 DEF AtHandRead
      <3>4. Behind'
        BY <1>2, <2>7, <2>9, <3>2 DEF Behind
      <3> QED
        BY <1>2, <2>2, <2>5, <2>6, <2>9, <3>3, <3>4 DEF PassInv
    <2> QED
      BY <2>8, <2>9
  <1> QED
    BY <1>4, <1>5

\* The end mark comes when every sector is done.
LEMMA EndStep ==
  ASSUME Kept, upc \in OfSectors, PassInv, DoneInv, NEW opens \in BOOLEAN, SendEnd(opens)
  PROVE  PassInv' /\ DoneInv'
  <1>1. /\ UNCHANGED <<jobs, turn, buf, disk, mark, flaws, glitched>> /\ tool = "chusb" /\ tool' = "ok" /\ ts = EndTS
        /\ written' \in {written, {[name |-> "image", body |-> buf]}} /\ (Writing => written' = written)
    BY DEF SendEnd, Meet, Exits, sectorVars, driveVars
  <1>2. Cmd' = Cmd /\ (Writing' <=> Writing)
    BY <1>1 DEF Cmd, Writing
  <1>3. Behind /\ written = {}
    BY <1>1 DEF PassInv, DoneInv, ChusbAt
  <1>4. \A p : PassedAt(ts, p)
    BY <1>1 DEF PassedAt
  <1>5. CASE Writing
    <2>1. \A p \in TS : IsWritten(p)'
      BY <1>1, <1>3, <1>4, <1>5, StillWritten DEF Behind
    <2> QED
      BY <1>1, <1>2, <1>5, <2>1 DEF PassInv, ChusbAt, DoneInv
  <1>6. CASE ~Writing
    <2>1. \A p \in TS : IsRead(p, buf[Linear(p)])
      BY <1>3, <1>4, <1>6 DEF Behind
    <2>2. \A w \in written' : w.body = buf
      BY <1>1, <1>3
    <2>3. \A w \in written', p \in TS : IsRead(p, w.body[Linear(p)])
      BY <2>1, <2>2
    <2>4. (\A w \in written, p \in TS : IsRead(p, w.body[Linear(p)]))'
      BY <1>1, <1>2, <2>3 DEF IsRead
    <2> QED
      BY <1>1, <1>2, <1>6, <2>4 DEF PassInv, ChusbAt, DoneInv
  <1> QED
    BY <1>5, <1>6

\* At the beginning nothing is behind.
LEMMA ModeStep ==
  ASSUME DoneInv, tool = "chusb", SendMode
  PROVE  PassInv' /\ DoneInv'
  <1>1. /\ UNCHANGED <<jobs, turn, tool, buf, written>> /\ upc' = "status" /\ cpc' = "status"
        /\ ts' = FirstOf(1) /\ k' = 0
    BY DEF SendMode, GoesOn, directVars, toolVars
  <1>2. Cmd' = Cmd /\ (Writing' <=> Writing)
    BY <1>1 DEF Cmd, Writing
  <1>3. DoneInv'
    BY <1>1, <1>2 DEF DoneInv
  <1>4. AtPlace'
    BY <1>1, <1>2, OrderOfSectors DEF AtPlace
  <1>5. \A p : PassedAt(ts, p)' <=> PassedAt(FirstOf(1), p)
    BY <1>1, <1>2 DEF PassedAt
  <1>6. Behind'
    BY <1>5, OrderOfSectors DEF Behind
  <1>7. Known' /\ AtHandWrite' /\ AtHandRead'
    BY <1>1 DEF Known, PlaceKnown, OfSectors, AtHandWrite, AtHandRead
  <1> QED
    BY <1>3, <1>4, <1>6, <1>7 DEF PassInv

\* What has nothing to do with sectors.
LEMMA SectorsAside ==
  ASSUME PassInv, DoneInv, UNCHANGED <<jobs, turn, tool, k, ts, buf, written, disk, mark, flaws, glitched>>,
         \/ /\ UNCHANGED <<upc, cts, block, retries, mychecksum, checkcalc>>
            /\ cpc' \in {cpc, "menu"}
         \/ upc' \notin OfSectors
  PROVE  PassInv' /\ DoneInv'
  <1>1. Cmd' = Cmd /\ (Writing' <=> Writing)
    BY DEF Cmd, Writing
  <1>2. DoneInv'
    BY <1>1 DEF DoneInv, IsWritten, IsRead
  <1>3. CASE upc' \notin OfSectors
    BY <1>2, <1>3 DEF PassInv, ChusbAt
  <1>4. CASE UNCHANGED <<upc, cts, block, retries, mychecksum, checkcalc>> /\ cpc' \in {cpc, "menu"}
    <2> SUFFICES ASSUME ChusbAt(OfSectors) PROVE PassInv'
      BY <1>2, <1>4 DEF PassInv, ChusbAt
    <2>1. AtPlace /\ Behind /\ Known
      BY DEF PassInv
    <2>2. AtPlace'
      BY <1>1, <1>4, <2>1 DEF AtPlace
    <2>3. Behind'
      BY <1>1, <2>1 DEF Behind, PassedAt, IsWritten, IsRead
    <2>4. Known'
      BY <1>1, <1>4, <2>1 DEF Known, PlaceKnown
    <2>5. Want' = Want
      BY <1>1 DEF Want, BufIndex
    <2>6. AtHandWrite => AtHandWrite'
      BY <1>1, <1>4, <2>5 DEF AtHandWrite
    <2>7. AtHandRead => AtHandRead'
      BY <1>1, <1>4, <2>5 DEF AtHandRead
    <2> QED
      BY <1>1, <2>2, <2>3, <2>4, <2>6, <2>7 DEF PassInv
  <1> QED
    BY <1>3, <1>4

\* One step of a disk command, of both sides together.
LEMMA SectorStep ==
  ASSUME ServerInv, InItems, PassInv, DoneInv, Sectoring, Sector
  PROVE  PassInv' /\ DoneInv'
  <1>1. /\ tool = "chusb" /\ upc \in OfSectors \cup {"mode"} /\ Cmd.cmd \in {"write", "read"}
        /\ UNCHANGED <<jobs, turn>>
    BY MatchedSector DEF ServerInv, Matched
  <1>2. CASE SendMode
    BY <1>1, <1>2, ModeStep
  <1>3. ASSUME NEW opens \in BOOLEAN, SendEnd(opens) PROVE PassInv' /\ DoneInv'
    <2>1. upc \in OfSectors
      BY <1>3 DEF SendEnd, Meet, OfSectors
    <2> QED
      BY <1>3, <2>1, EndStep DEF ServerInv
  <1>4. ASSUME NEW c \in {"ack", "nak"}, NEW a \in {0, 255}, SectorAck(c, a) PROVE PassInv' /\ DoneInv'
    <2>1. upc \in OfSectors
      BY <1>4 DEF SectorAck, Meet, OfSectors
    <2> QED
      BY <1>1, <1>4, <2>1, AckStep DEF ServerInv
  <1>5. CASE TakeBlock
    <2>1. upc = "rblock"
      BY <1>5 DEF TakeBlock, Meet
    <2>2. ~Writing
      BY <1>1, <2>1, ThenAre DEF InItems, SectorPlaces
    <2>3. PassInv' /\ buf' = [i \in 0 .. Cardinality(TS) - 1 |-> buf'[i]]
      BY <1>1, <1>5, <2>1, <2>2, ReadBlock DEF ServerInv, DoneInv, OfSectors
    <2>4. UNCHANGED <<tool, written>>
      BY <1>5 DEF TakeBlock, GoesOn, directVars, toolVars
    <2>5. Cmd' = Cmd
      BY <1>1 DEF Cmd
    <2>6. DoneInv'
      BY <1>1, <2>2, <2>3, <2>4, <2>5 DEF DoneInv, Writing
    <2> QED
      BY <2>3, <2>6
  <1>6. CASE SendStatus \/ SendPlace \/ SendBlockSum \/ SendBlock \/ SendMark
    <2>1. upc \in OfSectors /\ UNCHANGED <<tool, written, buf>>
      BY <1>6 DEF SendStatus, SendPlace, SendBlockSum, SendBlock, SendMark, Meet, GoesOn, directVars, toolVars, pcVars,
                  OfSectors
    <2>2. PassInv'
      BY <1>1, <1>6, <2>1, WriteItems, ReadItems DEF ServerInv
    <2>3. Cmd' = Cmd
      BY <1>1 DEF Cmd
    <2>4. DoneInv'
      BY <1>1, <2>1, <2>3 DEF DoneInv, Writing
    <2> QED
      BY <2>2, <2>4
  <1> QED
    BY <1>2, <1>3, <1>4, <1>5, <1>6 DEF Sector

\* One step of the server alone.
LEMMA SectorAlone ==
  ASSUME ServerInv, PassInv, DoneInv, \/ \E b \in BOOLEAN : StoreSector(b) \/ ReadSector(b) \/ CheckKey(b)
                                      \/ VerifySector
                                      \/ (NoDrive \/ UserTypes) /\ Cmd.cmd \in {"write", "read"}
  PROVE  PassInv' /\ DoneInv'
  <1>1. UNCHANGED <<jobs, turn, tool, upc, k, buf, written>>
    BY DEF StoreSector, ReadSector, CheckKey, VerifySector, NoDrive, UserTypes, ServerStep, directVars, toolVars,
           pcVars
  <1>0. PICK b \in BOOLEAN : StoreSector(b) \/ ReadSector(b) \/ CheckKey(b) \/ VerifySector \/ NoDrive \/ UserTypes
    <2>1. TRUE \in BOOLEAN
      OBVIOUS
    <2> QED
      BY <2>1, Zenon
  <1>2. cpc \in {"store", "verify", "key", "seek", "keyboard", "xopen"}
        /\ (cpc \in {"keyboard", "xopen"} => Cmd.cmd \in {"write", "read"})
    BY DEF StoreSector, ReadSector, CheckKey, VerifySector, NoDrive, UserTypes
  <1>3. tool = "chusb" /\ upc \in {"sack", "rblock"} /\ (cpc \in {"store", "verify"} => Writing)
        /\ (cpc \in {"store", "verify", "key"} => upc = "sack") /\ (cpc = "seek" => upc = "rblock" /\ ~Writing)
        /\ (cpc = "keyboard" /\ Writing => upc = "sack") /\ cpc # "xopen"
    BY <1>2 DEF ServerInv, Partners, OwnPlace, ChusbAt, OfFetch
  <1>4. Cmd' = Cmd
    BY <1>1 DEF Cmd
  <1>5. DoneInv'
    BY <1>1, <1>3, <1>4 DEF DoneInv, Writing
  <1> SUFFICES PassInv'
    BY <1>5
  <1>6. CASE Writing
    <2>1. CASE StoreSector(b) \/ CheckKey(b) \/ VerifySector \/ NoDrive \/ UserTypes
      <3>1. upc = "sack"
        BY <1>3, <1>6, <2>1 DEF StoreSector, CheckKey, VerifySector, NoDrive, UserTypes
      <3> QED
        BY <1>3, <1>6, <2>1, <3>1, WriteSector DEF ServerInv
    <2>2. ~ReadSector(b)
      BY <1>3, <1>6 DEF ReadSector
    <2> QED
      BY <1>0, <2>1, <2>2
  <1>7. CASE ~Writing
    <2>1. CASE ReadSector(b) \/ CheckKey(b) \/ NoDrive \/ UserTypes
      BY <1>3, <1>7, <2>1, ReadDrive DEF ServerInv, OfSectors
    <2>2. CASE StoreSector(b) \/ VerifySector
      BY <1>3, <1>7, <2>2 DEF StoreSector, VerifySector
    <2> QED
      BY <1>0, <2>1, <2>2
  <1> QED
    BY <1>6, <1>7

\* Running looks at the job at hand.
LEMMA NotRunning ==
  ASSUME UNCHANGED <<jobs, turn>>, NEW c, Cmd.cmd # c \/ ~Running(c), tool # "none"
  PROVE  ~Running(c)'
  BY DEF Running, Cmd

\* Every step of the system keeps what is known of the disk.
LEMMA SectorInvStep ==
  ASSUME AtWork, InItems, ServerInv, SectorInv, [Next]_vars
  PROVE  SectorInv'
  <1>m. Matched /\ Kept
    BY DEF ServerInv, Matched
  <1>n. ASSUME UNCHANGED <<jobs, turn>>, tool # "none", Cmd.cmd \notin {"write", "read"} PROVE ~Sectoring'
    BY <1>n, NotRunning DEF Sectoring
  <1>s. ASSUME UNCHANGED <<jobs, turn>>, tool # "none", PassInv /\ DoneInv => PassInv' /\ DoneInv' PROVE SectorInv'
    <2>1. Sectoring' => Sectoring
      BY <1>s DEF Sectoring, Running, Cmd
    <2> QED
      BY <1>s, <2>1 DEF SectorInv
  <1>0. CASE UNCHANGED vars
    <2>1. UNCHANGED <<jobs, turn, tool, upc, cpc, k, ts, buf, written, disk, mark, flaws, glitched, cts, block, retries,
                      mychecksum, checkcalc>>
      BY <1>0 DEF vars, usbVars, directVars, toolVars, pcVars, serverVars, sectorVars, sumVars, driveVars
    <2>2. CASE tool = "none"
      BY <2>1, <2>2 DEF SectorInv, Sectoring, Running
    <2> QED
      BY <1>s, <2>1, <2>2, SectorsAside
  <1>1. CASE CodenetNext /\ UNCHANGED usbVars
    BY <1>m, <1>1, PlacesCodenet DEF SectorInv, Matched
  <1>2. CASE (BasicNext /\ UNCHANGED usbVars) \/ ServerStarts \/ UserContinues \/ UserResets
    <2>1. Idle
      BY <1>m, <1>2, PlacesIdle
    <2>2. UNCHANGED <<jobs, turn, tool, upc, k, ts, buf, written, disk, mark, flaws, glitched, cts, block, retries,
                      mychecksum, checkcalc>> /\ cpc' \in {cpc, "menu"}
      BY <2>1 DEF Idle, sectorVars, sumVars, driveVars
    <2>3. CASE tool = "none"
      BY <2>2, <2>3 DEF SectorInv, Sectoring, Running
    <2> QED
      BY <1>s, <2>2, <2>3, SectorsAside
  <1>3. CASE Quit \/ Walk \/ Send
    <2>1. UNCHANGED <<jobs, turn>> /\ tool = "chusb" /\ upc \in OfCopy \cup Starting
      BY <1>3 DEF Quit, Exits, Walk, WalkNext, DirectorySector, LastEntry, SkipEntry, FirstSector, LoopFound, Overrun,
                  Remember, IllegalLink, ChainSector, Send, CheckServer, StartNoAck, Meet, GoesOn, DmaDone,
                  directVars, toolVars, OfCopy, Starting
    <2>2. Cmd.cmd \in {"copy", "dir"} \cup Sending
      BY <1>m, <2>1 DEF Matched, OwnPlace, AtWork
    <2> QED
      BY <1>n, <2>1, <2>2 DEF SectorInv, Sending
  <1>4. CASE Copy
    <2>1. Cmd.cmd \in {"copy", "dir"}
      BY <1>m, <1>4, PlacesCopy
    <2>2. UNCHANGED <<jobs, turn>> /\ tool = "chusb"
      BY <1>4 DEF Copy, SendType, EndMark, SendName, SendLen, SendSum, SendData, Swallow, FileAck, Meet, GoesOn, Exits,
           directVars, toolVars
    <2> QED
      BY <1>n, <2>1, <2>2 DEF SectorInv
  <1>5. CASE StartCommand \/ Command
    <2>1. /\ UNCHANGED <<jobs, turn, tool, k, ts, buf, written, glitched>> /\ Steady
          /\ tool = "chusb" /\ upc' \notin OfSectors
      BY <1>m, <1>5, PlacesCommand
    <2> QED
      BY <1>s, <2>1, SectorsAside DEF Steady
  <1>6. CASE Sector
    <2>1. /\ tool = "chusb" /\ UNCHANGED <<jobs, turn>>
      BY <1>m, <1>6, MatchedSector
    <2>2. CASE Sectoring
      BY <1>s, <1>6, <2>1, <2>2, SectorStep
    <2>3. CASE ~Sectoring
      <3>1. ~Sectoring'
        BY <2>1, <2>3 DEF Sectoring, Running, Cmd
      <3> QED
        BY <3>1 DEF SectorInv
    <2> QED
      BY <2>2, <2>3
  <1>7. CASE Other
    <2>1. Cmd.cmd \in {"fetch", "format", "test"} /\ UNCHANGED <<jobs, turn>> /\ tool = "chusb"
      BY <1>m, <1>7, MatchedOther
    <2> QED
      BY <1>n, <2>1 DEF SectorInv
  <1>8. CASE ServerAlone \/ Browse \/ UserTypes
    <2>1. /\ UNCHANGED <<jobs, turn>> /\ tool = "chusb"
          /\ OpenFile \/ (\E taken, stop \in BOOLEAN : CloseFile(taken, stop)) => Cmd.cmd \in {"copy", "dir"}
          /\ FormatDisk => Cmd.cmd = "format"
          /\ Browse => Cmd.cmd = "fetch"
          /\ UserTypes => Cmd.cmd \in {"write", "read"}
      BY <1>m, <1>8, MatchedAlone
    <2>2. CASE OpenFile \/ (\E taken, stop \in BOOLEAN : CloseFile(taken, stop)) \/ FormatDisk \/ Browse
      BY <1>n, <2>1, <2>2 DEF SectorInv
    <2>3. CASE (\E b \in BOOLEAN : StoreSector(b) \/ ReadSector(b) \/ CheckKey(b)) \/ VerifySector
      BY <1>s, <2>1, <2>3, SectorAlone
    <2>4. CASE (NoDrive \/ UserTypes) /\ Cmd.cmd \in {"write", "read"}
      BY <1>s, <2>1, <2>4, SectorAlone
    <2>5. CASE NoDrive /\ Cmd.cmd \notin {"write", "read"}
      BY <1>n, <2>1, <2>5 DEF SectorInv
    <2> QED
      BY <1>8, <2>1, <2>2, <2>3, <2>4, <2>5 DEF ServerAlone
  <1>9. ASSUME NEW there \in BOOLEAN, StartChusb(there) PROVE SectorInv'
    <2>1. /\ written' = {} /\ k' = 0
          /\ tool' = "chusb" => upc' \in {"directory", "check", "sync"}
          /\ buf' = IF Writing' THEN Cmd'.data ELSE NoImage
      BY <1>m, <1>9, MatchedStart
    <2>2. PassInv'
      BY <2>1 DEF PassInv, ChusbAt, OfSectors
    <2>3. NoImage = [i \in 0 .. Cardinality(TS) - 1 |-> NoImage[i]]
      BY DEF NoImage
    <2>4. DoneInv'
      BY <2>1, <2>3 DEF DoneInv
    <2> QED
      BY <2>2, <2>4 DEF SectorInv
  <1> QED
    BY <1>0, <1>1, <1>2, <1>3, <1>4, <1>5, <1>6, <1>7, <1>8, <1>9 DEF Next, Program, C64, User

-----------------------------------------------------------------------------
(***************************************************************************)
(* Files that are fetched.                                                 *)
(***************************************************************************)
\* The bytes of a file go over one by one.
LEMMA OneMore ==
  ASSUME NEW f \in Seq(Bytes), NEW d \in Seq(Bytes), d # <<>>, NEW b, b = Head(d)
  PROVE  Append(f, b) \o Tail(d) = f \o d /\ Tail(d) \in Seq(Bytes) /\ b \in Bytes
         /\ Append(f, b) \in Seq(Bytes)
  <1>1. Head(d) \in Bytes /\ Tail(d) \in Seq(Bytes) /\ d = <<Head(d)>> \o Tail(d)
    OBVIOUS
  <1>2. Append(f, b) = f \o <<b>>
    BY <1>1
  <1>3. (f \o <<b>>) \o Tail(d) = f \o (<<b>> \o Tail(d))
    BY <1>1
  <1> QED
    BY <1>1, <1>2, <1>3

\* Of a file the drive fails at, what is there arrives and one more byte.
LEMMA CutHere ==
  ASSUME NEW c \in Seq(Bytes), NEW d \in Seq(Bytes), d # <<>>, NEW b \in Bytes
  PROVE  Append(c, b) \in CutShort(c \o d)
  <1>1. Len(c) \in Nat /\ Len(d) \in Nat \ {0} /\ Len(c \o d) = Len(c) + Len(d)
    OBVIOUS
  <1>2. Len(c) \in 0 .. Len(c \o d) - 1
    BY <1>1
  <1>3. SubSeq(c \o d, 1, Len(c)) = c
    <2>1. c \o d \in Seq(Bytes) /\ Len(c) <= Len(c \o d)
      BY <1>1
    <2>2. SubSeq(c \o d, 1, Len(c)) \in Seq(Bytes) /\ Len(SubSeq(c \o d, 1, Len(c))) = Len(c)
      BY <1>1, <2>1
    <2>3. \A i \in 1 .. Len(c) : SubSeq(c \o d, 1, Len(c))[i] = c[i]
      BY <1>1, <2>1
    <2> QED
      BY <2>2, <2>3
  <1> QED
    BY <1>2, <1>3 DEF CutShort

\* One step of the fetching of a file.
LEMMA FetchOther ==
  ASSUME ServerInv, FetchInv, Running("fetch"), Running("fetch")', Other
  PROVE  FetchInv'
  <1>1. UNCHANGED <<jobs, turn, files>> /\ tool = "chusb" /\ Cmd.cmd = "fetch"
    BY MatchedOther DEF ServerInv, Matched, Running
  <1>2. upc \in OfFetch
    BY <1>1 DEF Other, FetchFile, FetchEnd, FetchName, FetchByte, FetchMore, SendTracks, FormatAck, TestHello,
                TestProbe, TestEcho, Meet, ServerInv, OwnPlace, OfFormat, OfTest, OfFetch
  <1>3. FetchFile \/ FetchEnd \/ FetchName \/ FetchByte \/ \E opens \in BOOLEAN : FetchMore(opens)
    BY <1>2 DEF Other, SendTracks, FormatAck, TestHello, TestProbe, TestEcho, Meet, OfFetch
  <1>4. /\ \A w \in written : glitched = {} => \E f \in files : IsFetched(w, f)
        /\ \A w, f : IsFetched(w, f) => IsFetched(w, f)'
        /\ flaws > 0 => flaws' > 0
    <2>1. flaws' \in {flaws, flaws + 1} /\ flaws \in Nat
      BY MatchedOther DEF ServerInv, Matched, Kept
    <2>2. flaws > 0 => flaws' > 0
      BY <2>1
    <2> QED
      BY <2>2 DEF FetchInv, IsFetched
  <1>5. \A f \in files : f.body \in Seq(Bytes) \ {<<>>}
    BY DEF ServerInv, Kept
  <1>6. CASE FetchFile
    <2>1. /\ upc' = "xname" /\ cpc' = "xname" /\ cpc = "xstart"
          /\ UNCHANGED <<fname, fdata, filebuf, pname, written, glitched, tool>>
      BY <1>6 DEF FetchFile, Meet, GoesOn, directVars, toolVars, walkVars, pcVars, fileVars
    <2>2. Taken(<<>>) /\ fdata # <<>> /\ fdata \in Seq(Bytes)
      BY <1>1, <2>1 DEF FetchInv
    <2>3. Taken(<<>>)'
      BY <1>1, <2>1, <2>2 DEF Taken
    <2> QED
      BY <1>1, <1>4, <2>1, <2>2, <2>3 DEF FetchInv
  <1>7. CASE FetchEnd
    <2>1. UNCHANGED <<written, glitched>> /\ tool' # "chusb"
      BY <1>7 DEF FetchEnd, Exits, pcVars
    <2> QED
      BY <1>1, <1>4, <2>1 DEF FetchInv
  <1>8. CASE FetchName
    <2>1. /\ upc = "xname" /\ upc' = "xbyte" /\ cpc' = "xopen" /\ filebuf' = <<>>
          /\ UNCHANGED <<fname, fdata, written, tool>>
          /\ Arrives("xname", fname, pname')
      BY <1>8 DEF FetchName, Meet, GoesOn, directVars, toolVars, fileVars
    <2>2. Taken(<<>>) /\ fdata # <<>> /\ fdata \in Seq(Bytes)
      BY <1>1, <2>1 DEF FetchInv
    <2>3. Taken(<<>>)'
      BY <1>1, <2>1, <2>2 DEF Taken
    <2>4. glitched' = {} => glitched = {} /\ pname' = fname'
      BY <2>1 DEF Arrives
    <2>5. <<>> \in Seq(Bytes)
      OBVIOUS
    <2> QED
      BY <1>1, <1>4, <2>1, <2>2, <2>3, <2>4, <2>5 DEF FetchInv
  <1>9. CASE FetchByte
    <2>1. PICK good \in BOOLEAN, c \in Bytes, b \in Bytes :
             /\ Drive(good) /\ (good => c = Head(fdata))
             /\ Arrives("xbyte", c, b) /\ filebuf' = Append(filebuf, b)
             /\ fdata' = IF good THEN Tail(fdata) ELSE <<>>
      BY <1>9 DEF FetchByte
    <2>2. /\ upc = "xbyte" /\ upc' = "xmore" /\ cpc' = "xmore"
          /\ UNCHANGED <<fname, pname, written, tool>>
      BY <1>9 DEF FetchByte, Meet, GoesOn, directVars, toolVars, pcVars
    <2>3. /\ fdata # <<>> /\ fdata \in Seq(Bytes) /\ filebuf \in Seq(Bytes)
          /\ glitched = {} => pname = fname /\ Taken(filebuf)
      BY <1>1, <2>2 DEF FetchInv
    <2>4. filebuf' \in Seq(Bytes) /\ fdata' \in Seq(Bytes)
      <3>1. <<>> \in Seq(Bytes)
        OBVIOUS
      <3> QED
        BY <2>1, <2>3, <3>1
    <2>5. ASSUME glitched' = {} PROVE pname' = fname' /\ (Taken(filebuf)' \/ CutOff') /\ glitched = {}
      <3>1. b = c /\ glitched = {}
        BY <2>1, <2>5 DEF Arrives
      <3>2. CASE good
        <4>1. Append(filebuf, b) \o Tail(fdata) = filebuf \o fdata
          BY <2>1, <2>3, <3>1, <3>2, OneMore
        <4> QED
          BY <1>1, <2>1, <2>2, <2>3, <3>1, <3>2, <4>1 DEF Taken
      <3>3. CASE ~good
        <4>1. flaws' > 0 /\ fdata' = <<>>
          BY <2>1, <3>3 DEF Drive, ServerInv, Kept
        <4>2. PICK f \in files : f.name = fname /\ f.body = filebuf \o fdata
          BY <2>3, <3>1 DEF Taken
        <4>3. filebuf' \in CutShort(f.body)
          BY <2>1, <2>3, <4>2, CutHere
        <4> QED
          BY <1>1, <2>2, <2>3, <3>1, <4>1, <4>2, <4>3 DEF CutOff
      <3> QED
        BY <3>2, <3>3
    <2> QED
      BY <1>1, <1>4, <2>2, <2>4, <2>5 DEF FetchInv
  <1>10. ASSUME NEW opens \in BOOLEAN, FetchMore(opens) PROVE FetchInv'
    <2>1. upc = "xmore" /\ UNCHANGED <<fname, fdata, filebuf, pname, glitched, tool>>
      BY <1>10 DEF FetchMore, Meet, GoesOn, directVars, toolVars, walkVars, fileVars
    <2>2. /\ fdata \in Seq(Bytes) /\ filebuf \in Seq(Bytes)
          /\ glitched = {} => pname = fname /\ (Taken(filebuf) \/ CutOff)
      BY <1>1, <2>1 DEF FetchInv
    <2>3. CASE fdata # <<>>
      <3>1. upc' = "xbyte" /\ cpc' = "xbyte" /\ written' = written
        BY <1>10, <2>3 DEF FetchMore, GoesOn
      <3>2. ~CutOff
        BY <2>3 DEF CutOff
      <3>3. Taken(filebuf) => Taken(filebuf)'
        BY <1>1, <2>1 DEF Taken
      <3> QED
        BY <1>1, <1>4, <2>1, <2>2, <2>3, <3>1, <3>2, <3>3 DEF FetchInv
    <2>4. CASE fdata = <<>>
      <3>1. /\ upc' = "xstatus" /\ cpc' = "browse"
            /\ \A w \in written' : w \in written \/ w = [name |-> Fixed[pname], body |-> filebuf]
        BY <1>10, <2>4 DEF FetchMore, GoesOn
      <3>2. filebuf \o fdata = filebuf
        BY <2>2, <2>4
      <3>3. ASSUME glitched = {}
            PROVE  \E f \in files : IsFetched([name |-> Fixed[pname], body |-> filebuf], f)
        <4>1. pname = fname /\ (Taken(filebuf) \/ CutOff)
          BY <2>2, <3>3
        <4>2. Taken(filebuf) => \E f \in files : f.name = fname /\ f.body = filebuf
          BY <3>2 DEF Taken
        <4>3. CutOff => flaws > 0 /\ \E f \in files : f.name = fname /\ filebuf \in CutShort(f.body)
          BY DEF CutOff
        <4> QED
          BY <4>1, <4>2, <4>3 DEF IsFetched
      <3> QED
        BY <1>1, <1>4, <2>1, <3>1, <3>3 DEF FetchInv
    <2> QED
      BY <2>3, <2>4
  <1> QED
    BY <1>3, <1>6, <1>7, <1>8, <1>9, <1>10

\* The user picks a file of the disk.
LEMMA FetchBrowse ==
  ASSUME ServerInv, FetchInv, Running("fetch"), Running("fetch")', Browse
  PROVE  FetchInv'
  <1>1. UNCHANGED <<jobs, turn, tool, upc, files>> /\ cpc = "browse"
    BY DEF Browse, directVars, toolVars, driveVars
  <1>2. UNCHANGED <<written, glitched, pname, filebuf, flaws>>
    BY DEF Browse, walkVars, pcVars, driveVars
  <1>3. upc = "xstatus" /\ tool = "chusb"
    BY <1>1 DEF ServerInv, Partners, ChusbAt
  <1>4. ASSUME cpc' = "xstart"
        PROVE  \E f \in files : f.name = fname' /\ f.body = fdata'
    BY <1>1, <1>4 DEF Browse
  <1>5. \A f \in files : f.body \in Seq(Bytes) \ {<<>>}
    BY DEF ServerInv, Kept
  <1>6. cpc' = "xstart" => fdata' # <<>> /\ fdata' \in Seq(Bytes) /\ Taken(<<>>)'
    BY <1>1, <1>4, <1>5 DEF Taken
  <1> QED
    BY <1>1, <1>2, <1>3, <1>6 DEF FetchInv, IsFetched

\* What has nothing to do with the fetching of files.
LEMMA FetchAside ==
  ASSUME FetchInv, tool # "none",
         UNCHANGED <<jobs, turn, tool, files, filebuf, fname, fdata, pname, written, glitched>>,
         flaws > 0 => flaws' > 0,
         upc' \in {upc} \/ upc' \notin {"xname", "xbyte", "xmore"}, cpc' = "xstart" => cpc = "xstart"
  PROVE  FetchInv'
  <1>1. \A d : Taken(d)' <=> \E f \in files : f.name = fname /\ f.body = d' \o fdata
    BY DEF Taken
  <1>2. Running("fetch")' => Running("fetch")
    BY DEF Running, Cmd
  <1>3. Taken(<<>>)' = Taken(<<>>) /\ Taken(filebuf)' = Taken(filebuf)
    BY DEF Taken
  <1>4. (CutOff => CutOff') /\ \A w, f : IsFetched(w, f) => IsFetched(w, f)'
    BY DEF CutOff, IsFetched
  <1> QED
    BY <1>2, <1>3, <1>4 DEF FetchInv

\* Every step of the system keeps what is known of the fetched files.
LEMMA FetchInvStep ==
  ASSUME AtWork, InItems, ServerInv, FetchInv, [Next]_vars
  PROVE  FetchInv'
  <1>m. Matched /\ Kept
    BY DEF ServerInv, Matched
  <1>n. ASSUME UNCHANGED <<jobs, turn>>, tool # "none", Cmd.cmd # "fetch" PROVE FetchInv'
    BY <1>n, NotRunning DEF FetchInv
  <1>0. CASE UNCHANGED vars
    <2>1. UNCHANGED <<jobs, turn, tool, upc, cpc, files, filebuf, fname, fdata, pname, written, glitched, flaws>>
      BY <1>0 DEF vars, usbVars, directVars, toolVars, pcVars, walkVars, serverVars, fileVars, driveVars
    <2>2. CASE tool = "none"
      BY <2>1, <2>2 DEF FetchInv, Running
    <2> QED
      BY <2>1, <2>2, FetchAside
  <1>1. CASE CodenetNext /\ UNCHANGED usbVars
    BY <1>m, <1>1, PlacesCodenet DEF FetchInv, Matched
  <1>2. CASE (BasicNext /\ UNCHANGED usbVars) \/ ServerStarts \/ UserContinues \/ UserResets
    <2>1. Idle
      BY <1>m, <1>2, PlacesIdle
    <2>2. UNCHANGED <<jobs, turn, tool, upc, files, filebuf, fname, fdata, pname, written, glitched, flaws>>
          /\ cpc' \in {cpc, "menu"}
      BY <2>1 DEF Idle, fileVars, driveVars
    <2>3. CASE tool = "none"
      BY <2>2, <2>3 DEF FetchInv, Running
    <2> QED
      BY <2>2, <2>3, FetchAside
  <1>3. CASE Quit \/ Walk \/ Send
    <2>1. UNCHANGED <<jobs, turn>> /\ tool = "chusb" /\ upc \in OfCopy \cup Starting
      BY <1>3 DEF Quit, Exits, Walk, WalkNext, DirectorySector, LastEntry, SkipEntry, FirstSector, LoopFound, Overrun,
                  Remember, IllegalLink, ChainSector, Send, CheckServer, StartNoAck, Meet, GoesOn, DmaDone,
                  directVars, toolVars, OfCopy, Starting
    <2>2. Cmd.cmd \in {"copy", "dir"} \cup Sending
      BY <1>m, <2>1 DEF Matched, OwnPlace, AtWork
    <2> QED
      BY <1>n, <2>1, <2>2 DEF Sending
  <1>4. CASE Copy
    <2>1. Cmd.cmd \in {"copy", "dir"}
      BY <1>m, <1>4, PlacesCopy
    <2>2. UNCHANGED <<jobs, turn>> /\ tool = "chusb"
      BY <1>4 DEF Copy, SendType, EndMark, SendName, SendLen, SendSum, SendData, Swallow, FileAck, Meet, GoesOn, Exits,
           directVars, toolVars
    <2> QED
      BY <1>n, <2>1, <2>2
  <1>5. CASE StartCommand \/ Command
    <2>1. /\ UNCHANGED <<jobs, turn, tool, pname, written, filebuf, fname, fdata, glitched>> /\ Steady
          /\ tool = "chusb" /\ upc' \notin {"xname", "xbyte", "xmore"} /\ cpc' # "xstart"
      BY <1>m, <1>5, PlacesCommand
    <2>2. UNCHANGED <<files, flaws>>
      BY <1>5 DEF StartCommand, Command, driveVars
    <2> QED
      BY <2>1, <2>2, FetchAside
  <1>6. CASE Sector
    <2>1. tool = "chusb" /\ UNCHANGED <<jobs, turn>> /\ Cmd.cmd \in {"write", "read"}
      BY <1>m, <1>6, MatchedSector
    <2> QED
      BY <1>n, <2>1
  <1>r. ASSUME tool # "none", UNCHANGED <<jobs, turn>>, ~Running("fetch") PROVE FetchInv'
    BY <1>r, NotRunning DEF FetchInv
  <1>7. CASE Other
    <2>1. UNCHANGED <<jobs, turn>> /\ tool = "chusb"
      BY <1>m, <1>7, MatchedOther
    <2> QED
      BY <1>7, <1>r, <2>1, FetchOther DEF FetchInv
  <1>8. CASE ServerAlone \/ Browse \/ UserTypes
    <2>1. /\ UNCHANGED <<jobs, turn>> /\ tool = "chusb"
          /\ OpenFile \/ (\E taken, stop \in BOOLEAN : CloseFile(taken, stop)) => Cmd.cmd \in {"copy", "dir"}
          /\ FormatDisk => Cmd.cmd = "format"
          /\ UserTypes => Cmd.cmd \in {"write", "read"}
          /\ (\E b \in BOOLEAN : StoreSector(b) \/ ReadSector(b) \/ CheckKey(b)) \/ VerifySector =>
                Cmd.cmd \in {"write", "read"}
      BY <1>m, <1>8, MatchedAlone
    <2>2. CASE NoDrive
      <3>1. UNCHANGED <<jobs, turn, tool, upc, files, filebuf, fname, fdata, pname, written, glitched>>
            /\ cpc' = "keyboard" /\ flaws' = flaws + 1
        BY <2>2 DEF NoDrive, Drive, ServerStep, directVars, toolVars, walkVars, pcVars, fileVars
      <3>2. flaws' > 0
        BY <1>m, <3>1 DEF Kept
      <3> QED
        BY <2>1, <3>1, <3>2, FetchAside
    <2>3. CASE (ServerAlone /\ ~NoDrive) \/ UserTypes
      <3>1. Cmd.cmd # "fetch"
        BY <2>1, <2>3 DEF ServerAlone
      <3> QED
        BY <1>n, <2>1, <3>1
    <2>4. CASE Browse
      BY <1>r, <2>1, <2>4, FetchBrowse DEF FetchInv
    <2> QED
      BY <1>8, <2>2, <2>3, <2>4
  <1>9. ASSUME NEW there \in BOOLEAN, StartChusb(there) PROVE FetchInv'
    <2>1. /\ written' = {}
          /\ tool' = "chusb" => upc' \in {"directory", "check", "sync"} /\ cpc' # "xstart"
      BY <1>m, <1>9, MatchedStart
    <2> QED
      BY <2>1 DEF FetchInv
  <1> QED
    BY <1>0, <1>1, <1>2, <1>3, <1>4, <1>5, <1>6, <1>7, <1>8, <1>9 DEF Next, Program, C64, User

-----------------------------------------------------------------------------
(***************************************************************************)
(* The theorems about disks and files.                                     *)
(***************************************************************************)
\* The invariant is inductive, on top of the one for the starting of programs.
LEMMA DiskStep == StartInv /\ DiskInv /\ [Next]_vars => DiskInv'
  <1> SUFFICES ASSUME StartInv, DiskInv, [Next]_vars PROVE DiskInv'
    OBVIOUS
  <1>1. AtWork /\ InItems /\ ServerInv /\ SectorInv /\ FetchInv
    BY DEF StartInv, DiskInv
  <1> QED
    BY <1>1, ServerMatched, SectorInvStep, FetchInvStep DEF DiskInv

LEMMA DiskInvHolds == Spec => []DiskInv
  BY InitStart, StartStep, InitDisk, DiskStep, PTL DEF Spec

(***************************************************************************)
(* A disk of any geometry that was written with chusb shows an E for every *)
(* sector that does not hold what the image holds, or the drive has failed *)
(* and verification was not asked for; by way of the KERNAL this is true   *)
(* of the checksums even when requests for the blocks fail                 *)
(* (chusb.c:556-705, the server's writeimage).                             *)
(***************************************************************************)
THEOREM WrongOnesShow == Spec => []WrongSectorsShow
  <1>1. DiskInv => WrongSectorsShow
    <2> SUFFICES ASSUME DiskInv, Running("write"), tool = "ok", k = Cardinality(TS), NEW p \in TS
                 PROVE  IsWritten(p)
      BY DEF WrongSectorsShow, IsWritten
    <2>1. Linear(p) \in 0 .. k - 1
      BY Capacity
    <2>2. k # 0
      BY <2>1
    <2> QED
      BY <2>2 DEF DiskInv, SectorInv, Sectoring, DoneInv, Running, Writing
  <1> QED
    BY <1>1, DiskInvHolds, PTL

(***************************************************************************)
(* An image that chusb has saved has in the place of every sector what the *)
(* disk holds there, or what the drive gave when it could not read it, and *)
(* a file it has fetched is one of the disk under its own name, with all   *)
(* its bytes, or the drive has failed at it and it is cut short, with one  *)
(* byte more that is not its own (chusb.c:472-538 and 706-803,             *)
(* chusb.tas:1403-1431).                                                   *)
(***************************************************************************)
THEOREM SavedFilesAreTrue == Spec => []SavedIsTrue
  <1>1. DiskInv => SavedIsTrue
    <2> SUFFICES ASSUME DiskInv, NEW w \in written
                 PROVE  /\ Running("read") => \A p \in TS : IsRead(p, w.body[Linear(p)])
                        /\ Running("fetch") /\ glitched = {} => \E f \in files : IsFetched(w, f)
      BY DEF SavedIsTrue, IsRead, IsFetched
    <2>1. Running("read") => \A p \in TS : IsRead(p, w.body[Linear(p)])
      BY DEF DiskInv, SectorInv, Sectoring, DoneInv, Running, Writing
    <2>2. Running("fetch") /\ glitched = {} => \E f \in files : IsFetched(w, f)
      BY DEF DiskInv, FetchInv
    <2> QED
      BY <2>1, <2>2
  <1> QED
    BY <1>1, DiskInvHolds, PTL
-----------------------------------------------------------------------------
(***************************************************************************)
(* What recursions compute: the chain of a file, its bytes, their sum.     *)
(***************************************************************************)
\* A recursion that makes a step from every value has a solution.
Solves(f, S, s0, step) == f \in [Nat -> S] /\ f[0] = s0 /\ \A n \in Nat : f[n + 1] = step[n][f[n]]

LEMMA Recursion ==
  ASSUME NEW S, NEW s0 \in S, NEW step \in [Nat -> [S -> S]]
  PROVE  \E f : Solves(f, S, s0, step)
  <1> DEFINE Is(g, n) == g \in [0 .. n -> S] /\ g[0] = s0 /\ \A i \in 0 .. n - 1 : g[i + 1] = step[i][g[i]]
             None == {n \in Nat : ~\E g : Is(g, n)}
  <1>1. None = {}
    <2>1. SUFFICES ASSUME None # {} PROVE FALSE
      OBVIOUS
    <2>2. PICK n \in None : \A j \in 0 .. n - 1 : j \notin None
      <3>1. None \in SUBSET Nat
        OBVIOUS
      <3> HIDE DEF None
      <3> QED
        BY <2>1, <3>1, Least
    <2>3. CASE n = 0
      <3>1. Is([i \in 0 .. 0 |-> s0], 0)
        OBVIOUS
      <3> HIDE DEF Is
      <3> QED
        BY <2>3, <3>1
    <2>4. CASE n # 0
      <3>1. n \in Nat /\ n - 1 \in Nat /\ n - 1 \in 0 .. n - 1
        BY <2>4
      <3>2. PICK g : Is(g, n - 1)
        BY <2>2, <3>1
      <3>3. g[n - 1] \in S /\ step[n - 1] \in [S -> S]
        BY <3>1, <3>2
      <3> DEFINE h == [i \in 0 .. n |-> IF i = n THEN step[n - 1][g[n - 1]] ELSE g[i]]
      <3>4. \A i \in 0 .. n : h[i] \in S
        BY <3>1, <3>2, <3>3
      <3>5. h[0] = s0
        BY <2>4, <3>1, <3>2
      <3>6. ASSUME NEW i \in 0 .. n - 1 PROVE h[i + 1] = step[i][h[i]]
        <4>1. CASE i = n - 1
          BY <3>1, <4>1
        <4>2. CASE i # n - 1
          <5>1. i \in 0 .. (n - 1) - 1 /\ i + 1 \in 0 .. n /\ i + 1 # n /\ i # n
            BY <3>1, <4>2
          <5> QED
            BY <3>2, <5>1
        <4> QED
          BY <4>1, <4>2
      <3>7. h \in [0 .. n -> S]
        BY <3>4
      <3> HIDE DEF h
      <3>8. Is(h, n)
        BY <3>5, <3>6, <3>7
      <3> HIDE DEF Is
      <3> QED
        BY <3>8
    <2> QED
      BY <2>3, <2>4
  <1>2. ASSUME NEW m \in Nat, NEW g, NEW h, Is(g, m), Is(h, m + 1)
        PROVE  g[m] = h[m]
    <2> DEFINE Apart == {i \in 0 .. m : g[i] # h[i]}
    <2>1. SUFFICES ASSUME Apart # {} PROVE FALSE
      BY <1>2
    <2>2. PICK i \in Apart : \A j \in 0 .. i - 1 : j \notin Apart
      <3>1. Apart \in SUBSET Nat
        BY <1>2
      <3> HIDE DEF Apart
      <3> QED
        BY <2>1, <3>1, Least
    <2>3. i # 0
      BY <1>2, <2>2
    <2>4. i - 1 \in 0 .. i - 1 /\ i - 1 \in 0 .. m - 1 /\ i - 1 \in 0 .. (m + 1) - 1 /\ (i - 1) + 1 = i
          /\ i - 1 \in 0 .. m
      BY <1>2, <2>2, <2>3
    <2>5. g[i - 1] = h[i - 1]
      BY <2>2, <2>4
    <2>6. g[i] = step[i - 1][g[i - 1]]
      BY <1>2, <2>4
    <2>7. h[i] = step[i - 1][h[i - 1]]
      BY <1>2, <2>4
    <2> QED
      BY <2>2, <2>5, <2>6, <2>7
  <1> DEFINE G(n) == CHOOSE g : Is(g, n)
             f == [n \in Nat |-> G(n)[n]]
  <1>3. \A n \in Nat : Is(G(n), n)
    <2> HIDE DEF Is
    <2> QED
      BY <1>1
  <1> HIDE DEF G
  <1>4. \A n \in Nat : f[n] = G(n)[n] /\ f[n] \in S
    BY <1>3
  <1>5. f[0] = s0
    BY <1>3, <1>4
  <1>6. ASSUME NEW n \in Nat PROVE f[n + 1] = step[n][f[n]]
    <2>1. n + 1 \in Nat
      OBVIOUS
    <2>2. Is(G(n), n) /\ Is(G(n + 1), n + 1)
      BY <1>3, <2>1
    <2>3. G(n)[n] = G(n + 1)[n]
      <3> HIDE DEF Is
      <3> QED
        BY <1>2, <2>2
    <2>4. n \in 0 .. (n + 1) - 1
      OBVIOUS
    <2>5. G(n + 1)[n + 1] = step[n][G(n + 1)[n]]
      BY <2>2, <2>4
    <2> QED
      BY <1>4, <2>1, <2>3, <2>5
  <1>7. f \in [Nat -> S]
    BY <1>4
  <1> HIDE DEF f
  <1>8. Solves(f, S, s0, step)
    BY <1>5, <1>6, <1>7 DEF Solves
  <1> QED
    BY <1>8

\* The sectors of a file follow each other along the links, as long as they are places.
LEMMA ChainIs ==
  ASSUME NEW im \in Images, NEW p, NEW n \in Nat
  PROVE  LET c == Chain(im, p, n) IN
         /\ Len(c) \in 1 .. n + 1 /\ DOMAIN c = 1 .. Len(c) /\ c[1] = p
         /\ \A i \in 1 .. Len(c) - 1 : c[i] \in Places /\ c[i + 1] = im.sector[c[i]].next
         /\ Len(c) = n + 1 \/ c[Len(c)] \notin Places
  <1> DEFINE X == {p} \cup {im.sector[q].next : q \in Places}
             S == Seq(X) \ {<<>>}
             Step(c) == LET q == c[Len(c)] IN IF q \notin Places THEN c ELSE Append(c, im.sector[q].next)
             Is(f) == f = [j \in Nat |-> IF j = 0 THEN <<p>> ELSE Step(f[j - 1])]
             F == CHOOSE f : Is(f)
  <1>1. <<p>> \in S
    OBVIOUS
  <1>2. ASSUME NEW c \in S PROVE Step(c) \in S
    <2>1. CASE c[Len(c)] \notin Places
      BY <2>1
    <2>2. CASE c[Len(c)] \in Places
      <3>1. im.sector[c[Len(c)]].next \in X
        BY <2>2
      <3> HIDE DEF X
      <3>2. Append(c, im.sector[c[Len(c)]].next) \in S
        BY <3>1
      <3> QED
        BY <2>2, <3>2
    <2> QED
      BY <2>1, <2>2
  <1> DEFINE step == [j \in Nat |-> [c \in S |-> Step(c)]]
  <1>3. step \in [Nat -> [S -> S]]
    <2> HIDE DEF S, Step
    <2> QED
      BY <1>2
  <1>4. PICK f \in [Nat -> S] : f[0] = <<p>> /\ \A j \in Nat : f[j + 1] = step[j][f[j]]
    <2>1. \E f : Solves(f, S, <<p>>, step)
      <3> HIDE DEF S, step
      <3> QED
        BY <1>1, <1>3, Recursion
    <2> HIDE DEF S, step
    <2> QED
      BY <2>1 DEF Solves
  <1>5. Is(f)
    <2>1. ASSUME NEW j \in Nat PROVE f[j] = IF j = 0 THEN <<p>> ELSE Step(f[j - 1])
      <3>1. CASE j = 0
        BY <1>4, <3>1
      <3>2. CASE j # 0
        <4>1. j - 1 \in Nat /\ (j - 1) + 1 = j
          BY <3>2
        <4>2. f[j - 1] \in S /\ f[j] = step[j - 1][f[j - 1]]
          BY <1>4, <4>1
        <4> HIDE DEF S, Step
        <4> QED
          BY <3>2, <4>1, <4>2
      <3> QED
        BY <3>1, <3>2
    <2>2. f = [j \in Nat |-> f[j]]
      BY <1>4
    <2> HIDE DEF Step
    <2> QED
      BY <2>1, <2>2
  <1>6. Is(F)
    <2> HIDE DEF Is
    <2> QED
      BY <1>5
  <1>7. \A j \in Nat : F[j] = IF j = 0 THEN <<p>> ELSE Step(F[j - 1])
    <2> HIDE DEF F, Step
    <2> QED
      BY <1>6
  <1>8. Chain(im, p, n) = F[n]
    BY DEF Chain
  <1> HIDE DEF F, Is, step
  <1> DEFINE Goes(c, j) ==
               /\ c \in S /\ Len(c) \in 1 .. j + 1 /\ c[1] = p
               /\ \A i \in 1 .. Len(c) - 1 : c[i] \in Places /\ c[i + 1] = im.sector[c[i]].next
               /\ Len(c) = j + 1 \/ c[Len(c)] \notin Places
             Bad == {j \in Nat : ~Goes(F[j], j)}
  <1>9. Bad = {}
    <2>1. SUFFICES ASSUME Bad # {} PROVE FALSE
      OBVIOUS
    <2>2. PICK j \in Bad : \A i \in 0 .. j - 1 : i \notin Bad
      <3>1. Bad \in SUBSET Nat
        OBVIOUS
      <3> HIDE DEF Bad
      <3> QED
        BY <2>1, <3>1, Least
    <2>3. CASE j = 0
      <3>1. F[0] = <<p>>
        BY <1>7
      <3>2. <<p>> \in S /\ Len(<<p>>) = 1 /\ <<p>>[1] = p
        OBVIOUS
      <3>3. Goes(<<p>>, 0)
        BY <3>2
      <3> HIDE DEF Goes
      <3> QED
        BY <2>2, <2>3, <3>1, <3>3
    <2>4. CASE j # 0
      <3>1. j - 1 \in Nat /\ j - 1 \in 0 .. j - 1 /\ j \in Nat
        BY <2>4
      <3> DEFINE c == F[j - 1]
      <3>2. Goes(c, j - 1)
        BY <2>2, <3>1
      <3>3. F[j] = Step(c)
        BY <1>7, <2>4, <3>1
      <3>4. c \in S /\ Len(c) \in Nat \ {0} /\ DOMAIN c = 1 .. Len(c)
        BY <3>2
      <3> HIDE DEF c
      <3>5. CASE c[Len(c)] \notin Places
        BY <2>2, <3>1, <3>2, <3>3, <3>5
      <3>6. CASE c[Len(c)] \in Places
        <4> DEFINE d == Append(c, im.sector[c[Len(c)]].next)
        <4>1. F[j] = d /\ d \in S
          BY <1>2, <3>3, <3>4, <3>6
        <4>2. Len(c) = j
          BY <3>1, <3>2, <3>6
        <4>3. Len(d) = j + 1 /\ \A i \in 1 .. j : d[i] = c[i]
          BY <3>4, <4>2
        <4>4. d[j + 1] = im.sector[c[j]].next
          BY <3>4, <4>2
        <4> HIDE DEF d
        <4>5. ASSUME NEW i \in 1 .. Len(d) - 1 PROVE d[i] \in Places /\ d[i + 1] = im.sector[d[i]].next
          <5>1. CASE i = j
            BY <3>1, <3>6, <4>2, <4>3, <4>4, <5>1
          <5>2. CASE i # j
            <6>1. i \in 1 .. Len(c) - 1 /\ i \in 1 .. j /\ i + 1 \in 1 .. j
              BY <3>1, <4>2, <4>3, <5>2
            <6>2. c[i] \in Places /\ c[i + 1] = im.sector[c[i]].next
              BY <3>2, <6>1
            <6> QED
              BY <4>3, <6>1, <6>2
          <5> QED
            BY <5>1, <5>2
        <4>6. d[1] = p /\ Len(d) \in 1 .. j + 1
          <5>1. c[1] = p /\ 1 \in 1 .. j
            BY <3>1, <3>2, <4>2
          <5> QED
            BY <3>1, <4>3, <5>1
        <4>7. Goes(d, j)
          BY <4>1, <4>3, <4>5, <4>6
        <4> HIDE DEF Goes
        <4> QED
          BY <2>2, <4>1, <4>7
      <3> QED
        BY <3>5, <3>6
    <2> QED
      BY <2>3, <2>4
  <1>10. Goes(F[n], n)
    BY <1>9
  <1>11. F[n] \in Seq(X)
    BY <1>10
  <1>12. DOMAIN F[n] = 1 .. Len(F[n])
    <2> HIDE DEF X
    <2> QED
      BY <1>11
  <1> QED
    BY <1>8, <1>10, <1>12

\* The bytes of the first sectors of a chain.
Gathered(im, c) ==
    CHOOSE b : b = [n \in 0 .. Len(c) |->
                      IF n = 0 THEN <<>>
                      ELSE b[n - 1] \o (IF c[n] \in Places THEN im.sector[c[n]].bytes ELSE <<>>)]

LEMMA GatheredIs ==
  ASSUME NEW im \in Images, NEW c, Len(c) \in Nat
  PROVE  /\ FileBytes(im, c) = Gathered(im, c)[Len(c)]
         /\ Gathered(im, c)[0] = <<>> /\ \A n \in 0 .. Len(c) : Gathered(im, c)[n] \in Seq(Bytes)
         /\ \A n \in 1 .. Len(c) :
               Gathered(im, c)[n] = IF c[n] \in Places THEN Gathered(im, c)[n - 1] \o im.sector[c[n]].bytes
                                    ELSE Gathered(im, c)[n - 1]
  <1> DEFINE S == Seq(Bytes)
             Part(n) == IF c[n] \in Places THEN im.sector[c[n]].bytes ELSE <<>>
             Is(b) == b = [n \in 0 .. Len(c) |-> IF n = 0 THEN <<>> ELSE b[n - 1] \o Part(n)]
             G == CHOOSE b : Is(b)
             empty == <<>>
             step == [n \in Nat |-> [b \in S |-> b \o Part(n + 1)]]
  <1>1. \A n : Part(n) \in S
    BY UsbAssumption
  <1>2. empty \in S
    OBVIOUS
  <1>3. step \in [Nat -> [S -> S]]
    <2>1. \A b, d \in S : b \o d \in S
      OBVIOUS
    <2> HIDE DEF S, Part
    <2> QED
      BY <1>1, <2>1
  <1>4. PICK f \in [Nat -> S] : f[0] = empty /\ \A n \in Nat : f[n + 1] = step[n][f[n]]
    <2>1. \E f : Solves(f, S, empty, step)
      <3> HIDE DEF S, step, empty
      <3> QED
        BY <1>2, <1>3, Recursion
    <2> HIDE DEF S, step, empty
    <2> QED
      BY <2>1 DEF Solves
  <1>5. Is([n \in 0 .. Len(c) |-> f[n]])
    <2> DEFINE g == [n \in 0 .. Len(c) |-> f[n]]
    <2>1. ASSUME NEW n \in 0 .. Len(c) PROVE g[n] = IF n = 0 THEN <<>> ELSE g[n - 1] \o Part(n)
      <3>1. CASE n = 0
        BY <1>4, <3>1
      <3>2. CASE n # 0
        <4>1. n - 1 \in Nat /\ (n - 1) + 1 = n /\ n - 1 \in 0 .. Len(c)
          BY <3>2
        <4>2. f[n - 1] \in S /\ f[n] = step[n - 1][f[n - 1]]
          BY <1>4, <4>1
        <4> HIDE DEF S, Part
        <4> QED
          BY <3>2, <4>1, <4>2
      <3> QED
        BY <3>1, <3>2
    <2>2. g = [n \in 0 .. Len(c) |-> g[n]]
      OBVIOUS
    <2> HIDE DEF g, Part
    <2>3. Is(g)
      BY <2>1, <2>2
    <2> QED
      BY <2>3 DEF g
  <1>6. Is(G)
    <2> HIDE DEF Is
    <2> QED
      BY <1>5
  <1>7. Gathered(im, c) = G
    BY DEF Gathered
  <1>8. FileBytes(im, c) = G[Len(c)]
    BY DEF FileBytes
  <1> HIDE DEF G
  <1>9. \A n \in 0 .. Len(c) : G[n] = IF n = 0 THEN <<>> ELSE G[n - 1] \o Part(n)
    <2> HIDE DEF Part
    <2> QED
      BY <1>6
  <1> HIDE DEF Is, step
  <1> DEFINE Bad == {n \in 0 .. Len(c) : G[n] \notin S}
  <1>10. Bad = {}
    <2>1. SUFFICES ASSUME Bad # {} PROVE FALSE
      OBVIOUS
    <2>2. PICK n \in Bad : \A i \in 0 .. n - 1 : i \notin Bad
      <3>1. Bad \in SUBSET Nat
        OBVIOUS
      <3> HIDE DEF Bad
      <3> QED
        BY <2>1, <3>1, Least
    <2>3. n # 0
      <3>1. G[0] = empty
        BY <1>9
      <3> QED
        BY <1>2, <2>2, <3>1
    <2>4. n - 1 \in 0 .. n - 1 /\ n - 1 \in 0 .. Len(c)
      BY <2>2, <2>3
    <2>5. G[n - 1] \in S /\ G[n] = G[n - 1] \o Part(n) /\ Part(n) \in S
      BY <1>1, <1>9, <2>2, <2>3, <2>4
    <2> HIDE DEF Part
    <2>6. G[n] \in S
      BY <2>5
    <2> QED
      BY <2>2, <2>6
  <1>11. ASSUME NEW n \in 1 .. Len(c)
         PROVE  G[n] = IF c[n] \in Places THEN G[n - 1] \o im.sector[c[n]].bytes ELSE G[n - 1]
    <2>1. n \in 0 .. Len(c) /\ n # 0 /\ n - 1 \in 0 .. Len(c)
      OBVIOUS
    <2>2. G[n] = G[n - 1] \o Part(n) /\ G[n - 1] \in S
      BY <1>9, <1>10, <2>1
    <2>3. G[n - 1] \o <<>> = G[n - 1]
      BY <2>2
    <2> QED
      BY <2>2, <2>3
  <1>12. G[0] = <<>>
    BY <1>9
  <1>13. \A n \in 0 .. Len(c) : G[n] \in Seq(Bytes)
    BY <1>10
  <1> QED
    BY <1>7, <1>8, <1>11, <1>12, <1>13

\* The sums of the first bytes.
SumUpTo(d) == CHOOSE s : s = [i \in 0 .. Len(d) |-> IF i = 0 THEN 0 ELSE (s[i - 1] + d[i]) % SumMod]

LEMMA SumUpToIs ==
  ASSUME NEW d \in Seq(Bytes)
  PROVE  /\ ByteSum(d) = SumUpTo(d)[Len(d)]
         /\ SumUpTo(d)[0] = 0 /\ \A n \in 0 .. Len(d) : SumUpTo(d)[n] \in 0 .. SumMod - 1
         /\ \A n \in 1 .. Len(d) : SumUpTo(d)[n] = (SumUpTo(d)[n - 1] + d[n]) % SumMod
  <1> DEFINE S == 0 .. SumMod - 1
             Add(s, n) == IF n \in 1 .. Len(d) THEN (s + d[n]) % SumMod ELSE s
             Is(s) == s = [n \in 0 .. Len(d) |-> IF n = 0 THEN 0 ELSE (s[n - 1] + d[n]) % SumMod]
             G == CHOOSE s : Is(s)
             step == [n \in Nat |-> [s \in S |-> Add(s, n + 1)]]
  <1>1. ASSUME NEW s \in S, NEW n \in Nat PROVE Add(s, n) \in S
    <2>1. SumMod \in Nat \ {0} /\ Bytes \subseteq Nat
      BY UsbAssumption
    <2>2. \A x \in Nat : x % SumMod \in 0 .. SumMod - 1
      BY <2>1
    <2>3. CASE n \in 1 .. Len(d)
      <3>1. d[n] \in Bytes
        BY <2>3
      <3>2. d[n] \in Nat
        <4> HIDE DEF S
        <4> QED
          BY <2>1, <3>1, Zenon
      <3>4. s \in Nat
        BY <2>1
      <3>3. s + d[n] \in Nat
        BY <3>2, <3>4
      <3> QED
        BY <2>2, <2>3, <3>3
    <2> QED
      BY <2>3
  <1>2. 0 \in S
    BY UsbAssumption
  <1>3. step \in [Nat -> [S -> S]]
    <2> HIDE DEF S, Add
    <2> QED
      BY <1>1
  <1>4. PICK f \in [Nat -> S] : f[0] = 0 /\ \A n \in Nat : f[n + 1] = step[n][f[n]]
    <2>1. \E f : Solves(f, S, 0, step)
      <3> HIDE DEF S, step
      <3> QED
        BY <1>2, <1>3, Recursion
    <2> HIDE DEF S, step
    <2> QED
      BY <2>1 DEF Solves
  <1>5. Is([n \in 0 .. Len(d) |-> f[n]])
    <2> DEFINE g == [n \in 0 .. Len(d) |-> f[n]]
    <2>1. ASSUME NEW n \in 0 .. Len(d) PROVE g[n] = IF n = 0 THEN 0 ELSE (g[n - 1] + d[n]) % SumMod
      <3>1. CASE n = 0
        BY <1>4, <3>1
      <3>2. CASE n # 0
        <4>1. n - 1 \in Nat /\ (n - 1) + 1 = n /\ n - 1 \in 0 .. Len(d) /\ n \in 1 .. Len(d)
          BY <3>2
        <4>2. f[n - 1] \in S /\ f[n] = step[n - 1][f[n - 1]]
          BY <1>4, <4>1
        <4>3. f[n] = Add(f[n - 1], n)
          <5> HIDE DEF S, Add
          <5> QED
            BY <4>1, <4>2
        <4> QED
          BY <3>2, <4>1, <4>3
      <3> QED
        BY <3>1, <3>2
    <2>2. g = [n \in 0 .. Len(d) |-> g[n]]
      OBVIOUS
    <2> HIDE DEF g
    <2>3. Is(g)
      BY <2>1, <2>2
    <2> QED
      BY <2>3 DEF g
  <1>6. Is(G)
    <2> HIDE DEF Is
    <2> QED
      BY <1>5
  <1>7. SumUpTo(d) = G
    BY DEF SumUpTo
  <1>8. ByteSum(d) = G[Len(d)]
    BY DEF ByteSum
  <1> HIDE DEF G
  <1>9. \A n \in 0 .. Len(d) : G[n] = IF n = 0 THEN 0 ELSE (G[n - 1] + d[n]) % SumMod
    BY <1>6
  <1> HIDE DEF Is, step
  <1> DEFINE Bad == {n \in 0 .. Len(d) : G[n] \notin S}
  <1>10. Bad = {}
    <2>1. SUFFICES ASSUME Bad # {} PROVE FALSE
      OBVIOUS
    <2>2. PICK n \in Bad : \A i \in 0 .. n - 1 : i \notin Bad
      <3>1. Bad \in SUBSET Nat
        OBVIOUS
      <3> HIDE DEF Bad
      <3> QED
        BY <2>1, <3>1, Least
    <2>3. n # 0
      BY <1>2, <1>9, <2>2
    <2>4. n - 1 \in 0 .. n - 1 /\ n - 1 \in 0 .. Len(d) /\ n \in 1 .. Len(d)
      BY <2>2, <2>3
    <2>5. G[n - 1] \in S /\ G[n] = Add(G[n - 1], n)
      BY <1>9, <2>2, <2>3, <2>4
    <2>6. G[n] \in S
      <3> HIDE DEF S, Add
      <3> QED
        BY <1>1, <2>4, <2>5
    <2> QED
      BY <2>2, <2>6
  <1>11. \A n \in 1 .. Len(d) : G[n] = (G[n - 1] + d[n]) % SumMod
    <2>1. \A n \in 1 .. Len(d) : n \in 0 .. Len(d) /\ n # 0
      OBVIOUS
    <2> QED
      BY <1>9, <2>1
  <1>12. G[0] = 0
    BY <1>9
  <1>13. \A n \in 0 .. Len(d) : G[n] \in 0 .. SumMod - 1
    BY <1>10
  <1> QED
    BY <1>7, <1>8, <1>11, <1>12, <1>13

\* Sums that were different stay so with the same byte, and become different with different ones.
LEMMA SumsDiffer ==
  ASSUME NEW x \in 0 .. SumMod - 1, NEW y \in 0 .. SumMod - 1, NEW b \in 0 .. SumMod - 1,
         (x + b) % SumMod = (y + b) % SumMod
  PROVE  x = y
  <1>1. \A z \in 0 .. 2 * SumMod - 1 : z % SumMod = IF z < SumMod THEN z ELSE z - SumMod
    <2>1. SUFFICES ASSUME NEW z \in 0 .. 2 * SumMod - 1
                   PROVE  z % SumMod = IF z < SumMod THEN z ELSE z - SumMod
      OBVIOUS
    <2>2. SumMod \in Nat \ {0, 1}
      BY UsbAssumption
    <2>3. CASE z < SumMod
      BY <2>2, <2>3
    <2>4. CASE z >= SumMod
      <3>1. z - SumMod \in 0 .. SumMod - 1 /\ z = (z - SumMod) + 1 * SumMod
        BY <2>2, <2>4
      <3> QED
        BY <2>2, <2>4, <3>1
    <2> QED
      BY <2>2, <2>3, <2>4
  <1>2. SumMod \in Nat \ {0, 1}
    BY UsbAssumption
  <1>3. x + b \in 0 .. 2 * SumMod - 1 /\ y + b \in 0 .. 2 * SumMod - 1
    BY <1>2
  <1>4. (x + b) % SumMod = (IF x + b < SumMod THEN x + b ELSE (x + b) - SumMod)
    BY <1>1, <1>3
  <1>5. (y + b) % SumMod = (IF y + b < SumMod THEN y + b ELSE (y + b) - SumMod)
    BY <1>1, <1>3
  <1> QED
    BY <1>2, <1>4, <1>5

-----------------------------------------------------------------------------
(***************************************************************************)
(* The walk through an image.  Where the program sends a file, where it is *)
(* at one, and where it is at a sector of the directory.                   *)
(***************************************************************************)
Transfers == {"type", "name", "len", "sum", "data", "ack"}
InFile == {"chain", "overrun"} \cup Transfers
InDir == {"entry"} \cup InFile
AtCopy == tool = "chusb" /\ Cmd.cmd \in {"copy", "dir"}

LinkOf(p) == image.sector[p].next
FileChain == Sectors(image, Entry)

\* What is collected are the first sectors of the file.
AtFile ==
    /\ pos \in DOMAIN Entries /\ IsFile(image, Entry)
    /\ \A i \in 0 .. usednum - 1 : i + 1 \in DOMAIN FileChain /\ used[i] = FileChain[i + 1]
    /\ upc \in {"chain", "overrun"} =>
          /\ usednum + 1 \in DOMAIN FileChain /\ filetr = FileChain[usednum + 1]
          /\ usednum > 0 => filetr # End
          /\ filebuf = Gathered(image, FileChain)[usednum]
    /\ upc \in Transfers => filebuf = FileBytes(image, FileChain)

\* Where the walk is.
PlaceInv ==
    /\ upc \in {"sync", "cmdack", "directory", "endmark", "quit"} \cup InDir
    /\ upc \in {"sync", "cmdack"} => nexttr = image.dir
    /\ upc = "directory" => nexttr \in DirSectors(image) \cup {End, Illegal}
    /\ upc = "endmark" => nexttr = End
    /\ upc \in InDir => here \in DirSectors(image) /\ nexttr = LinkOf(here) /\ pos \in 1 .. Len(Entries) + 1
    /\ upc \in InFile => AtFile

\* The sectors V of the directory are done, and these files.
Coming == IF upc \in InDir THEN here ELSE nexttr
Visited(V) ==
    /\ V \subseteq Places /\ Coming \notin V
    /\ image.dir \in V \cup {Coming} /\ \A p \in V : LinkOf(p) \in V \cup {Coming}
Handled(V) == {q \in Listed(image) : q[1] \in V \/ (upc \in InDir /\ q[1] = here /\ q[2] < pos)}

\* What the arrays hold is of the file at hand or of one before.
OfFile(q, i) ==
    LET c == Sectors(image, EntryAt(image, q)) IN i + 1 \in DOMAIN c /\ used[i] = c[i + 1]
Stale(V) == \A i \in 0 .. UsedSize - 1 :
    used[i] = End \/ (upc \in InFile /\ i < usednum) \/ \E q \in Handled(V) : OfFile(q, i)

\* Of a sound image every file was sent.
Flawless == copying /\ Sound /\ ~Shared(image)
Copied(V) == Flawless => \A q \in Handled(V) : ImageFile(EntryAt(image, q)) \in acked

PassedInv == DirEnds(image) => \E V \in SUBSET Places : Visited(V) /\ Stale(V) /\ Copied(V)

WalkTypes ==
    /\ image \in Images /\ (copying <=> Cmd.cmd = "copy")
    /\ usednum \in 0 .. UsedSize /\ used = [i \in 0 .. UsedSize - 1 |-> used[i]]
    /\ filebuf \in Seq(Bytes) /\ (upc \in Transfers => copying)

AloneInv == copying /\ upc \in {"sync", "cmdack", "endmark"} \cup Transfers /\ filebuf = Cmd.file.body

WalkInv == AtCopy => WalkTypes /\ IF single THEN AloneInv ELSE PlaceInv /\ PassedInv

\* The chain of a file: one link after the other, and only its last can be outside the image.
LEMMA SectorsAre ==
  ASSUME NEW im \in Images, NEW e
  PROVE  LET c == Sectors(im, e) IN
         /\ Len(c) \in 1 .. UsedSize + 2 /\ DOMAIN c = 1 .. Len(c) /\ c[1] = e.first
         /\ \A i \in DOMAIN c : c[i] \notin Places => i = Len(c)
         /\ \A i \in DOMAIN c : i <= UsedSize + 1 /\ c[i] \in Places =>
               i + 1 \in DOMAIN c /\ c[i + 1] = im.sector[c[i]].next
         /\ LastOf(im, e) = c[Len(c)]
  <1> DEFINE c == Sectors(im, e)
  <1>1. UsedSize \in Nat /\ UsedSize + 1 \in Nat /\ (UsedSize + 1) + 1 = UsedSize + 2
    BY WalkAssumption
  <1>2. /\ Len(c) \in 1 .. UsedSize + 2 /\ DOMAIN c = 1 .. Len(c) /\ c[1] = e.first
        /\ \A i \in 1 .. Len(c) - 1 : c[i] \in Places /\ c[i + 1] = im.sector[c[i]].next
        /\ Len(c) = UsedSize + 2 \/ c[Len(c)] \notin Places
    BY <1>1, ChainIs DEF Sectors
  <1>3. LastOf(im, e) = c[Len(c)]
    BY DEF LastOf
  <1> DEFINE L == Len(c)
  <1>n. Len(c) \in Nat \ {0}
    <2> HIDE DEF c
    <2>1. Len(c) \in 1 .. UsedSize + 2
      BY <1>2
    <2> QED BY <1>1, <2>1
  <1>l. L \in Nat \ {0} /\ DOMAIN c = 1 .. L
    <2> HIDE DEF c
    <2> QED BY <1>n, <1>2
  <1>f. \A i \in 1 .. L - 1 : c[i] \in Places /\ c[i + 1] = im.sector[c[i]].next
    BY <1>2
  <1>e. L = UsedSize + 2 \/ c[L] \notin Places
    BY <1>2
  <1> HIDE DEF c, L
  <1>4. ASSUME NEW i \in DOMAIN c, c[i] \notin Places PROVE i = L
    <2>1. i \in 1 .. L /\ i \notin 1 .. L - 1
      BY <1>l, <1>f, <1>4
    <2> QED
      BY <1>l, <2>1
  <1>5. ASSUME NEW i \in DOMAIN c, i <= UsedSize + 1, c[i] \in Places
        PROVE  i + 1 \in DOMAIN c /\ c[i + 1] = im.sector[c[i]].next
    <2>1. i \in 1 .. L
      BY <1>l
    <2>2. i # L
      BY <1>1, <1>e, <1>5, <2>1
    <2>3. i \in 1 .. L - 1 /\ i + 1 \in 1 .. L
      BY <1>l, <2>1, <2>2
    <2> QED
      BY <1>l, <1>f, <2>3
  <1> QED
    BY <1>2, <1>3, <1>4, <1>5 DEF c, L

\* The files of an image by their places.
LEMMA ListedIs ==
  ASSUME NEW im, NEW q
  PROVE  q \in Listed(im) <=>
            \E d \in DirSectors(im) : \E i \in DOMAIN im.sector[d].entries :
               q = <<d, i>> /\ IsFile(im, im.sector[d].entries[i])
  BY DEF Listed, EntryAt

\* The directory goes on inside the image, and ends only once.
LEMMA DirectoryIs ==
  ASSUME image \in Images
  PROVE  /\ DirSectors(image) \subseteq Places /\ image.dir \in DirSectors(image) /\ End \notin Places
         /\ Illegal \notin Places
         /\ \A p \in Places : LinkOf(p) \in Places \cup {End, Illegal}
         /\ \A p \in DirSectors(image) :
               /\ LinkOf(p) \in DirSectors(image) \cup {End, Illegal}
               /\ Len(image.sector[p].entries) \in Nat
               /\ DOMAIN image.sector[p].entries = 1 .. Len(image.sector[p].entries)
  <1>0. \A p \in Places : LinkOf(p) \in Places \cup {End, Illegal}
    <2>1. \A im \in Images : \A p \in Places : im.sector[p].next \in Places \cup {End, Illegal}
      BY WalkAssumption
    <2> QED
      BY <2>1 DEF LinkOf
  <1>1. End \notin Places /\ Illegal \notin Places /\ image.dir \in Places
    <2>1. Places \subseteq Nat \ {0} /\ image.dir \in Places
      BY WalkAssumption DEF End
    <2> QED
      BY <2>1 DEF End, Illegal
  <1>2. DirSectors(image) \subseteq Places
    BY DEF DirSectors
  <1>3. image.dir \in DirSectors(image)
    BY <1>1 DEF DirSectors
  <1>4. ASSUME NEW p \in DirSectors(image), LinkOf(p) \in Places PROVE LinkOf(p) \in DirSectors(image)
    BY <1>4 DEF DirSectors, FollowsLinks, LinkOf
  <1>5. ASSUME NEW p \in Places
        PROVE  LET e == image.sector[p].entries IN Len(e) \in Nat /\ DOMAIN e = 1 .. Len(e)
    <2> DEFINE e == image.sector[p].entries
               T == {e[i] : i \in DOMAIN e}
    <2>1. e \in Seq(T)
      BY WalkAssumption
    <2> HIDE DEF e, T
    <2>2. Len(e) \in Nat /\ DOMAIN e = 1 .. Len(e)
      BY <2>1
    <2> QED
      BY <2>2 DEF e
  <1> QED
    BY <1>0, <1>1, <1>2, <1>3, <1>4, <1>5

\* The walk through a directory that ends comes to no sector again,
LEMMA NeverAgain ==
  ASSUME image \in Images, DirEnds(image), NEW V \in SUBSET Places, image.dir \in V,
         \A p \in V : LinkOf(p) \in V
  PROVE  FALSE
  <1>1. DirSectors(image) \subseteq V
    BY DEF DirSectors, FollowsLinks, LinkOf
  <1>2. PICK p \in DirSectors(image) : LinkOf(p) = End
    BY DEF DirEnds, LinkOf
  <1>3. End \in Places
    BY <1>1, <1>2
  <1> QED
    BY <1>3, DirectoryIs

\* and at its end it has seen them all.
LEMMA AllVisited ==
  ASSUME image \in Images, NEW V \in SUBSET Places, image.dir \in V,
         \A p \in V : LinkOf(p) \in V \cup {End}
  PROVE  DirSectors(image) \subseteq V
  <1>1. FollowsLinks(image, V)
    BY DirectoryIs DEF FollowsLinks, LinkOf
  <1> QED
    BY <1>1 DEF DirSectors

\* The file at hand is listed, and was not handled before.
LEMMA AtHand ==
  ASSUME image \in Images, here \in DirSectors(image), pos \in DOMAIN Entries, IsFile(image, Entry)
  PROVE  /\ <<here, pos>> \in Listed(image) /\ EntryAt(image, <<here, pos>>) = Entry
         /\ \A V : Visited(V) /\ upc \in InDir => <<here, pos>> \notin Handled(V)
         /\ pos \in Nat
  <1>1. <<here, pos>> \in Listed(image) /\ EntryAt(image, <<here, pos>>) = Entry
    BY ListedIs DEF Entry, Entries, EntryAt
  <1>2. pos \in Nat
    BY DirectoryIs DEF Entries
  <1>3. \A V : Visited(V) /\ upc \in InDir => <<here, pos>> \notin Handled(V)
    BY <1>2 DEF Visited, Coming, Handled
  <1> QED
    BY <1>1, <1>2, <1>3

\* An alarm means that two files share a sector, or that the file ends in an illegal link.
LEMMA AlarmMeans ==
  ASSUME image \in Images, PlaceInv, usednum \in 0 .. UsedSize, upc = "chain",
         LoopSeen(usednum, filetr), NEW V, Visited(V), Stale(V)
  PROVE  BadLink(image, Entry) \/ Shared(image)
  <1> DEFINE cur == <<here, pos>>
             c == FileChain
             n == usednum
  <1>1. /\ here \in DirSectors(image) /\ AtFile /\ upc \in InDir
        /\ n > 0 /\ n < UsedSize /\ used[n] = filetr
    BY DEF PlaceInv, InDir, InFile, LoopSeen
  <1>2. /\ pos \in DOMAIN Entries /\ IsFile(image, Entry)
        /\ n + 1 \in DOMAIN c /\ filetr = c[n + 1] /\ filetr # End
    BY <1>1 DEF AtFile
  <1>3. n \in 0 .. UsedSize - 1 /\ ~ n < n /\ n \in Nat
    BY <1>1, WalkAssumption
  <1>4. PICK q \in Handled(V) : OfFile(q, n)
    BY <1>1, <1>2, <1>3 DEF Stale
  <1>5. cur \in Listed(image) /\ EntryAt(image, cur) = Entry /\ cur \notin Handled(V)
    BY <1>1, <1>2, AtHand
  <1>6. q \in Listed(image) /\ q # cur
    BY <1>4, <1>5 DEF Handled
  <1>7. CASE filetr \in Places
    <2>1. /\ n + 1 \in DOMAIN Sectors(image, EntryAt(image, q))
          /\ Sectors(image, EntryAt(image, q))[n + 1] = filetr
      BY <1>1, <1>4 DEF OfFile
    <2>2. /\ n + 1 \in DOMAIN Sectors(image, EntryAt(image, cur))
          /\ Sectors(image, EntryAt(image, cur))[n + 1] = filetr
      BY <1>2, <1>5 DEF FileChain
    <2> QED
      BY <1>5, <1>6, <1>7, <2>1, <2>2 DEF Shared
  <1>8. CASE filetr \notin Places
    <2>1. n + 1 = Len(c) /\ LastOf(image, Entry) = c[Len(c)]
      BY <1>2, <1>8, SectorsAre DEF FileChain
    <2> QED
      BY <1>2, <1>8, <2>1 DEF BadLink
  <1> QED
    BY <1>7, <1>8

\* What the image holds is said of the image alone.
LEMMA SameImage ==
  ASSUME UNCHANGED <<image, copying>>
  PROVE  /\ Flawless' <=> Flawless
         /\ \A q : ImageFile(EntryAt(image, q))' = ImageFile(EntryAt(image, q))
         /\ \A p : LinkOf(p)' = LinkOf(p)
  BY DEF Flawless, Sound, ToCopy, ImageFile, LinkOf

LEMMA SameFile ==
  ASSUME UNCHANGED <<image, here, pos>>
  PROVE  Entries' = Entries /\ Entry' = Entry /\ FileChain' = FileChain
  BY DEF Entries, Entry, FileChain

\* What is known of the directory and the arrays only depends on this.
LEMMA SamePassed ==
  ASSUME UNCHANGED <<image, nexttr, here, pos>>, upc \in InDir <=> upc' \in InDir,
         NEW V, Visited(V)
  PROVE  Visited(V)' /\ Handled(V)' = Handled(V)
  <1>1. Coming' = Coming
    BY DEF Coming
  <1>2. Visited(V)'
    BY <1>1 DEF Visited, LinkOf
  <1>3. Handled(V)' = Handled(V)
    BY DEF Handled
  <1> QED
    BY <1>2, <1>3

\* When the program goes on to the next entry, the file at hand is one of those before.
LEMMA NextFile ==
  ASSUME image \in Images, here \in DirSectors(image), pos \in DOMAIN Entries, IsFile(image, Entry),
         upc \in InFile, upc' = "entry", pos' = pos + 1, UNCHANGED <<image, nexttr, here>>,
         usednum \in 0 .. UsedSize,
         \A i \in 0 .. usednum - 1 : i + 1 \in DOMAIN FileChain /\ used[i] = FileChain[i + 1],
         \A i \in 0 .. UsedSize - 1 :
            used'[i] = used[i] \/ (i + 1 \in DOMAIN FileChain /\ used'[i] = FileChain[i + 1]),
         NEW V, Visited(V), Stale(V)
  PROVE  Visited(V)' /\ Stale(V)' /\ Handled(V)' = Handled(V) \cup {<<here, pos>>}
  <1>0. PICK cur : cur = <<here, pos>>
    OBVIOUS
  <1>1. upc \in InDir /\ upc' \in InDir /\ upc' \notin InFile
    BY DEF InDir, InFile, Transfers
  <1>2. cur \in Listed(image) /\ EntryAt(image, cur) = Entry /\ pos \in Nat
    BY <1>0, AtHand
  <1>3. Coming' = Coming /\ Coming = here
    BY <1>1 DEF Coming
  <1>4. Visited(V)'
    BY <1>3 DEF Visited, LinkOf
  <1>5. Handled(V)' = Handled(V) \cup {cur}
    <2>1. ASSUME NEW q \in Listed(image), q[1] = here
          PROVE  q[2] < pos + 1 <=> q[2] < pos \/ q = cur
      <3>1. q[2] \in Nat /\ q = <<here, q[2]>>
        BY <2>1, ListedIs, DirectoryIs
      <3> QED
        BY <1>0, <1>2, <3>1
    <2>2. ASSUME NEW q
          PROVE  q \in Handled(V)' <=> q \in Handled(V) \/ q = cur
      <3>1. q \in Handled(V)' <=> q \in Listed(image) /\ (q[1] \in V \/ (q[1] = here /\ q[2] < pos + 1))
        BY <1>1 DEF Handled
      <3>2. q \in Handled(V) <=> q \in Listed(image) /\ (q[1] \in V \/ (q[1] = here /\ q[2] < pos))
        BY <1>1 DEF Handled
      <3>3. q = cur => q \in Listed(image) /\ q[1] = here
        BY <1>0, <1>2
      <3> QED
        BY <2>1, <3>1, <3>2, <3>3
    <2> QED
      BY <2>2
  <1>6. ASSUME NEW i \in 0 .. UsedSize - 1
        PROVE  used'[i] = End \/ \E q \in Handled(V)' : OfFile(q, i)'
    <2>1. ASSUME i + 1 \in DOMAIN FileChain, used'[i] = FileChain[i + 1]
          PROVE  \E q \in Handled(V)' : OfFile(q, i)'
      <3>1. OfFile(cur, i)'
        BY <1>2, <2>1 DEF OfFile, FileChain
      <3>2. cur \in Handled(V)'
        BY <1>5
      <3> QED
        BY <3>1, <3>2
    <2>2. CASE used'[i] = used[i]
      <3>1. CASE i < usednum
        <4>1. i \in 0 .. usednum - 1
          BY <3>1
        <4> QED
          BY <2>1, <2>2, <4>1
      <3>2. CASE \E q \in Handled(V) : OfFile(q, i)
        <4>1. PICK q \in Handled(V) : OfFile(q, i)
          BY <3>2
        <4>2. OfFile(q, i)' /\ q \in Handled(V)'
          BY <1>5, <2>2, <4>1 DEF OfFile
        <4> QED
          BY <4>2
      <3> QED
        BY <2>2, <3>1, <3>2 DEF Stale
    <2> QED
      BY <2>1, <2>2
  <1>7. Stale(V)'
    BY <1>6 DEF Stale
  <1> QED
    BY <1>0, <1>4, <1>5, <1>7

\* Going on to the next sector of the directory.
LEMMA WalkDirectory ==
  ASSUME image \in Images, PlaceInv, PassedInv, DirectorySector \/ LastEntry, UNCHANGED acked
  PROVE  PlaceInv' /\ PassedInv'
  <1> USE DEF InDir, InFile, Transfers
  <1>1. UNCHANGED <<image, copying, used>> /\ upc \in {"directory", "entry"}
        /\ upc' \in {"directory", "entry", "endmark", "quit"}
    BY DEF DirectorySector, LastEntry, walkVars
  <1>2. CASE DirectorySector
    <2>1. upc = "directory" /\ nexttr \in DirSectors(image) \cup {End, Illegal}
      BY <1>2 DEF DirectorySector, PlaceInv
    <2>2. DirSectors(image) \subseteq Places /\ End \notin Places /\ Illegal \notin Places
      BY DirectoryIs
    <2>3. CASE nexttr \in DirSectors(image)
      <3>1. upc' = "entry" /\ here' = nexttr /\ nexttr' = LinkOf(nexttr) /\ pos' = 1
        BY <1>2, <2>2, <2>3 DEF DirectorySector, LinkOf
      <3>2. Entries' = image.sector[nexttr].entries
        BY <1>1, <3>1 DEF Entries
      <3>3. Len(Entries') \in Nat
        BY <2>3, <3>2, DirectoryIs
      <3>4. PlaceInv'
        BY <1>1, <2>3, <3>1, <3>3 DEF PlaceInv, LinkOf
      <3>5. ASSUME NEW V, Visited(V) PROVE Visited(V)' /\ Handled(V)' = Handled(V)
        <4>1. Coming = nexttr /\ Coming' = nexttr
          BY <2>1, <3>1 DEF Coming
        <4>2. Visited(V)'
          BY <1>1, <3>5, <4>1 DEF Visited, LinkOf
        <4>3. \A q \in Listed(image) : q[1] \in V \/ (q[1] = nexttr /\ q[2] < 1) <=> q[1] \in V
          <5>1. \A q \in Listed(image) : q[1] \in DirSectors(image) /\ q[2] \in 1 .. Len(image.sector[q[1]].entries)
                                         /\ Len(image.sector[q[1]].entries) \in Nat
            BY ListedIs, DirectoryIs
          <5> QED
            BY <5>1
        <4>4. Handled(V)' = {q \in Listed(image) : q[1] \in V \/ (q[1] = nexttr /\ q[2] < 1)}
          BY <1>1, <3>1 DEF Handled
        <4>5. Handled(V) = {q \in Listed(image) : q[1] \in V}
          BY <2>1 DEF Handled
        <4> QED
          BY <4>2, <4>3, <4>4, <4>5
      <3>6. ASSUME NEW V, Visited(V), Stale(V), Copied(V) PROVE Stale(V)' /\ Copied(V)'
        <4>1. Handled(V)' = Handled(V)
          BY <3>5, <3>6
        <4>2. Stale(V)'
          BY <1>1, <2>1, <3>6, <4>1 DEF Stale, OfFile
        <4>3. Copied(V)'
          BY <1>1, <3>6, <4>1, SameImage DEF Copied
        <4> QED
          BY <4>2, <4>3
      <3>7. PassedInv'
        <4>1. SUFFICES ASSUME DirEnds(image)
                       PROVE  \E V \in SUBSET Places : Visited(V)' /\ Stale(V)' /\ Copied(V)'
          BY <1>1 DEF PassedInv
        <4>2. PICK V \in SUBSET Places : Visited(V) /\ Stale(V) /\ Copied(V)
          BY <4>1 DEF PassedInv
        <4> QED
          BY <3>5, <3>6, <4>2
      <3> QED
        BY <3>4, <3>7
    <2>4. CASE nexttr \in {End, Illegal}
      <3>1. upc' = (IF nexttr = End THEN "endmark" ELSE "quit") /\ UNCHANGED <<here, nexttr, pos>>
        BY <1>2, <2>2, <2>4 DEF DirectorySector, End, Illegal
      <3>2. PlaceInv'
        BY <2>1, <2>4, <3>1 DEF PlaceInv
      <3>3. ASSUME NEW V, Visited(V), Stale(V), Copied(V) PROVE Visited(V)' /\ Stale(V)' /\ Copied(V)'
        <4>1. Visited(V)' /\ Handled(V)' = Handled(V)
          BY <1>1, <2>1, <3>1, <3>3, SamePassed
        <4>2. Stale(V)'
          BY <1>1, <2>1, <3>1, <3>3, <4>1 DEF Stale, OfFile
        <4>3. Copied(V)'
          BY <1>1, <3>3, <4>1, SameImage DEF Copied
        <4> QED
          BY <4>1, <4>2, <4>3
      <3>4. PassedInv'
        BY <1>1, <3>3 DEF PassedInv
      <3> QED
        BY <3>2, <3>4
    <2> QED
      BY <2>1, <2>3, <2>4
  <1>3. CASE LastEntry
    <2>1. upc = "entry" /\ upc' = "directory" /\ pos > Len(Entries) /\ UNCHANGED <<nexttr, here, pos>>
      BY <1>3 DEF LastEntry, walkVars
    <2>2. here \in DirSectors(image) /\ nexttr = LinkOf(here)
      BY <2>1 DEF PlaceInv
    <2>3. PlaceInv'
      BY <1>1, <2>1, <2>2, DirectoryIs DEF PlaceInv
    <2>4. ASSUME DirEnds(image), NEW V \in SUBSET Places, Visited(V), NEW W, W = V \cup {here}
          PROVE  Visited(W)' /\ Handled(W)' = Handled(V)
      <3>1. Coming = here /\ Coming' = nexttr
        BY <2>1 DEF Coming
      <3>2. W \in SUBSET Places /\ image.dir \in W /\ \A p \in W : LinkOf(p) \in W \cup {nexttr}
        BY <2>2, <2>4, <3>1, DirectoryIs DEF Visited
      <3>3. nexttr \notin W
        <4>1. SUFFICES ASSUME nexttr \in W PROVE FALSE
          OBVIOUS
        <4>2. \A p \in W : LinkOf(p) \in W
          BY <3>2, <4>1
        <4> QED
          BY <2>4, <3>2, <4>2, NeverAgain
      <3>4. Visited(W)'
        BY <1>1, <3>1, <3>2, <3>3 DEF Visited, LinkOf
      <3>5. \A q \in Listed(image) : q[1] = here => q[2] < pos
        <4>1. ASSUME NEW q \in Listed(image), q[1] = here PROVE q[2] < pos
          <5>1. q[2] \in 1 .. Len(Entries) /\ Len(Entries) \in Nat
            BY <4>1, ListedIs, DirectoryIs DEF Entries
          <5>2. pos \in Nat
            BY <2>1, <5>1 DEF PlaceInv
          <5> QED
            BY <2>1, <5>1, <5>2
        <4> QED
          BY <4>1
      <3>6. Handled(W)' = {q \in Listed(image) : q[1] \in W}
        BY <1>1, <2>1 DEF Handled
      <3>7. Handled(V) = {q \in Listed(image) : q[1] \in V \/ (q[1] = here /\ q[2] < pos)}
        BY <2>1 DEF Handled
      <3> QED
        BY <2>4, <3>4, <3>5, <3>6, <3>7
    <2>5. PassedInv'
      <3>1. SUFFICES ASSUME DirEnds(image)
                     PROVE  \E V \in SUBSET Places : Visited(V)' /\ Stale(V)' /\ Copied(V)'
        BY <1>1 DEF PassedInv
      <3>2. PICK V \in SUBSET Places : Visited(V) /\ Stale(V) /\ Copied(V)
        BY <3>1 DEF PassedInv
      <3>w. PICK W : W = V \cup {here}
        OBVIOUS
      <3>3. Visited(W)' /\ Handled(W)' = Handled(V)
        BY <2>4, <3>1, <3>2, <3>w
      <3>4. W \in SUBSET Places
        BY <2>2, <3>w, DirectoryIs
      <3>5. Stale(W)'
        BY <1>1, <2>1, <3>2, <3>3 DEF Stale, OfFile
      <3>6. Copied(W)'
        BY <1>1, <3>2, <3>3, SameImage DEF Copied
      <3> QED
        BY <3>3, <3>4, <3>5, <3>6
    <2> QED
      BY <2>3, <2>5
  <1> QED
    BY <1>2, <1>3

\* An entry that is no file, or a file from its first sector.
LEMMA WalkEntry ==
  ASSUME WalkTypes, PlaceInv, PassedInv, SkipEntry \/ FirstSector, UNCHANGED <<jobs, turn, acked>>
  PROVE  WalkTypes' /\ PlaceInv' /\ PassedInv'
  <1> USE DEF InDir, InFile, Transfers
  <1>1. /\ UNCHANGED <<image, copying, nexttr, here, used>> /\ upc = "entry" /\ image \in Images
        /\ pos <= Len(Entries) /\ Cmd' = Cmd
    BY DEF SkipEntry, FirstSector, WalkTypes, Cmd
  <1>2. /\ here \in DirSectors(image) /\ nexttr = LinkOf(here) /\ pos \in 1 .. Len(Entries) + 1
        /\ Len(Entries) \in Nat /\ DOMAIN Entries = 1 .. Len(Entries) /\ Entries' = Entries
        /\ pos \in DOMAIN Entries
    <2>1. here \in DirSectors(image) /\ nexttr = LinkOf(here) /\ pos \in 1 .. Len(Entries) + 1
      BY <1>1 DEF PlaceInv
    <2>2. Len(Entries) \in Nat /\ DOMAIN Entries = 1 .. Len(Entries) /\ Entries' = Entries
      BY <1>1, <2>1, DirectoryIs DEF Entries
    <2> QED
      BY <1>1, <2>1, <2>2
  <1>3. CASE SkipEntry
    <2>1. upc' = "entry" /\ pos' = pos + 1 /\ ~IsFile(image, Entry) /\ UNCHANGED <<usednum, filebuf>>
      BY <1>1, <1>3 DEF SkipEntry
    <2>2. WalkTypes'
      BY <1>1, <2>1 DEF WalkTypes
    <2>3. PlaceInv'
      BY <1>1, <1>2, <2>1 DEF PlaceInv, LinkOf
    <2>4. ASSUME NEW V, Visited(V) PROVE Visited(V)' /\ Handled(V)' = Handled(V)
      <3>1. Coming = here /\ Coming' = here
        BY <1>1, <2>1 DEF Coming
      <3>2. Visited(V)'
        BY <1>1, <2>4, <3>1 DEF Visited, LinkOf
      <3>3. ASSUME NEW q \in Listed(image), q[1] = here PROVE q[2] < pos + 1 <=> q[2] < pos
        <4>1. q[2] \in Nat /\ IsFile(image, Entries[q[2]])
          BY <1>2, <3>3, ListedIs DEF Entries
        <4>2. q[2] # pos
          BY <2>1, <4>1 DEF Entry
        <4> QED
          BY <1>2, <4>1, <4>2
      <3>4. Handled(V)' = {q \in Listed(image) : q[1] \in V \/ (q[1] = here /\ q[2] < pos + 1)}
        BY <1>1, <2>1 DEF Handled
      <3>5. Handled(V) = {q \in Listed(image) : q[1] \in V \/ (q[1] = here /\ q[2] < pos)}
        BY <1>1 DEF Handled
      <3> QED
        BY <3>2, <3>3, <3>4, <3>5
    <2>5. ASSUME NEW V, Visited(V), Stale(V), Copied(V) PROVE Stale(V)' /\ Copied(V)'
      <3>1. Handled(V)' = Handled(V)
        BY <2>4, <2>5
      <3>2. Stale(V)'
        BY <1>1, <2>1, <2>5, <3>1 DEF Stale, OfFile
      <3>3. Copied(V)'
        BY <1>1, <2>5, <3>1, SameImage DEF Copied
      <3> QED
        BY <3>2, <3>3
    <2>6. PassedInv'
      BY <1>1, <2>4, <2>5 DEF PassedInv
    <2> QED
      BY <2>2, <2>3, <2>6
  <1>4. CASE FirstSector
    <2>1. /\ upc' = "chain" /\ IsFile(image, Entry) /\ filetr' = Entry.first /\ usednum' = 0 /\ filebuf' = <<>>
          /\ UNCHANGED pos
      BY <1>4 DEF FirstSector
    <2>2. Entry' = Entry /\ FileChain' = FileChain
      BY <1>1, <2>1, SameFile
    <2>3. WalkTypes'
      <3>1. filebuf' \in Seq(Bytes) /\ usednum' \in 0 .. UsedSize
        BY <2>1, WalkAssumption
      <3> QED
        BY <1>1, <2>1, <3>1 DEF WalkTypes
    <2>4. Len(FileChain) \in Nat /\ 1 \in DOMAIN FileChain /\ FileChain[1] = Entry.first
      BY <1>1, SectorsAre, WalkAssumption DEF FileChain
    <2>5. Gathered(image, FileChain)[0] = <<>>
      BY <1>1, <2>4, GatheredIs
    <2>6. AtFile'
      <3>1. (\A i \in 0 .. usednum - 1 : i + 1 \in DOMAIN FileChain /\ used[i] = FileChain[i + 1])'
        BY <2>1
      <3>2. (Gathered(image, FileChain)[usednum])' = <<>>
        BY <1>1, <2>1, <2>2, <2>5
      <3>3. (usednum + 1 \in DOMAIN FileChain /\ filetr = FileChain[usednum + 1])'
        BY <2>1, <2>2, <2>4
      <3> QED
        BY <1>1, <1>2, <2>1, <2>2, <3>1, <3>2, <3>3 DEF AtFile
    <2>7. PlaceInv'
      BY <1>1, <1>2, <2>1, <2>6 DEF PlaceInv, LinkOf
    <2>8. ASSUME NEW V, Visited(V), Stale(V), Copied(V) PROVE Visited(V)' /\ Stale(V)' /\ Copied(V)'
      <3>1. Visited(V)' /\ Handled(V)' = Handled(V)
        BY <1>1, <2>1, <2>8, SamePassed
      <3>2. Stale(V)'
        BY <1>1, <2>1, <2>8, <3>1 DEF Stale, OfFile
      <3>3. Copied(V)'
        BY <1>1, <2>8, <3>1, SameImage DEF Copied
      <3> QED
        BY <3>1, <3>2, <3>3
    <2>9. PassedInv'
      BY <1>1, <2>8 DEF PassedInv
    <2> QED
      BY <2>3, <2>7, <2>9
  <1> QED
    BY <1>3, <1>4

\* A file is left where it is found broken: not in a sound image.
LEMMA WalkLeaves ==
  ASSUME WalkTypes, PlaceInv, PassedInv, LoopFound \/ IllegalLink, UNCHANGED <<jobs, turn, acked>>
  PROVE  WalkTypes' /\ PlaceInv' /\ PassedInv'
  <1>1. /\ UNCHANGED <<image, copying, nexttr, here, filebuf>> /\ upc = "chain" /\ image \in Images
        /\ upc' = "entry" /\ pos' = pos + 1 /\ upc \in InFile /\ upc \in InDir /\ Cmd' = Cmd
    BY DEF LoopFound, IllegalLink, Remember, WalkTypes, Cmd, InDir, InFile
  <1>2. /\ here \in DirSectors(image) /\ nexttr = LinkOf(here) /\ AtFile
        /\ usednum \in 0 .. UsedSize /\ used = [i \in 0 .. UsedSize - 1 |-> used[i]]
    BY <1>1 DEF PlaceInv, WalkTypes
  <1>3. /\ pos \in DOMAIN Entries /\ IsFile(image, Entry)
        /\ \A i \in 0 .. usednum - 1 : i + 1 \in DOMAIN FileChain /\ used[i] = FileChain[i + 1]
        /\ usednum + 1 \in DOMAIN FileChain /\ filetr = FileChain[usednum + 1]
        /\ usednum > 0 => filetr # End
    BY <1>1, <1>2 DEF AtFile
  <1>4. Entries' = Entries /\ Len(Entries) \in Nat /\ DOMAIN Entries = 1 .. Len(Entries)
    BY <1>1, <1>2, DirectoryIs DEF Entries
  <1>5. /\ usednum' \in 0 .. UsedSize /\ used' = [i \in 0 .. UsedSize - 1 |-> used'[i]]
        /\ \A i \in 0 .. UsedSize - 1 :
              used'[i] = used[i] \/ (i + 1 \in DOMAIN FileChain /\ used'[i] = FileChain[i + 1])
    <2>1. CASE LoopFound
      BY <1>2, <2>1 DEF LoopFound
    <2>2. CASE IllegalLink
      <3>1. used' = [used EXCEPT ![usednum] = filetr] /\ usednum' = usednum + 1 /\ usednum < UsedSize
        BY <2>2 DEF IllegalLink, Remember
      <3>2. usednum' \in 0 .. UsedSize
        BY <1>2, <3>1, WalkAssumption
      <3> QED
        BY <1>2, <1>3, <3>1, <3>2
    <2> QED
      BY <2>1, <2>2
  <1>6. WalkTypes'
    BY <1>1, <1>5 DEF WalkTypes, Transfers
  <1>7. PlaceInv'
    BY <1>1, <1>2, <1>3, <1>4 DEF PlaceInv, LinkOf, InDir, InFile, Transfers
  <1>8. ASSUME DirEnds(image), Flawless, NEW V, Visited(V), Stale(V) PROVE FALSE
    <2>1. Sound /\ ~Shared(image)
      BY <1>8 DEF Flawless
    <2>2. Entry \in ToCopy
      <3>1. <<here, pos>> \in Listed(image) /\ EntryAt(image, <<here, pos>>) = Entry
        BY <1>1, <1>2, <1>3, AtHand
      <3> QED
        BY <3>1 DEF ToCopy
    <2>3. Entry.first \in Places /\ LastOf(image, Entry) = End
      BY <2>1, <2>2 DEF Sound, EndsInTime
    <2>4. CASE LoopFound
      <3>1. LoopSeen(usednum, filetr)
        BY <2>4 DEF LoopFound
      <3> QED
        BY <1>1, <1>2, <1>8, <2>1, <2>3, <3>1, AlarmMeans DEF BadLink
    <2>5. CASE IllegalLink
      <3>1. filetr \notin Places
        BY <2>5 DEF IllegalLink
      <3>2. filetr = LastOf(image, Entry)
        BY <1>1, <1>3, <3>1, SectorsAre DEF FileChain
      <3>3. usednum = 0
        BY <1>2, <1>3, <2>3, <3>2
      <3>4. filetr = Entry.first
        BY <1>1, <1>3, <3>3, SectorsAre DEF FileChain
      <3> QED
        BY <2>3, <3>1, <3>4
    <2> QED
      BY <2>4, <2>5
  <1>9. PassedInv'
    <2>1. SUFFICES ASSUME DirEnds(image)
                   PROVE  \E V \in SUBSET Places : Visited(V)' /\ Stale(V)' /\ Copied(V)'
      BY <1>1 DEF PassedInv
    <2>2. PICK V \in SUBSET Places : Visited(V) /\ Stale(V) /\ Copied(V)
      BY <2>1 DEF PassedInv
    <2>3. Visited(V)' /\ Stale(V)'
      BY <1>1, <1>2, <1>3, <1>5, <2>2, NextFile
    <2>4. ~Flawless'
      BY <1>1, <1>8, <2>1, <2>2, SameImage
    <2>5. Copied(V)'
      BY <2>4 DEF Copied
    <2> QED
      BY <2>3, <2>5
  <1> QED
    BY <1>6, <1>7, <1>9

\* What is left of the steps at a file: one sector more, or too many.
LEMMA WalkSector ==
  ASSUME WalkTypes, PlaceInv, PassedInv, ChainSector \/ Overrun, UNCHANGED <<jobs, turn, acked>>
  PROVE  WalkTypes' /\ PlaceInv' /\ PassedInv'
  <1>1. /\ UNCHANGED <<image, copying, nexttr, here>> /\ upc = "chain" /\ image \in Images
        /\ upc \in InFile /\ upc \in InDir /\ Cmd' = Cmd
    BY DEF ChainSector, Overrun, Remember, WalkTypes, Cmd, InDir, InFile, walkVars
  <1>2. /\ here \in DirSectors(image) /\ nexttr = LinkOf(here) /\ AtFile /\ pos \in 1 .. Len(Entries) + 1
        /\ usednum \in 0 .. UsedSize /\ used = [i \in 0 .. UsedSize - 1 |-> used[i]] /\ filebuf \in Seq(Bytes)
    BY <1>1 DEF PlaceInv, WalkTypes
  <1>3. /\ pos \in DOMAIN Entries /\ IsFile(image, Entry)
        /\ \A i \in 0 .. usednum - 1 : i + 1 \in DOMAIN FileChain /\ used[i] = FileChain[i + 1]
        /\ usednum + 1 \in DOMAIN FileChain /\ filetr = FileChain[usednum + 1]
        /\ usednum > 0 => filetr # End
        /\ filebuf = Gathered(image, FileChain)[usednum]
    BY <1>1, <1>2 DEF AtFile
  <1>4. Entries' = Entries /\ Len(Entries) \in Nat /\ DOMAIN Entries = 1 .. Len(Entries)
    BY <1>1, <1>2, DirectoryIs DEF Entries
  <1>5. CASE Overrun
    <2>1. upc' = "overrun" /\ UNCHANGED <<pos, used, usednum, filetr, filebuf>>
      BY <1>5 DEF Overrun, walkVars
    <2>2. WalkTypes'
      BY <1>1, <1>2, <2>1 DEF WalkTypes, Transfers
    <2>3. Entry' = Entry /\ FileChain' = FileChain
      BY <1>1, <2>1, SameFile
    <2>4. AtFile'
      BY <1>1, <1>3, <1>4, <2>1, <2>3 DEF AtFile, Transfers
    <2>5. PlaceInv'
      BY <1>1, <1>2, <1>4, <2>1, <2>4 DEF PlaceInv, LinkOf, InDir, InFile
    <2>6. ASSUME NEW V, Visited(V), Stale(V), Copied(V) PROVE Visited(V)' /\ Stale(V)' /\ Copied(V)'
      <3>1. Visited(V)' /\ Handled(V)' = Handled(V)
        BY <1>1, <2>1, <2>6, SamePassed DEF InDir, InFile
      <3>2. Stale(V)'
        BY <1>1, <2>1, <2>6, <3>1 DEF Stale, OfFile, InFile
      <3>3. Copied(V)'
        BY <1>1, <2>6, <3>1, SameImage DEF Copied
      <3> QED
        BY <3>1, <3>2, <3>3
    <2>7. PassedInv'
      BY <1>1, <2>6 DEF PassedInv
    <2> QED
      BY <2>2, <2>5, <2>7
  <1>6. CASE ChainSector
    <2> DEFINE c == FileChain
               link == image.sector[filetr].next
    <2>1. /\ filetr \in Places /\ usednum < UsedSize
          /\ used' = [used EXCEPT ![usednum] = filetr] /\ usednum' = usednum + 1
          /\ filebuf' = filebuf \o image.sector[filetr].bytes /\ filetr' = link
          /\ upc' = (IF link # End THEN "chain" ELSE IF copying THEN "type" ELSE "entry")
          /\ pos' = (IF upc' = "entry" THEN pos + 1 ELSE pos)
      <3>1. /\ filetr \in Places /\ usednum < UsedSize
            /\ used' = [used EXCEPT ![usednum] = filetr] /\ usednum' = usednum + 1
            /\ filebuf' = filebuf \o image.sector[filetr].bytes /\ filetr' = link
        BY <1>6 DEF ChainSector, Remember, Collect
      <3>2. /\ upc' = CASE link # End -> "chain" [] link = End /\ copying -> "type" [] OTHER -> "entry"
            /\ pos' = IF upc' = "entry" THEN pos + 1 ELSE pos
        BY <1>6 DEF ChainSector
      <3> HIDE DEF link
      <3>3. upc' = IF link # End THEN "chain" ELSE IF copying THEN "type" ELSE "entry"
        <4>1. CASE link # End
          BY <3>2, <4>1
        <4>2. CASE link = End /\ copying
          BY <3>2, <4>2
        <4>3. CASE link = End /\ ~copying
          BY <3>2, <4>3
        <4> QED
          BY <4>1, <4>2, <4>3
      <3> QED
        BY <3>1, <3>2, <3>3
    <2>2. UsedSize \in Nat /\ usednum \in 0 .. UsedSize - 1 /\ usednum' \in 0 .. UsedSize
      BY <1>2, <2>1, WalkAssumption
    <2>3. Len(c) \in Nat /\ DOMAIN c = 1 .. Len(c)
      BY <1>1, SectorsAre, WalkAssumption
    <2>4. usednum + 2 \in DOMAIN c /\ c[usednum + 2] = link
      <3>1. usednum + 1 <= UsedSize + 1 /\ (usednum + 1) + 1 = usednum + 2
        BY <2>2
      <3> HIDE DEF link
      <3>2. \A i \in DOMAIN c : i <= UsedSize + 1 /\ c[i] \in Places =>
               i + 1 \in DOMAIN c /\ c[i + 1] = image.sector[c[i]].next
        BY <1>1, SectorsAre DEF FileChain
      <3>3. (usednum + 1) + 1 \in DOMAIN c /\ c[(usednum + 1) + 1] = image.sector[filetr].next
        <4> HIDE DEF c
        <4> QED
          BY <1>3, <2>1, <3>1, <3>2 DEF c
      <3> QED
        BY <3>1, <3>3 DEF link
    <2>5. Gathered(image, c)[usednum + 1] = filebuf' /\ filebuf' \in Seq(Bytes)
      <3>1. usednum + 1 \in 1 .. Len(c) /\ (usednum + 1) - 1 = usednum /\ usednum + 1 \in 0 .. Len(c)
        BY <1>3, <2>2, <2>3
      <3>2. /\ \A n \in 0 .. Len(c) : Gathered(image, c)[n] \in Seq(Bytes)
            /\ \A n \in 1 .. Len(c) :
                  Gathered(image, c)[n] = IF c[n] \in Places
                                          THEN Gathered(image, c)[n - 1] \o image.sector[c[n]].bytes
                                          ELSE Gathered(image, c)[n - 1]
        <4> HIDE DEF c
        <4> QED
          BY <1>1, <2>3, GatheredIs
      <3>3. c[usednum + 1] = filetr /\ Gathered(image, c)[usednum] = filebuf
        BY <1>3
      <3> HIDE DEF c, link
      <3>4. Gathered(image, c)[usednum + 1] = Gathered(image, c)[(usednum + 1) - 1] \o image.sector[filetr].bytes
        BY <2>1, <3>1, <3>2, <3>3
      <3> QED
        BY <2>1, <3>1, <3>2, <3>3, <3>4
    <2>6. used' = [i \in 0 .. UsedSize - 1 |-> used'[i]]
          /\ \A i \in 0 .. UsedSize - 1 : used'[i] = IF i = usednum THEN c[usednum + 1] ELSE used[i]
      BY <1>2, <1>3, <2>1
    <2>7. \A i \in 0 .. usednum' - 1 : i + 1 \in DOMAIN c /\ used'[i] = c[i + 1]
      <3>1. ASSUME NEW i \in 0 .. usednum' - 1 PROVE i + 1 \in DOMAIN c /\ used'[i] = c[i + 1]
        <4>1. i \in 0 .. UsedSize - 1 /\ (i = usednum \/ i \in 0 .. usednum - 1)
          BY <2>1, <2>2
        <4> QED
          BY <1>3, <2>6, <4>1
      <3> QED
        BY <3>1
    <2>8. WalkTypes'
      BY <1>1, <2>1, <2>2, <2>5, <2>6 DEF WalkTypes, Transfers
    <2>9. CASE upc' # "entry"
      <3>1. pos' = pos /\ Entry' = Entry /\ FileChain' = c
        BY <1>1, <2>1, <2>9, SameFile
      <3>2. link = End => FileBytes(image, c) = filebuf'
        <4>1. SUFFICES ASSUME link = End PROVE FileBytes(image, c) = filebuf'
          OBVIOUS
        <4>2. link \notin Places
          BY <1>1, <4>1, DirectoryIs
        <4>3. Len(c) = usednum + 2
          <5>1. \A i \in DOMAIN c : c[i] \notin Places => i = Len(c)
            BY <1>1, SectorsAre DEF FileChain
          <5> HIDE DEF c, link
          <5> QED
            BY <2>4, <4>2, <5>1
        <4>4. usednum + 2 \in 1 .. Len(c) /\ (usednum + 2) - 1 = usednum + 1
          BY <2>2, <2>3, <2>4
        <4> HIDE DEF c, link
        <4> QED
          BY <1>1, <2>3, <2>4, <2>5, <4>2, <4>3, <4>4, GatheredIs
      <3>3. upc' \in {"chain", "overrun"} => upc' = "chain" /\ link # End
        BY <2>1
      <3>4. upc' \in Transfers => upc' = "type" /\ link = End
        BY <2>1 DEF Transfers
      <3>5. upc' \in {"chain", "type"}
        BY <2>1, <2>9
      <3>6. usednum' + 1 = usednum + 2
        BY <2>1, <2>2
      <3>7. AtFile'
        <4> HIDE DEF c, link
        <4> QED
          BY <1>1, <1>3, <1>4, <2>1, <2>4, <2>5, <2>7, <3>1, <3>2, <3>3, <3>4, <3>6 DEF AtFile, c
      <3>8. PlaceInv'
        BY <1>1, <1>2, <1>4, <3>1, <3>5, <3>7 DEF PlaceInv, LinkOf, InDir, InFile, Transfers
      <3>9. ASSUME NEW V, Visited(V), Stale(V), Copied(V) PROVE Visited(V)' /\ Stale(V)' /\ Copied(V)'
        <4>1. Visited(V)' /\ Handled(V)' = Handled(V)
          BY <1>1, <3>1, <3>5, <3>9, SamePassed DEF InDir, InFile, Transfers
        <4>2. Stale(V)'
          <5>1. ASSUME NEW i \in 0 .. UsedSize - 1, ~ i < usednum'
                PROVE  used'[i] = End \/ \E q \in Handled(V)' : OfFile(q, i)'
            <6>1. i # usednum /\ ~ i < usednum
              BY <2>1, <2>2, <5>1
            <6>2. used'[i] = used[i]
              BY <2>6, <6>1
            <6> QED
              BY <1>1, <3>9, <4>1, <6>1, <6>2 DEF Stale, OfFile
          <5>2. upc' \in InFile
            BY <3>5 DEF InFile, Transfers
          <5> QED
            BY <5>1, <5>2 DEF Stale
        <4>3. Copied(V)'
          BY <1>1, <3>9, <4>1, SameImage DEF Copied
        <4> QED
          BY <4>1, <4>2, <4>3
      <3>10. PassedInv'
        BY <1>1, <3>9 DEF PassedInv
      <3> QED
        BY <2>8, <3>8, <3>10
    <2>10. CASE upc' = "entry"
      <3>1. pos' = pos + 1 /\ ~copying
        BY <2>1, <2>10
      <3>2. PlaceInv'
        BY <1>1, <1>2, <1>3, <1>4, <2>10, <3>1 DEF PlaceInv, LinkOf, InDir, InFile, Transfers
      <3>3. \A i \in 0 .. UsedSize - 1 :
               used'[i] = used[i] \/ (i + 1 \in DOMAIN c /\ used'[i] = c[i + 1])
        BY <1>3, <2>6
      <3>4. ASSUME NEW V, Visited(V), Stale(V) PROVE Visited(V)' /\ Stale(V)'
        BY <1>1, <1>2, <1>3, <2>10, <3>1, <3>3, <3>4, NextFile
      <3>5. \A V : Copied(V)'
        BY <1>1, <3>1 DEF Copied, Flawless
      <3>6. PassedInv'
        BY <1>1, <3>4, <3>5 DEF PassedInv
      <3> QED
        BY <2>8, <3>2, <3>6
    <2> QED
      BY <2>9, <2>10
  <1> QED
    BY <1>5, <1>6

\* Every step of the walk keeps what is known of it.
LEMMA WalkStep ==
  ASSUME WalkInv, AtCopy, WalkNext, UNCHANGED <<jobs, turn, tool, acked>>
  PROVE  WalkInv' /\ ~single /\ UNCHANGED <<image, copying, single>>
  <1>1. upc \in {"directory", "entry", "chain"} /\ UNCHANGED <<image, copying, single>>
    BY DEF WalkNext, DirectorySector, LastEntry, SkipEntry, FirstSector, LoopFound, Overrun, Remember, IllegalLink,
           ChainSector, walkVars
  <1>2. ~single /\ WalkTypes /\ PlaceInv /\ PassedInv
    BY <1>1 DEF WalkInv, AloneInv, Transfers
  <1>3. WalkTypes' /\ PlaceInv' /\ PassedInv'
    <2>1. CASE DirectorySector \/ LastEntry
      <3>1. UNCHANGED <<usednum, used, filebuf>> /\ upc' \notin Transfers /\ Cmd' = Cmd
        BY <2>1 DEF DirectorySector, LastEntry, walkVars, Transfers, Cmd
      <3>2. WalkTypes'
        BY <1>1, <1>2, <3>1 DEF WalkTypes
      <3> QED
        BY <1>2, <2>1, <3>2, WalkDirectory DEF WalkTypes
    <2>2. CASE SkipEntry \/ FirstSector
      BY <1>2, <2>2, WalkEntry
    <2>3. CASE LoopFound \/ IllegalLink
      BY <1>2, <2>3, WalkLeaves
    <2>4. CASE ChainSector \/ Overrun
      BY <1>2, <2>4, WalkSector
    <2> QED
      BY <2>1, <2>2, <2>3, <2>4 DEF WalkNext
  <1> QED
    BY <1>1, <1>2, <1>3 DEF WalkInv

-----------------------------------------------------------------------------
\* The steps of C64 and user that are none of the copy.
Aside ==
    /\ UNCHANGED <<upc, walkVars, pcVars, sumVars, fileVars, driveVars, glitched>>
    /\ cpc' \in {cpc, "menu"}

\* What can happen while the program copies.
LEMMA CopySteps ==
  ASSUME AtWork, InItems, Matched, Kept, [Next]_vars, AtWork', AtCopy'
  PROVE  \/ \E there \in BOOLEAN : StartChusb(there)
         \/ /\ AtCopy /\ UNCHANGED <<jobs, turn, tool>>
            /\ \/ Walk \/ StartCommand \/ Command \/ Copy \/ OpenFile \/ Aside
               \/ \E taken, stop \in BOOLEAN : CloseFile(taken, stop)
  <1>n. ASSUME UNCHANGED <<jobs, turn>> PROVE Cmd' = Cmd /\ Cmd.cmd \in {"copy", "dir"}
    BY <1>n DEF AtCopy, Cmd
  <1>s. tool' = "chusb"
    BY DEF AtCopy
  <1>0. CASE UNCHANGED vars
    <2>1. Aside /\ UNCHANGED <<jobs, turn, tool>>
      BY <1>0 DEF vars, usbVars, directVars, toolVars, serverVars, Aside
    <2> QED
      BY <1>n, <1>s, <2>1 DEF AtCopy
  <1>1. CASE CodenetNext /\ UNCHANGED usbVars
    <2>1. ~Running("copy")' /\ ~Running("dir")'
      BY <1>1, PlacesCodenet DEF Matched
    <2> QED
      BY <2>1 DEF AtCopy, AtWork, Running
  <1>2. CASE (BasicNext /\ UNCHANGED usbVars) \/ ServerStarts \/ UserContinues \/ UserResets
    <2>1. UNCHANGED <<jobs, turn, tool>> /\ cpc' \in {cpc, "menu"}
      BY <1>2, PlacesIdle DEF Idle
    <2>2. Aside
      <3>1. CASE BasicNext /\ UNCHANGED usbVars
        BY <3>1 DEF Aside, usbVars, serverVars
      <3>2. CASE ServerStarts \/ UserContinues
        BY <2>1, <3>2 DEF ServerStarts, UserContinues, Aside
      <3>3. CASE UserResets
        BY <2>1, <3>3 DEF UserResets, Aside, usbVars, serverVars
      <3> QED
        BY <1>2, <3>1, <3>2, <3>3
    <2> QED
      BY <1>n, <1>s, <2>1, <2>2 DEF AtCopy
  <1>3. CASE Quit \/ Walk \/ Send
    <2>1. UNCHANGED <<jobs, turn>> /\ tool = "chusb"
      BY <1>3 DEF Quit, Exits, Walk, Send, CheckServer, StartNoAck, Meet, GoesOn, DmaDone, directVars, toolVars
    <2>2. Quit => tool' # "chusb"
      BY DEF Quit, Exits
    <2>3. Send => upc \in Starting
      BY DEF Send, CheckServer, StartNoAck, Meet, DmaDone, Starting
    <2>4. Walk
      BY <1>3, <1>n, <1>s, <2>1, <2>2, <2>3 DEF AtWork, Sending
    <2> QED
      BY <1>n, <1>s, <2>1, <2>4 DEF AtCopy
  <1>4. CASE Copy
    <2>1. UNCHANGED <<jobs, turn>> /\ tool = "chusb"
      BY <1>4 DEF Copy, SendType, EndMark, SendName, SendLen, SendSum, SendData, Swallow, FileAck, Meet, GoesOn, Exits,
           directVars, toolVars
    <2> QED
      BY <1>4, <1>n, <1>s, <2>1 DEF AtCopy
  <1>5. CASE StartCommand \/ Command
    <2>1. UNCHANGED <<jobs, turn, tool>>
      BY <1>5, PlacesCommand
    <2> QED
      BY <1>5, <1>n, <1>s, <2>1 DEF AtCopy
  <1>6. CASE Sector
    <2>1. UNCHANGED <<jobs, turn>> /\ Cmd.cmd \in {"write", "read"}
      BY <1>6, MatchedSector
    <2> QED
      BY <1>n, <2>1
  <1>7. CASE Other
    <2>1. Cmd.cmd \in {"fetch", "format", "test"} /\ UNCHANGED <<jobs, turn>>
      BY <1>7, MatchedOther
    <2> QED
      BY <1>n, <2>1
  <1>8. CASE ServerAlone \/ Browse \/ UserTypes
    <2>1. /\ UNCHANGED <<jobs, turn, tool>>
          /\ FormatDisk => Cmd.cmd = "format"
          /\ Browse => Cmd.cmd = "fetch"
          /\ (\E b \in BOOLEAN : StoreSector(b) \/ ReadSector(b) \/ CheckKey(b)) \/ VerifySector =>
                Cmd.cmd \in {"write", "read"}
          /\ NoDrive \/ UserTypes => Cmd.cmd \in {"write", "read", "fetch"}
      BY <1>8, MatchedAlone
    <2>2. OpenFile \/ \E taken, stop \in BOOLEAN : CloseFile(taken, stop)
      BY <1>8, <1>n, <2>1 DEF ServerAlone
    <2> QED
      BY <1>n, <1>s, <2>1, <2>2 DEF AtCopy
  <1> QED
    BY <1>0, <1>1, <1>2, <1>3, <1>4, <1>5, <1>6, <1>7, <1>8 DEF Next, Program, C64, User

\* What has nothing to do with the walk.
LEMMA PassedSame ==
  ASSUME PassedInv, UNCHANGED <<image, copying, used, nexttr, here, pos, acked>>,
         upc \in InDir <=> upc' \in InDir, upc \in InFile <=> upc' \in InFile,
         upc \in InFile => usednum' = usednum
  PROVE  PassedInv'
  <1>1. ASSUME NEW V, Visited(V), Stale(V), Copied(V) PROVE Visited(V)' /\ Stale(V)' /\ Copied(V)'
    <2>1. Visited(V)' /\ Handled(V)' = Handled(V)
      BY <1>1, SamePassed
    <2>2. Stale(V)'
      BY <1>1, <2>1 DEF Stale, OfFile
    <2>3. Copied(V)'
      BY <1>1, <2>1, SameImage DEF Copied
    <2> QED
      BY <2>1, <2>2, <2>3
  <1> QED
    BY <1>1 DEF PassedInv

LEMMA WalkSame ==
  ASSUME WalkInv, AtCopy, UNCHANGED <<jobs, turn, tool, walkVars, acked>>,
         upc' = upc \/ (upc \in Transfers /\ upc' \in Transfers)
  PROVE  WalkInv'
  <1>1. Cmd' = Cmd /\ UNCHANGED <<image, copying, single, nexttr, here, pos, used, usednum, filebuf, filetr>>
    BY DEF Cmd, walkVars
  <1>2. WalkTypes /\ WalkTypes'
    BY <1>1 DEF WalkInv, WalkTypes
  <1>3. CASE single
    BY <1>1, <1>2, <1>3 DEF WalkInv, AloneInv
  <1>4. CASE ~single
    <2>1. PlaceInv /\ PassedInv
      BY <1>4 DEF WalkInv
    <2>2. Entries' = Entries /\ Entry' = Entry /\ FileChain' = FileChain
      BY <1>1, SameFile
    <2>3. upc' # upc => upc' \in InFile /\ upc \in InFile /\ upc' \in Transfers /\ upc \in Transfers
      BY DEF InFile
    <2>4. AtFile => AtFile'
      BY <1>1, <2>2, <2>3 DEF AtFile, Transfers
    <2>5. PlaceInv'
      BY <1>1, <2>1, <2>2, <2>3, <2>4 DEF PlaceInv, LinkOf, Transfers, InFile, InDir
    <2>6. PassedInv'
      BY <1>1, <2>1, <2>3, PassedSame DEF InFile, InDir, Transfers
    <2> QED
      BY <1>1, <1>2, <1>4, <2>5, <2>6 DEF WalkInv
  <1> QED
    BY <1>3, <1>4

\* The walk begins in front of the directory.
LEMMA WalkStart ==
  ASSUME AtWork, NEW there \in BOOLEAN, StartChusb(there), AtCopy'
  PROVE  WalkInv'
  <1>1. /\ jobs \in Sessions /\ turn + 1 \in DOMAIN jobs /\ Job.prog = "chusb" /\ Cmd' = Job
        /\ Job.cmd \in {"copy", "dir"} /\ tool' = "chusb"
    <2>1. jobs \in Sessions /\ turn \in 0 .. Len(jobs) /\ turn < Len(jobs) /\ turn' = turn + 1 /\ jobs' = jobs
          /\ Job.prog = "chusb"
      BY DEF AtWork, StartChusb, Starts
    <2>2. Cmd' = Job
      BY <2>1 DEF Cmd, Job
    <2>3. turn + 1 \in DOMAIN jobs
      BY <2>1, JobsAre
    <2> QED
      BY <2>1, <2>2, <2>3 DEF AtCopy
  <1>2. Job.image \in Images /\ Job.file.body \in Seq(Bytes)
    BY <1>1, SessionAssumption DEF Job
  <1>3. there /\ ~Unsupported(Job) /\ upc' = IF Job.cmd = "dir" THEN "directory" ELSE "sync"
    <2>1. there /\ ~Unsupported(Job)
      BY <1>1 DEF StartChusb
    <2>2. upc' = CASE Job.cmd = "dir" -> "directory" [] Job.cmd \in Sending -> "check" [] OTHER -> "sync"
      BY <1>1, <2>1 DEF StartChusb
    <2> QED
      BY <1>1, <2>1, <2>2 DEF Sending
  <1>4. /\ image' = Job.image /\ copying' = (Job.cmd = "copy") /\ single' = Job.single
        /\ nexttr' = image'.dir /\ here' = image'.dir /\ pos' = 1
        /\ used' = [i \in 0 .. UsedSize - 1 |-> End] /\ usednum' = 0 /\ filebuf' = Job.file.body
    BY <1>1 DEF StartChusb, Begin
  <1>5. upc' \in {"sync", "directory"} /\ upc' \notin InDir /\ upc' \notin InFile /\ upc' \notin Transfers
    BY <1>3 DEF InDir, InFile, Transfers
  <1>6. WalkTypes'
    <2>1. usednum' \in 0 .. UsedSize /\ used' = [i \in 0 .. UsedSize - 1 |-> used'[i]]
      BY <1>4, WalkAssumption
    <2> QED
      BY <1>1, <1>2, <1>4, <1>5, <2>1 DEF WalkTypes
  <1>7. single' => AloneInv'
    <2>1. single' => Job.cmd = "copy"
      BY <1>1, <1>3, <1>4 DEF Unsupported, NoDirectory
    <2> QED
      BY <1>1, <1>3, <1>4, <2>1 DEF AloneInv
  <1>8. image' \in Images /\ image'.dir \in DirSectors(image')
    <2>1. \A im \in Images : im.dir \in DirSectors(im)
      BY WalkAssumption DEF DirSectors
    <2> QED
      BY <1>2, <1>4, <2>1
  <1>9. PlaceInv'
    BY <1>4, <1>5, <1>8 DEF PlaceInv
  <1>10. PassedInv'
    <2>1. Visited({})'
      BY <1>4, <1>5 DEF Visited, Coming
    <2>2. Handled({})' = {}
      BY <1>5 DEF Handled
    <2>3. Stale({})'
      BY <1>4 DEF Stale
    <2>4. Copied({})'
      BY <2>2 DEF Copied
    <2> QED
      BY <2>1, <2>3, <2>4 DEF PassedInv
  <1> QED
    BY <1>6, <1>7, <1>9, <1>10 DEF WalkInv

\* A file that is acknowledged is the file of the image.
LEMMA WalkAcked ==
  ASSUME WalkInv, AtCopy, NEW c \in {"ack", "nak"}, FileAck(c, 255)
  PROVE  WalkInv'
  <1>1. /\ UNCHANGED <<image, copying, single, nexttr, here, filetr, used, usednum, filebuf, jobs, turn, tool>>
        /\ acked' = acked \cup {[name |-> Current.name, type |-> Current.type, body |-> filebuf]}
        /\ upc = "ack" /\ upc' = (IF single THEN "endmark" ELSE "entry") /\ pos' = pos + 1
    BY DEF FileAck, Meet, GoesOn, directVars, toolVars
  <1>2. Cmd' = Cmd
    BY <1>1 DEF Cmd
  <1>3. WalkTypes /\ WalkTypes'
    BY <1>1, <1>2 DEF WalkInv, WalkTypes, Transfers
  <1>4. CASE single
    BY <1>1, <1>2, <1>3, <1>4 DEF WalkInv, AloneInv
  <1>5. CASE ~single
    <2>1. PlaceInv /\ PassedInv /\ image \in Images /\ usednum \in 0 .. UsedSize
      BY <1>3, <1>5 DEF WalkInv, WalkTypes
    <2>2. upc \in InFile /\ upc \in InDir /\ upc \in Transfers /\ upc' = "entry"
      BY <1>1, <1>5 DEF InFile, InDir, Transfers
    <2>3. /\ here \in DirSectors(image) /\ nexttr = LinkOf(here) /\ AtFile
      BY <2>1, <2>2 DEF PlaceInv
    <2>4. /\ pos \in DOMAIN Entries /\ IsFile(image, Entry) /\ filebuf = FileBytes(image, FileChain)
          /\ \A i \in 0 .. usednum - 1 : i + 1 \in DOMAIN FileChain /\ used[i] = FileChain[i + 1]
      BY <2>2, <2>3 DEF AtFile
    <2>5. Entries' = Entries /\ Len(Entries) \in Nat /\ DOMAIN Entries = 1 .. Len(Entries)
      BY <1>1, <2>1, <2>3, DirectoryIs DEF Entries
    <2>6. PlaceInv'
      BY <1>1, <2>2, <2>3, <2>4, <2>5 DEF PlaceInv, LinkOf, InDir, InFile, Transfers
    <2>7. EntryAt(image, <<here, pos>>) = Entry /\ ImageFile(Entry) \in acked' /\ acked \subseteq acked'
      <3>1. EntryAt(image, <<here, pos>>) = Entry
        BY <2>1, <2>3, <2>4, AtHand
      <3>2. ImageFile(Entry) = [name |-> Entry.name, type |-> Entry.type, body |-> filebuf]
        BY <2>4 DEF ImageFile, FileChain
      <3> QED
        BY <1>1, <1>5, <3>1, <3>2 DEF Current
    <2>8. ASSUME NEW V, Visited(V), Stale(V), Copied(V) PROVE Visited(V)' /\ Stale(V)' /\ Copied(V)'
      <3>1. Visited(V)' /\ Stale(V)' /\ Handled(V)' = Handled(V) \cup {<<here, pos>>}
        BY <1>1, <2>1, <2>2, <2>3, <2>4, <2>8, NextFile
      <3>2. ASSUME Flawless, NEW q \in Handled(V)' PROVE ImageFile(EntryAt(image, q)) \in acked'
        <4>1. CASE q \in Handled(V)
          BY <2>7, <2>8, <3>2, <4>1 DEF Copied
        <4>2. CASE q = <<here, pos>>
          BY <2>7, <4>2
        <4> QED
          BY <3>1, <4>1, <4>2
      <3>3. Copied(V)'
        BY <1>1, <3>2, SameImage DEF Copied
      <3> QED
        BY <3>1, <3>3
    <2>9. PassedInv'
      BY <1>1, <2>1, <2>8 DEF PassedInv
    <2> QED
      BY <1>1, <1>3, <1>5, <2>6, <2>9 DEF WalkInv
  <1> QED
    BY <1>4, <1>5

\* Every step of the system keeps what is known of the walk.
LEMMA WalkInvStep ==
  ASSUME AtWork, InItems, ServerInv, WalkInv, [Next]_vars, AtWork'
  PROVE  WalkInv'
  <1> SUFFICES ASSUME AtCopy' PROVE WalkInv'
    BY DEF WalkInv
  <1>m. Matched /\ Kept
    BY DEF ServerInv, Matched
  <1>1. ASSUME NEW there \in BOOLEAN, StartChusb(there) PROVE WalkInv'
    BY <1>1, WalkStart
  <1>2. SUFFICES ASSUME AtCopy, UNCHANGED <<jobs, turn, tool>>,
                        \/ Walk \/ StartCommand \/ Command \/ Copy \/ OpenFile \/ Aside
                        \/ \E taken, stop \in BOOLEAN : CloseFile(taken, stop)
                 PROVE  WalkInv'
    BY <1>m, <1>1, CopySteps
  <1>c. Cmd' = Cmd
    BY <1>2 DEF Cmd
  <1>3. CASE Walk
    BY <1>2, <1>3, WalkStep DEF Walk, pcVars
  <1>4. CASE StartCommand \/ Command
    <2>1. UNCHANGED <<walkVars, acked>> /\ upc \in {"sync", "cmdack"} /\ Cmd.cmd = "copy"
          /\ upc' \in {"cmdack", IF single THEN "type" ELSE "directory"}
      <3>1. upc \in {"sync", "cmdack"} /\ UNCHANGED <<walkVars, acked>>
        BY <1>4 DEF StartCommand, Command, Meet, pcVars
      <3>2. Cmd.cmd = "copy"
        BY <1>2, <3>1 DEF AtCopy, AtWork
      <3> QED
        BY <1>4, <3>1, <3>2 DEF StartCommand, Command, GoesOn, FirstStep
    <2>2. UNCHANGED <<image, copying, single, nexttr, here, pos, used, usednum, filebuf>>
      BY <2>1 DEF walkVars
    <2>3. WalkTypes /\ WalkTypes'
      BY <1>2, <1>c, <2>1, <2>2 DEF WalkInv, WalkTypes
    <2>4. CASE single
      BY <1>2, <1>c, <2>1, <2>2, <2>3, <2>4 DEF WalkInv, AloneInv, Transfers
    <2>5. CASE ~single
      <3>1. PlaceInv /\ PassedInv /\ nexttr = image.dir /\ upc' \in {"cmdack", "directory"} /\ image \in Images
        BY <1>2, <2>1, <2>3, <2>5 DEF WalkInv, PlaceInv, WalkTypes
      <3>2. PlaceInv'
        BY <2>2, <3>1, DirectoryIs DEF PlaceInv, InDir, InFile, Transfers
      <3>3. PassedInv'
        BY <2>1, <2>2, <3>1, PassedSame DEF InDir, InFile, Transfers
      <3> QED
        BY <2>2, <2>3, <2>5, <3>2, <3>3 DEF WalkInv
    <2> QED
      BY <2>4, <2>5
  <1>5. CASE Copy
    <2>1. CASE SendType \/ SendName \/ SendLen \/ SendSum \/ SendData \/ Swallow
      <3>1. UNCHANGED <<walkVars, acked>> /\ upc \in Transfers /\ upc' \in Transfers
        BY <2>1 DEF SendType, SendName, SendLen, SendSum, SendData, Swallow, Meet, GoesOn, AfterSum, AfterByte, pcVars,
                    Transfers
      <3> QED
        BY <1>2, <3>1, WalkSame
    <2>2. CASE EndMark
      BY <2>2 DEF EndMark, Exits, AtCopy
    <2>3. ASSUME NEW c \in {"ack", "nak"}, NEW a \in {0, 255}, FileAck(c, a) PROVE WalkInv'
      <3>1. a = 255
        BY <2>3 DEF FileAck, Exits, AtCopy
      <3> QED
        BY <1>2, <2>3, <3>1, WalkAcked
    <2> QED
      BY <1>5, <2>1, <2>2, <2>3 DEF Copy
  <1>6. CASE OpenFile \/ Aside \/ \E taken, stop \in BOOLEAN : CloseFile(taken, stop)
    <2>1. UNCHANGED <<upc, walkVars, acked>>
      BY <1>6 DEF OpenFile, Aside, CloseFile, pcVars
    <2> QED
      BY <1>2, <2>1, WalkSame
  <1> QED
    BY <1>2, <1>3, <1>4, <1>5, <1>6

-----------------------------------------------------------------------------
\* chusb is at none of its places when it does not run.
Live == upc \in OfCopy => tool = "chusb"

LEMMA LiveStep ==
  ASSUME AtWork, InItems, ServerInv, Live, [Next]_vars
  PROVE  Live'
  <1>m. Matched /\ Kept
    BY DEF ServerInv, Matched
  <1> USE DEF Live
  <1>s. \A to : GoesOn(to) => tool' = tool
    BY DEF GoesOn, directVars, toolVars
  <1>e. \A how : Exits(how) => upc' \notin OfCopy
    BY DEF Exits, OfCopy
  <1>0. CASE UNCHANGED vars
    BY <1>0 DEF vars, usbVars, directVars, toolVars
  <1>1. CASE CodenetNext /\ UNCHANGED usbVars
    BY <1>m, <1>1, PlacesCodenet DEF usbVars, Matched, OfCopy
  <1>2. CASE (BasicNext /\ UNCHANGED usbVars) \/ ServerStarts \/ UserContinues \/ UserResets
    BY <1>m, <1>2, PlacesIdle DEF Idle
  <1>3. CASE Quit \/ Walk \/ Send
    <2>1. CASE Quit
      BY <1>e, <2>1 DEF Quit
    <2>2. CASE Walk
      BY <2>2 DEF Walk, directVars, toolVars
    <2>3. ASSUME NEW opens \in BOOLEAN, CheckServer(opens) PROVE Live'
      BY <2>3 DEF CheckServer, OfCopy
    <2>4. CASE StartNoAck
      BY <1>s, <2>4 DEF StartNoAck, Meet
    <2>5. CASE DmaDone
      BY <1>e, <2>5 DEF DmaDone
    <2> QED
      BY <1>3, <2>1, <2>2, <2>3, <2>4, <2>5 DEF Send
  <1>4. CASE Copy
    <2>1. CASE SendType \/ SendName \/ SendLen \/ SendSum \/ SendData \/ Swallow
      BY <1>s, <2>1 DEF SendType, SendName, SendLen, SendSum, SendData, Swallow, Meet
    <2>2. CASE EndMark
      BY <1>e, <2>2 DEF EndMark
    <2>3. ASSUME NEW c \in {"ack", "nak"}, NEW a \in {0, 255}, FileAck(c, a) PROVE Live'
      BY <1>s, <1>e, <2>3 DEF FileAck, Meet
    <2> QED
      BY <1>4, <2>1, <2>2, <2>3 DEF Copy
  <1>5. CASE StartCommand \/ Command
    BY <1>m, <1>5, PlacesCommand
  <1>6. CASE Sector
    <2>1. CASE SendMode \/ SendStatus \/ SendPlace \/ SendBlockSum \/ SendBlock \/ SendMark \/ TakeBlock
      BY <1>s, <2>1 DEF SendMode, SendStatus, SendPlace, SendBlockSum, SendBlock, SendMark, TakeBlock, Meet
    <2>2. ASSUME NEW opens \in BOOLEAN, SendEnd(opens) PROVE Live'
      BY <1>e, <2>2 DEF SendEnd
    <2>3. ASSUME NEW c \in {"ack", "nak"}, NEW a \in {0, 255}, SectorAck(c, a) PROVE Live'
      BY <1>s, <1>e, <2>3 DEF SectorAck, Meet
    <2> QED
      BY <1>6, <2>1, <2>2, <2>3 DEF Sector
  <1>7. CASE Other
    BY <1>s, <1>e, <1>7 DEF Other, FetchFile, FetchEnd, FetchName, FetchByte, FetchMore, SendTracks, FormatAck,
                            TestHello, TestProbe, TestEcho, Meet
  <1>8. CASE ServerAlone \/ Browse \/ UserTypes
    BY <1>m, <1>8, MatchedAlone
  <1>9. ASSUME NEW there \in BOOLEAN, StartChusb(there) PROVE Live'
    BY <1>9 DEF StartChusb, OfCopy
  <1> QED
    BY <1>0, <1>1, <1>2, <1>3, <1>4, <1>5, <1>6, <1>7, <1>8, <1>9 DEF Next, Program, C64, User

\* Only the walk gives an alarm, and only the walk runs over.
LEMMA OnlyWalkAlarms ==
  ASSUME [Next]_vars, corrupted # "loop", corrupted' = "loop"
  PROVE  Walk
  <1> USE DEF walkVars
  <1>1. ~UNCHANGED vars
    BY DEF vars, usbVars
  <1>2. ~Copy
    <2>1. \A c \in {"ack", "nak"}, a \in {0, 255} : ~FileAck(c, a)
      BY DEF FileAck
    <2> QED
      BY <2>1 DEF Copy, SendType, EndMark, SendName, SendLen, SendSum, SendData, Swallow
  <1>3. ~Sector
    BY DEF Sector, SendMode, SendStatus, SendPlace, SendBlockSum, SendBlock, SendMark, TakeBlock, SendEnd, SectorAck
  <1>4. ~Other
    BY DEF Other, FetchFile, FetchEnd, FetchName, FetchByte, FetchMore, SendTracks, FormatAck, TestHello, TestProbe,
           TestEcho
  <1>5. ~ServerAlone /\ ~Browse /\ ~UserTypes
    BY DEF ServerAlone, OpenFile, VerifySector, FormatDisk, StoreSector, ReadSector, CheckKey, CloseFile, ServerStep,
           Browse, NoDrive, UserTypes
  <1>6. ~Send /\ ~Quit /\ ~StartCommand /\ ~Command
    BY DEF Send, CheckServer, StartNoAck, DmaDone, Quit, StartCommand, Command
  <1>7. ~ \E there \in BOOLEAN : StartChusb(there)
    BY DEF StartChusb, Begin
  <1>8. ~UNCHANGED usbVars /\ ~ServerStarts /\ ~UserContinues /\ ~UserResets
    BY DEF usbVars, ServerStarts, UserContinues, UserResets
  <1> QED
    BY <1>1, <1>2, <1>3, <1>4, <1>5, <1>6, <1>7, <1>8 DEF Next, Program, C64, User

LEMMA OnlyWalkOverruns ==
  ASSUME AtWork, InItems, ServerInv, [Next]_vars, AtWork', ServerInv', Live', upc # "overrun", upc' = "overrun"
  PROVE  Walk
  <1>1. Matched /\ Kept /\ Matched'
    BY DEF ServerInv, Matched
  <1>2. AtCopy'
    BY <1>1 DEF Live, OfCopy, Matched, OwnPlace, AtCopy
  <1>3. ASSUME NEW there \in BOOLEAN PROVE ~StartChusb(there)
    <2>1. SUFFICES ASSUME StartChusb(there) PROVE FALSE
      OBVIOUS
    <2>2. upc' \in {"directory", "check", "sync"}
      BY <1>1, <1>2, <2>1, MatchedStart DEF AtCopy
    <2> QED
      BY <2>2
  <1>4. ~Copy
    BY DEF Copy, SendType, EndMark, SendName, SendLen, SendSum, SendData, Swallow, FileAck, GoesOn, Exits, AfterSum,
           AfterByte
  <1>5. ~StartCommand
    BY DEF StartCommand, GoesOn
  <1>6. AtCopy => ~Command
    <2>1. SUFFICES ASSUME Command, AtCopy PROVE FALSE
      OBVIOUS
    <2>2. Cmd.cmd = "copy" /\ upc' = FirstStep
      BY <2>1 DEF AtCopy, AtWork, Command, Meet, GoesOn
    <2> QED
      BY <2>2 DEF FirstStep
  <1>7. ~OpenFile /\ ~Aside /\ ~ \E taken, stop \in BOOLEAN : CloseFile(taken, stop)
    BY DEF OpenFile, Aside, CloseFile
  <1> QED
    BY <1>1, <1>2, <1>3, <1>4, <1>5, <1>6, <1>7, CopySteps

\* The inductive invariant of copies: where the walk is, and what the arrays hold.
WalkingInv == Live /\ WalkInv

LEMMA InitWalking == Init => WalkingInv
  BY DEF Init, DirectInit, WalkInit, WalkingInv, Live, WalkInv, AtCopy, OfCopy

LEMMA WalkingStep == StartInv /\ DiskInv /\ WalkingInv /\ [Next]_vars => WalkingInv'
  <1> SUFFICES ASSUME StartInv, DiskInv, WalkingInv, [Next]_vars PROVE WalkingInv'
    OBVIOUS
  <1>1. AtWork /\ InItems /\ ServerInv /\ AtWork'
    BY StartStep DEF StartInv, DiskInv
  <1> QED
    BY <1>1, LiveStep, WalkInvStep DEF WalkingInv

LEMMA WalkingHolds == Spec => []WalkingInv
  BY InitStart, StartStep, InitDisk, DiskStep, InitWalking, WalkingStep, PTL DEF Spec

(***************************************************************************)
(* "File Loop detected" is said of no file of an image whose directory     *)
(* ends, whose files share no sector and end inside the image, however     *)
(* large it is; and the arrays overrun only for a file of more sectors     *)
(* than they have places, or without an end (chusb.c:1128-1165).           *)
(***************************************************************************)
THEOREM AlarmsAreTrue == Spec => AlarmsAreReal
  <1> DEFINE Real ==
        /\ corrupted # "loop" /\ corrupted' = "loop" =>
              BadLink(image, Entry) \/ Shared(image) \/ ~DirEnds(image)
        /\ upc # "overrun" /\ upc' = "overrun" => Len(Sectors(image, Entry)) > UsedSize
  <1>1. ASSUME StartInv, DiskInv, WalkingInv, [Next]_vars, StartInv', DiskInv', WalkingInv'
        PROVE  [Real]_<<upc, walkVars>>
    <2>0. AtWork /\ InItems /\ ServerInv /\ AtWork' /\ ServerInv' /\ Live /\ WalkInv /\ Live'
      BY <1>1 DEF StartInv, DiskInv, WalkingInv
    <2>1. ASSUME Walk, upc = "chain"
          PROVE  /\ image \in Images /\ usednum \in 0 .. UsedSize /\ PlaceInv /\ PassedInv
      <3>1. AtCopy
        BY <2>0, <2>1 DEF Walk, ServerInv, OwnPlace, OfCopy, AtCopy
      <3>2. ~single
        BY <2>0, <2>1, <3>1 DEF WalkInv, AloneInv, Transfers
      <3> QED
        BY <2>0, <3>1, <3>2 DEF WalkInv, WalkTypes
    <2>2. ASSUME corrupted # "loop", corrupted' = "loop", DirEnds(image)
          PROVE  BadLink(image, Entry) \/ Shared(image)
      <3>1. Walk /\ upc = "chain" /\ LoopSeen(usednum, filetr)
        <4>1. Walk
          BY <1>1, <2>2, OnlyWalkAlarms
        <4>2. LoopFound
          BY <2>2, <4>1 DEF Walk, WalkNext, DirectorySector, LastEntry, SkipEntry, FirstSector, Overrun, IllegalLink,
                            ChainSector, walkVars
        <4> QED
          BY <4>1, <4>2 DEF LoopFound
      <3>2. PICK V \in SUBSET Places : Visited(V) /\ Stale(V)
        BY <2>1, <2>2, <3>1 DEF PassedInv
      <3> QED
        BY <2>1, <3>1, <3>2, AlarmMeans
    <2>3. ASSUME upc # "overrun", upc' = "overrun"
          PROVE  Len(Sectors(image, Entry)) > UsedSize
      <3>1. Walk /\ upc = "chain" /\ usednum = UsedSize
        <4>1. Walk
          BY <1>1, <2>0, <2>3, OnlyWalkOverruns
        <4>2. Overrun
          BY <2>3, <4>1 DEF Walk, WalkNext, DirectorySector, LastEntry, SkipEntry, FirstSector, LoopFound, IllegalLink,
                            ChainSector
        <4> QED
          BY <4>1, <4>2 DEF Overrun
      <3>2. image \in Images /\ PlaceInv
        BY <2>1, <3>1
      <3>3. AtFile
        BY <3>1, <3>2 DEF PlaceInv, InFile
      <3>4. UsedSize + 1 \in DOMAIN FileChain
        BY <3>1, <3>3 DEF AtFile
      <3>5. UsedSize \in Nat /\ Len(FileChain) \in Nat /\ DOMAIN FileChain = 1 .. Len(FileChain)
        BY <3>2, SectorsAre, WalkAssumption DEF FileChain
      <3> QED
        BY <3>4, <3>5 DEF FileChain
    <2> QED
      BY <2>2, <2>3
  <1>2. Spec => [][Real]_<<upc, walkVars>>
    <2> HIDE DEF Real
    <2> QED
      BY <1>1, InitStart, StartStep, InitDisk, DiskStep, InitWalking, WalkingStep, PTL DEF Spec
  <1> QED
    BY <1>2 DEF AlarmsAreReal

-----------------------------------------------------------------------------
(***************************************************************************)
(* The transfer of a file.  The glitches a checksum must stand, what the   *)
(* drive has of a file, and how the bytes and their sum come along: as in  *)
(* the file, or a byte was glitched and the sums differ from there on.     *)
(***************************************************************************)
Good == glitched \subseteq {"sum"} \/ (glitched \subseteq {"data"} /\ MaxGlitches = 1)
Stored(n, t, b) == [name |-> n, type |-> t, body |-> b] \in files \/ n \in refused

Carried ==
    \/ fdata = SubSeq(filebuf, 1, k) /\ checkcalc = SumUpTo(filebuf)[k]
    \/ "data" \in glitched /\ checkcalc # SumUpTo(filebuf)[k]

\* The server has the type and the name.
Told == ftype = Current.type /\ fname = Current.name

TransferInv == AtCopy =>
    /\ upc = "data" => k \in 0 .. Len(filebuf) - 1
    /\ upc = "ack" => k = Len(filebuf)
    /\ Good =>
       /\ upc = "name" /\ cpc = "name" => ftype = Current.type /\ checkcalc = 0
       /\ (upc = "len" /\ cpc = "len") \/ (upc = "sum" /\ cpc = "sum") => Told /\ checkcalc = 0
       /\ cpc \in {"open", "data", "close"} => Told /\ ("sum" \in glitched \/ mychecksum = ByteSum(filebuf))
       /\ cpc = "open" => k = 0 /\ checkcalc = 0
       /\ cpc \in {"data", "close"} => Carried /\ checkcalc \in 0 .. SumMod - 1
       /\ upc = "ack" /\ cpc = "ack" => Stored(Current.name, Current.type, filebuf)

\* Glitches only become more, and one kind of glitch spoils a good transfer.
LEMMA StillGood ==
  ASSUME glitched \subseteq glitched', Good'
  PROVE  Good /\ \A g \in glitched' : g \in {"sum", "data"}
  BY DEF Good

\* When the one glitch there can be is this one, there was none before.
LEMMA OnlyGlitch ==
  ASSUME NEW v, NEW w, Arrives("data", v, w), w # v, Good'
  PROVE  glitched = {} /\ glitched' = {"data"}
  <1>1. Cardinality(glitched) < MaxGlitches /\ glitched' = glitched \cup {"data"}
    BY DEF Arrives
  <1>2. glitched \subseteq {"data"} /\ MaxGlitches = 1
    BY <1>1 DEF Good
  <1>3. glitched # {"data"}
    <2>1. Cardinality({"data"}) = 1
      BY FS_Singleton
    <2> QED
      BY <1>1, <1>2, <2>1
  <1> QED
    BY <1>1, <1>2, <1>3

\* One more byte arrives.
LEMMA ByteCarried ==
  ASSUME filebuf \in Seq(Bytes), filebuf' = filebuf, k \in 0 .. Len(filebuf) - 1, k' = k + 1,
         NEW b \in Bytes, Arrives("data", filebuf[k + 1], b),
         fdata' = Append(fdata, b), checkcalc' = (checkcalc + b) % SumMod,
         Carried, checkcalc \in 0 .. SumMod - 1, Good'
  PROVE  Carried' /\ checkcalc' \in 0 .. SumMod - 1
  <1> DEFINE S == SumUpTo(filebuf)
             c == filebuf[k + 1]
  <1>1. SumMod \in Nat \ {0, 1} /\ Bytes \subseteq 0 .. SumMod - 1
    BY UsbAssumption
  <1>2. k \in 0 .. Len(filebuf) /\ k + 1 \in 1 .. Len(filebuf) /\ (k + 1) - 1 = k
    OBVIOUS
  <1>3. c \in Bytes /\ c \in 0 .. SumMod - 1 /\ b \in 0 .. SumMod - 1
    <2>1. c \in Bytes
      BY <1>2
    <2> HIDE DEF c
    <2> QED
      BY <1>1, <2>1
  <1>4. S[k] \in 0 .. SumMod - 1 /\ S[k + 1] = (S[k] + c) % SumMod
    <2> HIDE DEF S
    <2>1. /\ \A n \in 0 .. Len(filebuf) : S[n] \in 0 .. SumMod - 1
          /\ \A n \in 1 .. Len(filebuf) : S[n] = (S[n - 1] + filebuf[n]) % SumMod
      BY SumUpToIs DEF S
    <2> QED
      BY <1>2, <2>1
  <1>5. S' = S /\ S[k]' = S[k + 1] /\ glitched \subseteq glitched'
    BY ArrivesIs
  <1>6. SubSeq(filebuf, 1, k + 1) = Append(SubSeq(filebuf, 1, k), c)
    BY <1>2
  <1> HIDE DEF S, c
  <1>7. checkcalc' \in 0 .. SumMod - 1
    BY <1>1, <1>3
  <1>8. CASE b = c
    <2>1. CASE fdata = SubSeq(filebuf, 1, k) /\ checkcalc = S[k]
      <3>1. fdata' = SubSeq(filebuf', 1, k') /\ checkcalc' = S[k + 1]
        BY <1>4, <1>6, <1>8, <2>1
      <3> QED
        BY <1>5, <1>7, <3>1 DEF Carried, S
    <2>2. CASE "data" \in glitched /\ checkcalc # S[k]
      <3>1. checkcalc' # S[k + 1]
        BY <1>3, <1>4, <1>8, <2>2, SumsDiffer
      <3> QED
        BY <1>5, <1>7, <2>2, <3>1 DEF Carried, S
    <2> QED
      BY <2>1, <2>2 DEF Carried, S
  <1>9. CASE b # c
    <2>1. glitched = {} /\ glitched' = {"data"}
      BY <1>9, OnlyGlitch DEF c
    <2>2. checkcalc = S[k]
      BY <2>1 DEF Carried, S
    <2>3. checkcalc' # S[k + 1]
      <3>1. checkcalc' = (b + S[k]) % SumMod /\ S[k + 1] = (c + S[k]) % SumMod
        <4>1. b \in Int /\ c \in Int /\ S[k] \in Int
          BY <1>1, <1>3, <1>4
        <4>2. checkcalc + b = b + S[k] /\ S[k] + c = c + S[k]
          BY <2>2, <4>1
        <4> QED
          BY <1>4, <4>2
      <3> QED
        BY <1>3, <1>4, <1>9, <3>1, SumsDiffer
    <2> QED
      BY <1>5, <1>7, <2>1, <2>3 DEF Carried, S
  <1> QED
    BY <1>8, <1>9

LEMMA SameCurrent ==
  ASSUME UNCHANGED <<jobs, turn, walkVars>>
  PROVE  Current' = Current /\ filebuf' = filebuf
  BY DEF Current, Cmd, Entry, Entries, walkVars

\* Where no file is sent nothing is known of a transfer, and nothing needed.
LEMMA NoTransfer ==
  ASSUME Partners', upc' \notin {"name", "len", "sum", "data", "ack"}
  PROVE  TransferInv'
  BY DEF TransferInv, Partners, ChusbAt

\* Both sides go on with the file.
LEMMA TransferGoesOn ==
  ASSUME TransferInv, Partners, AtCopy, UNCHANGED <<jobs, turn, tool>>, WalkTypes,
         SendType \/ SendName \/ SendLen \/ SendSum
  PROVE  TransferInv'
  <1>1. /\ UNCHANGED <<walkVars, files, refused>> /\ glitched \subseteq glitched'
    BY ArrivesIs DEF SendType, SendName, SendLen, SendSum, driveVars
  <1>2. Current' = Current /\ filebuf' = filebuf
    BY <1>1, SameCurrent
  <1>3. Good' => Good /\ \A g \in glitched' : g \in {"sum", "data"}
    BY <1>1, StillGood
  <1>4. CASE SendType
    <2>1. PICK t \in {"end", "seq", "prg"} : Arrives("type", Current.type, t) /\ ftype' = t
      BY <1>4 DEF SendType
    <2>2. upc' = "name" /\ cpc' \in {"menu", "name"} /\ checkcalc' = 0
      BY <1>4 DEF SendType, GoesOn
    <2>3. Good' => ftype' = Current.type
      BY <1>3, <2>1, ArrivesIs
    <2> QED
      BY <1>2, <2>2, <2>3 DEF TransferInv
  <1>5. CASE SendName
    <2>1. PICK n \in Names : Arrives("name", Current.name, n) /\ fname' = n
      BY <1>5 DEF SendName
    <2>2. upc' = "len" /\ cpc' = "len" /\ UNCHANGED <<ftype, checkcalc>> /\ upc = "name" /\ cpc = "name"
      BY <1>5 DEF SendName, GoesOn, Meet, sumVars
    <2>3. Good' => fname' = Current.name
      BY <1>3, <2>1, ArrivesIs
    <2>4. Good' => ftype = Current.type /\ checkcalc = 0
      BY <1>3, <2>2 DEF TransferInv
    <2> QED
      BY <1>2, <2>2, <2>3, <2>4 DEF TransferInv, Told
  <1>6. CASE SendLen
    <2>1. /\ upc' = "sum" /\ cpc' = "sum" /\ UNCHANGED <<ftype, fname, checkcalc>>
          /\ upc = "len" /\ cpc = "len"
      BY <1>6 DEF SendLen, GoesOn, Meet, sumVars
    <2>2. Good' => Told /\ checkcalc = 0
      BY <1>3, <2>1 DEF TransferInv
    <2> QED
      BY <1>2, <2>1, <2>2 DEF TransferInv, Told
  <1>7. CASE SendSum
    <2>1. PICK n \in 0 .. SumMod - 1 : Arrives("sum", ByteSum(filebuf), n) /\ mychecksum' = n
      BY <1>7 DEF SendSum
    <2>2. /\ upc' = AfterSum /\ cpc' = "open" /\ UNCHANGED <<ftype, fname, checkcalc>> /\ k' = 0
          /\ upc = "sum" /\ cpc = "sum"
      BY <1>7 DEF SendSum, GoesOn, Meet, fileVars
    <2>3. Good' => Told /\ checkcalc = 0
      BY <1>3, <2>2 DEF TransferInv
    <2>4. "sum" \in glitched' \/ mychecksum' = ByteSum(filebuf')
      BY <1>2, <2>1, ArrivesIs
    <2>5. upc' = IF filebuf = <<>> THEN "ack" ELSE "data"
      BY <2>2 DEF AfterSum
    <2>6. (upc' = "data" => 0 \in 0 .. Len(filebuf) - 1) /\ (upc' = "ack" => 0 = Len(filebuf))
      <3>1. filebuf \in Seq(Bytes) /\ Len(filebuf) \in Nat
        BY DEF WalkTypes
      <3> QED
        BY <2>5, <3>1, EmptySeq
    <2> QED
      BY <1>2, <2>2, <2>3, <2>4, <2>5, <2>6 DEF TransferInv, Told
  <1> QED
    BY <1>4, <1>5, <1>6, <1>7

\* A byte arrives, or the server drops what is meant for a transfer.
LEMMA TransferBytes ==
  ASSUME TransferInv, Partners, AtCopy, UNCHANGED <<jobs, turn, tool>>, WalkTypes, SendData \/ Swallow
  PROVE  TransferInv'
  <1>1. UNCHANGED <<walkVars, files, refused>>
    BY DEF SendData, Swallow, serverVars, driveVars
  <1>2. Current' = Current /\ filebuf' = filebuf /\ filebuf \in Seq(Bytes) /\ Len(filebuf) \in Nat
    BY <1>1, SameCurrent DEF WalkTypes
  <1>3. ASSUME upc = "data", upc' = AfterByte, k' = k + 1
        PROVE  /\ upc' = "data" => k' \in 0 .. Len(filebuf') - 1
               /\ upc' = "ack" => k' = Len(filebuf')
    <2>1. k \in 0 .. Len(filebuf) - 1
      BY <1>3 DEF TransferInv
    <2>2. CASE k + 1 < Len(filebuf)
      BY <1>2, <1>3, <2>1, <2>2 DEF AfterByte
    <2>3. CASE ~(k + 1 < Len(filebuf))
      <3>1. upc' = "ack" /\ k + 1 = Len(filebuf)
        BY <1>2, <1>3, <2>1, <2>3 DEF AfterByte
      <3> QED
        BY <1>2, <1>3, <3>1
    <2> QED
      BY <2>2, <2>3
  <1>4. CASE SendData
    <2>1. PICK b \in Bytes : /\ Arrives("data", filebuf[k + 1], b)
                             /\ fdata' = Append(fdata, b) /\ checkcalc' = (checkcalc + b) % SumMod
      BY <1>4 DEF SendData
    <2>2. /\ upc = "data" /\ upc' = AfterByte /\ k' = k + 1 /\ cpc = "data" /\ cpc' \in {"close", "data"}
          /\ UNCHANGED <<fname, ftype, mychecksum>>
      BY <1>4 DEF SendData, Meet, GoesOn
    <2>3. glitched \subseteq glitched'
      BY <2>1, ArrivesIs
    <2>4. ASSUME Good'
          PROVE  Told' /\ ("sum" \in glitched' \/ mychecksum' = ByteSum(filebuf'))
      BY <1>2, <2>2, <2>3, <2>4, StillGood DEF TransferInv, Told
    <2>5. ASSUME Good' PROVE Carried' /\ checkcalc' \in 0 .. SumMod - 1
      <3>1. Good /\ k \in 0 .. Len(filebuf) - 1
        BY <2>2, <2>3, <2>5, StillGood DEF TransferInv
      <3>2. Carried /\ checkcalc \in 0 .. SumMod - 1
        BY <2>2, <3>1 DEF TransferInv
      <3> QED
        BY <1>2, <2>1, <2>2, <2>5, <3>1, <3>2, ByteCarried
    <2>6. upc' \in {"data", "ack"}
      BY <2>2 DEF AfterByte
    <2> QED
      BY <1>3, <2>2, <2>4, <2>5, <2>6 DEF TransferInv
  <1>5. CASE Swallow
    <2>1. cpc' = "menu"
      BY <1>5 DEF Swallow, serverVars
    <2>2. /\ upc' = "data" => k' \in 0 .. Len(filebuf') - 1
          /\ upc' = "ack" => k' = Len(filebuf')
      <3>1. CASE upc = "data"
        BY <1>3, <1>5, <3>1 DEF Swallow, GoesOn
      <3>2. CASE upc = "sum"
        <4>1. k' = 0 /\ upc' = IF filebuf = <<>> THEN "ack" ELSE "data"
          BY <1>5, <3>2 DEF Swallow, GoesOn, AfterSum
        <4> QED
          BY <1>2, <4>1, EmptySeq
      <3>3. CASE upc \notin {"data", "sum"}
        BY <1>5, <3>3 DEF Swallow, GoesOn
      <3> QED
        BY <3>1, <3>2, <3>3
    <2> QED
      BY <2>1, <2>2 DEF TransferInv
  <1> QED
    BY <1>4, <1>5

\* The server opens the file, and closes it: with the sums equal, it has the file as it is.
LEMMA TransferFile ==
  ASSUME TransferInv, Partners, AtCopy, UNCHANGED <<jobs, turn, tool>>, WalkTypes,
         OpenFile \/ \E taken, stop \in BOOLEAN : CloseFile(taken, stop)
  PROVE  TransferInv'
  <1>1. UNCHANGED <<upc, walkVars, k, mychecksum, checkcalc, fname, ftype, glitched>>
    BY DEF OpenFile, CloseFile, pcVars, sumVars, fileVars
  <1>2. /\ Current' = Current /\ filebuf' = filebuf /\ filebuf \in Seq(Bytes) /\ Len(filebuf) \in Nat
        /\ (Good' <=> Good) /\ Told' = Told
    BY <1>1, SameCurrent DEF WalkTypes, Good, Told
  <1>3. CASE OpenFile
    <2>1. cpc = "open" /\ cpc' \in {"data", "space"} /\ fdata' = <<>>
      BY <1>3 DEF OpenFile
    <2>2. ASSUME Good, cpc' = "data" PROVE Carried' /\ checkcalc' \in 0 .. SumMod - 1
      <3>1. k = 0 /\ checkcalc = 0
        BY <2>1, <2>2 DEF TransferInv
      <3>2. SumUpTo(filebuf)[0] = 0 /\ SubSeq(filebuf, 1, 0) = <<>>
        BY <1>2, SumUpToIs, SubSeqEmpty
      <3>3. 0 \in 0 .. SumMod - 1
        BY UsbAssumption
      <3> QED
        BY <1>1, <1>2, <2>1, <3>1, <3>2, <3>3 DEF Carried
    <2> QED
      BY <1>1, <1>2, <2>1, <2>2 DEF TransferInv
  <1>4. ASSUME NEW taken \in BOOLEAN, NEW stop \in BOOLEAN, CloseFile(taken, stop) PROVE TransferInv'
    <2>1. cpc = "close" /\ cpc' \in {"nak", "ack"} /\ (cpc' = "ack" => mychecksum = checkcalc)
      BY <1>4 DEF CloseFile, SumIsWrong
    <2>2. Stored(fname, ftype, fdata)'
      <3>1. UNCHANGED <<fname, ftype, fdata>>
        BY <1>4 DEF CloseFile, fileVars
      <3> QED
        BY <1>4, <3>1 DEF CloseFile, Stored
    <2>3. ASSUME Good, upc = "ack", cpc' = "ack" PROVE Stored(Current.name, Current.type, filebuf)'
      <3>1. /\ Told /\ Carried /\ k = Len(filebuf) /\ mychecksum = checkcalc
            /\ "sum" \in glitched \/ mychecksum = ByteSum(filebuf)
        BY <2>1, <2>3 DEF TransferInv
      <3>2. ByteSum(filebuf) = SumUpTo(filebuf)[k]
        BY <1>2, <3>1, SumUpToIs
      <3>3. fdata = SubSeq(filebuf, 1, k)
        BY <2>3, <3>1, <3>2 DEF Carried, Good
      <3>4. fdata = filebuf
        BY <1>2, <3>1, <3>3, SubSeqFull
      <3>5. UNCHANGED <<fname, ftype, fdata>>
        BY <1>4 DEF CloseFile, fileVars
      <3> QED
        BY <1>2, <2>2, <3>1, <3>4, <3>5 DEF Told, Stored
    <2> QED
      BY <1>1, <1>2, <2>1, <2>3 DEF TransferInv
  <1> QED
    BY <1>3, <1>4

\* Every step of the system keeps what is known of the transfer.
LEMMA TransferStep ==
  ASSUME AtWork, InItems, ServerInv, WalkInv, TransferInv, [Next]_vars, AtWork', ServerInv'
  PROVE  TransferInv'
  <1> SUFFICES ASSUME AtCopy' PROVE TransferInv'
    BY DEF TransferInv
  <1>m. Matched /\ Kept /\ Matched' /\ Partners /\ Partners'
    BY DEF ServerInv, Matched
  <1>1. ASSUME NEW there \in BOOLEAN, StartChusb(there) PROVE TransferInv'
    <2>1. upc' \in {"directory", "check", "sync"}
      BY <1>m, <1>1, MatchedStart DEF AtCopy
    <2> QED
      BY <1>m, <2>1, NoTransfer
  <1>2. SUFFICES ASSUME AtCopy, UNCHANGED <<jobs, turn, tool>>,
                        \/ Walk \/ StartCommand \/ Command \/ Copy \/ OpenFile \/ Aside
                        \/ \E taken, stop \in BOOLEAN : CloseFile(taken, stop)
                 PROVE  TransferInv'
    BY <1>m, <1>1, CopySteps
  <1>w. WalkTypes
    BY <1>2 DEF WalkInv
  <1>3. CASE Walk
    <2>1. upc' \notin {"name", "len", "sum", "data", "ack"}
      BY <1>3 DEF Walk, WalkNext, DirectorySector, LastEntry, SkipEntry, FirstSector, LoopFound, Overrun, IllegalLink,
                  ChainSector
    <2> QED
      BY <1>m, <2>1, NoTransfer
  <1>4. CASE StartCommand \/ Command
    <2>1. Cmd.cmd = "copy"
      BY <1>2, <1>4 DEF AtCopy, AtWork, StartCommand, Command, Meet
    <2>2. upc' \notin {"name", "len", "sum", "data", "ack"}
      BY <1>4, <2>1 DEF StartCommand, Command, GoesOn, FirstStep
    <2> QED
      BY <1>m, <2>2, NoTransfer
  <1>5. CASE Copy
    <2>1. CASE SendType \/ SendName \/ SendLen \/ SendSum
      BY <1>2, <1>m, <1>w, <2>1, TransferGoesOn
    <2>2. CASE SendData \/ Swallow
      BY <1>2, <1>m, <1>w, <2>2, TransferBytes
    <2>3. CASE EndMark
      BY <2>3 DEF EndMark, Exits, AtCopy
    <2>4. ASSUME NEW c \in {"ack", "nak"}, NEW a \in {0, 255}, FileAck(c, a) PROVE TransferInv'
      <3>1. upc' \notin {"name", "len", "sum", "data", "ack"}
        BY <2>4 DEF FileAck, GoesOn, Exits
      <3> QED
        BY <1>m, <3>1, NoTransfer
    <2> QED
      BY <1>5, <2>1, <2>2, <2>3, <2>4 DEF Copy
  <1>6. CASE OpenFile \/ \E taken, stop \in BOOLEAN : CloseFile(taken, stop)
    BY <1>2, <1>m, <1>w, <1>6, TransferFile
  <1>7. CASE Aside
    <2>1. /\ UNCHANGED <<upc, walkVars, k, mychecksum, checkcalc, fname, ftype, fdata, files, refused, glitched>>
          /\ cpc' \in {cpc, "menu"}
      BY <1>7 DEF Aside, pcVars, sumVars, fileVars, driveVars
    <2>2. Current' = Current /\ filebuf' = filebuf
      BY <1>2, <2>1, SameCurrent
    <2>3. Good' = Good /\ Told' = Told /\ Carried' = Carried
          /\ Stored(Current.name, Current.type, filebuf)' = Stored(Current.name, Current.type, filebuf)
      BY <2>1, <2>2 DEF Good, Told, Carried, Stored
    <2> QED
      BY <1>2, <2>1, <2>2, <2>3 DEF TransferInv
  <1> QED
    BY <1>2, <1>3, <1>4, <1>5, <1>6, <1>7

-----------------------------------------------------------------------------
(***************************************************************************)
(* What chusb was told is stored.                                          *)
(***************************************************************************)
AckedInv == Running("copy") => \A f \in acked :
    /\ \/ single /\ f = [name |-> Cmd.file.name, type |-> Cmd.file.type, body |-> Cmd.file.body]
       \/ ~single /\ \E e \in ToCopy : f = ImageFile(e)
    /\ Good => f \in files \/ f.name \in refused

\* What can happen in and after a copy.
LEMMA AckSteps ==
  ASSUME AtWork, InItems, Matched, Kept, [Next]_vars, Running("copy")'
  PROVE  \/ \E there \in BOOLEAN : StartChusb(there)
         \/ \E c \in {"ack", "nak"} : FileAck(c, 255)
         \/ /\ Running("copy") /\ UNCHANGED <<jobs, turn, image, single, acked>>
            /\ files \subseteq files' /\ refused \subseteq refused' /\ glitched \subseteq glitched'
  <1> DEFINE Same == /\ UNCHANGED <<image, single, acked>>
                     /\ files \subseteq files' /\ refused \subseteq refused' /\ glitched \subseteq glitched'
  <1>r. ASSUME UNCHANGED <<jobs, turn>> PROVE Cmd' = Cmd /\ Cmd.prog = "chusb" /\ Cmd.cmd = "copy"
    BY <1>r DEF Running, Cmd
  <1>s. ASSUME UNCHANGED <<jobs, turn>>, tool # "none", Same
        PROVE  Running("copy") /\ UNCHANGED <<jobs, turn, image, single, acked>>
               /\ files \subseteq files' /\ refused \subseteq refused' /\ glitched \subseteq glitched'
    BY <1>r, <1>s DEF Running
  <1>t. ASSUME UNCHANGED <<jobs, turn, tool>>, Same
        PROVE  Running("copy") /\ UNCHANGED <<jobs, turn, image, single, acked>>
               /\ files \subseteq files' /\ refused \subseteq refused' /\ glitched \subseteq glitched'
    BY <1>s, <1>t DEF Running
  <1>0. CASE UNCHANGED vars
    <2>1. UNCHANGED <<jobs, turn, tool>> /\ Same
      BY <1>0 DEF vars, usbVars, directVars, toolVars, walkVars, pcVars, serverVars, driveVars
    <2> QED
      BY <1>t, <2>1
  <1>1. CASE CodenetNext /\ UNCHANGED usbVars
    BY <1>1, PlacesCodenet DEF Matched
  <1>2. CASE (BasicNext /\ UNCHANGED usbVars) \/ ServerStarts \/ UserContinues \/ UserResets
    <2>1. UNCHANGED <<jobs, turn, tool>>
      BY <1>2, PlacesIdle DEF Idle
    <2>2. Same
      BY <1>2 DEF usbVars, walkVars, pcVars, serverVars, driveVars, ServerStarts, UserContinues, UserResets
    <2> QED
      BY <1>t, <2>1, <2>2
  <1>3. CASE Quit \/ Walk \/ Send
    <2>1. UNCHANGED <<jobs, turn>> /\ tool = "chusb"
      BY <1>3 DEF Quit, Exits, Walk, Send, CheckServer, StartNoAck, Meet, GoesOn, DmaDone, directVars, toolVars
    <2>2. CASE Quit \/ Send
      <3>1. Same
        BY <2>2 DEF Quit, Send, CheckServer, StartNoAck, DmaDone, walkVars, pcVars, serverVars, driveVars
      <3> QED
        BY <1>s, <2>1, <3>1
    <2>3. CASE Walk
      <3>1. UNCHANGED <<image, single>>
        BY <2>3 DEF Walk, WalkNext, DirectorySector, LastEntry, SkipEntry, FirstSector, LoopFound, Overrun, IllegalLink,
                    ChainSector, walkVars
      <3>2. Same
        BY <2>3, <3>1 DEF Walk, pcVars, serverVars, driveVars
      <3> QED
        BY <1>s, <2>1, <3>2
    <2> QED
      BY <1>3, <2>2, <2>3
  <1>4. CASE Copy
    <2>1. UNCHANGED <<jobs, turn>> /\ tool = "chusb"
      BY <1>4 DEF Copy, SendType, EndMark, SendName, SendLen, SendSum, SendData, Swallow, FileAck, Meet, GoesOn, Exits,
           directVars, toolVars
    <2>2. CASE SendType \/ EndMark \/ SendName \/ SendLen \/ SendSum \/ SendData \/ Swallow
      <3>1. glitched \subseteq glitched'
        BY <2>2, ArrivesIs DEF SendType, EndMark, SendName, SendLen, SendSum, SendData, Swallow
      <3>2. UNCHANGED <<image, single, acked, files, refused>>
        BY <2>2 DEF SendType, EndMark, SendName, SendLen, SendSum, SendData, Swallow, walkVars, pcVars, serverVars,
                    driveVars
      <3> QED
        BY <1>s, <2>1, <3>1, <3>2
    <2>3. ASSUME NEW c \in {"ack", "nak"}, FileAck(c, 0)
          PROVE  Running("copy") /\ UNCHANGED <<jobs, turn, image, single, acked>>
               /\ files \subseteq files' /\ refused \subseteq refused' /\ glitched \subseteq glitched'
      <3>1. Same
        BY <2>3, ArrivesIs DEF FileAck, driveVars
      <3> QED
        BY <1>s, <2>1, <3>1
    <2> QED
      BY <1>4, <2>2, <2>3 DEF Copy
  <1>5. CASE StartCommand \/ Command
    <2>1. UNCHANGED <<jobs, turn, tool>>
      BY <1>5, PlacesCommand
    <2>2. Same
      BY <1>5 DEF StartCommand, Command, walkVars, pcVars, driveVars
    <2> QED
      BY <1>t, <2>1, <2>2
  <1>6. CASE Sector
    BY <1>6, <1>r, MatchedSector
  <1>7. CASE Other
    BY <1>7, <1>r, MatchedOther
  <1>8. CASE ServerAlone \/ Browse \/ UserTypes
    <2>1. /\ UNCHANGED <<jobs, turn, tool>>
          /\ FormatDisk => Cmd.cmd = "format"
          /\ Browse => Cmd.cmd = "fetch"
          /\ (\E b \in BOOLEAN : StoreSector(b) \/ ReadSector(b) \/ CheckKey(b)) \/ VerifySector =>
                Cmd.cmd \in {"write", "read"}
          /\ NoDrive \/ UserTypes => Cmd.cmd \in {"write", "read", "fetch"}
      BY <1>8, MatchedAlone
    <2>2. OpenFile \/ \E taken, stop \in BOOLEAN : CloseFile(taken, stop)
      BY <1>8, <1>r, <2>1 DEF ServerAlone
    <2>3. Same
      BY <2>2 DEF OpenFile, CloseFile, walkVars, pcVars, driveVars
    <2> QED
      BY <1>t, <2>1, <2>3
  <1> QED
    BY <1>0, <1>1, <1>2, <1>3, <1>4, <1>5, <1>6, <1>7, <1>8 DEF Next, Program, C64, User

LEMMA SameToCopy ==
  ASSUME UNCHANGED image
  PROVE  ToCopy' = ToCopy /\ \A e : ImageFile(e)' = ImageFile(e)
  BY DEF ToCopy, ImageFile

\* The file the program has just sent is a file to copy.
LEMMA FileAtHand ==
  ASSUME WalkInv, AtCopy, upc = "ack"
  PROVE  LET f == [name |-> Current.name, type |-> Current.type, body |-> filebuf] IN
         \/ single /\ f = [name |-> Cmd.file.name, type |-> Cmd.file.type, body |-> Cmd.file.body]
         \/ ~single /\ \E e \in ToCopy : f = ImageFile(e)
  <1>1. WalkTypes /\ IF single THEN AloneInv ELSE PlaceInv
    BY DEF WalkInv
  <1>2. CASE single
    BY <1>1, <1>2 DEF AloneInv, Current
  <1>3. CASE ~single
    <2>1. image \in Images /\ here \in DirSectors(image) /\ AtFile
      BY <1>1, <1>3 DEF WalkTypes, PlaceInv, InDir, InFile, Transfers
    <2>2. pos \in DOMAIN Entries /\ IsFile(image, Entry) /\ filebuf = FileBytes(image, FileChain)
      BY <2>1 DEF AtFile, Transfers
    <2>3. <<here, pos>> \in Listed(image) /\ EntryAt(image, <<here, pos>>) = Entry
      BY <2>1, <2>2, AtHand
    <2>4. Entry \in ToCopy
      BY <2>3 DEF ToCopy
    <2>5. [name |-> Current.name, type |-> Current.type, body |-> filebuf] = ImageFile(Entry)
      BY <1>3, <2>2 DEF Current, ImageFile, FileChain
    <2> QED
      BY <1>3, <2>4, <2>5
  <1> QED
    BY <1>2, <1>3

\* Every step of the system keeps what is known of the files chusb was told are stored.
LEMMA AckedStep ==
  ASSUME AtWork, InItems, ServerInv, WalkInv, TransferInv, AckedInv, [Next]_vars
  PROVE  AckedInv'
  <1> SUFFICES ASSUME Running("copy")' PROVE AckedInv'
    BY DEF AckedInv
  <1>m. Matched /\ Kept
    BY DEF ServerInv, Matched
  <1>1. ASSUME NEW there \in BOOLEAN, StartChusb(there) PROVE AckedInv'
    <2>1. acked' = {}
      BY <1>1 DEF StartChusb
    <2> QED
      BY <2>1 DEF AckedInv
  <1>2. ASSUME Running("copy"), UNCHANGED <<jobs, turn, image, single, acked>>,
               files \subseteq files', refused \subseteq refused', glitched \subseteq glitched'
        PROVE  AckedInv'
    <2>1. Cmd' = Cmd /\ ToCopy' = ToCopy /\ (\A e : ImageFile(e)' = ImageFile(e)) /\ (Good' => Good)
      BY <1>2, SameToCopy DEF Cmd, Good
    <2> HIDE DEF Running
    <2> QED
      BY <1>2, <2>1 DEF AckedInv
  <1>3. ASSUME NEW c \in {"ack", "nak"}, FileAck(c, 255) PROVE AckedInv'
    <2> DEFINE r == [name |-> Current.name, type |-> Current.type, body |-> filebuf]
    <2>1. /\ tool = "chusb" /\ upc = "ack" /\ cpc = c /\ acked' = acked \cup {r}
          /\ UNCHANGED <<jobs, turn, image, single, files, refused>> /\ Arrives("ack", Answer(c), 255)
      BY <1>3 DEF FileAck, Meet, GoesOn, directVars, toolVars, driveVars
    <2>2. Cmd' = Cmd /\ ToCopy' = ToCopy /\ \A e : ImageFile(e)' = ImageFile(e)
      BY <2>1, SameToCopy DEF Cmd
    <2>3. glitched \subseteq glitched' /\ (Good' => Good /\ c = "ack")
      <3>1. glitched \subseteq glitched' /\ (Answer(c) = 255 \/ "ack" \in glitched')
        BY <2>1, ArrivesIs
      <3>2. c = "nak" => Answer(c) = 0
        BY DEF Answer
      <3> QED
        BY <3>1, <3>2, StillGood
    <2>4. AtCopy /\ Running("copy")
      BY <2>1, <2>2 DEF Running, AtCopy
    <2>5. \/ single /\ r = [name |-> Cmd.file.name, type |-> Cmd.file.type, body |-> Cmd.file.body]
          \/ ~single /\ \E e \in ToCopy : r = ImageFile(e)
      BY <2>1, <2>4, FileAtHand
    <2>6. Good => c = "nak" \/ r \in files \/ r.name \in refused
      BY <2>1, <2>4 DEF TransferInv, Stored
    <2> HIDE DEF r
    <2>7. ASSUME NEW f \in acked'
          PROVE  /\ \/ single /\ f = [name |-> Cmd.file.name, type |-> Cmd.file.type, body |-> Cmd.file.body]
                    \/ ~single /\ \E e \in ToCopy : f = ImageFile(e)
                 /\ Good' => f \in files \/ f.name \in refused
      <3>1. CASE f \in acked
        BY <2>3, <2>4, <3>1 DEF AckedInv
      <3>2. CASE f = r
        BY <2>3, <2>5, <2>6, <3>2
      <3> QED
        BY <2>1, <2>7, <3>1, <3>2
    <2> QED
      BY <2>1, <2>2, <2>7 DEF AckedInv
  <1> QED
    BY <1>m, <1>1, <1>2, <1>3, AckSteps

\* The inductive invariant of transfers.
TransferringInv == TransferInv /\ AckedInv

LEMMA TransferringHolds == Spec => []TransferringInv
  <1>1. Init => TransferringInv
    BY DEF Init, DirectInit, TransferringInv, TransferInv, AckedInv, AtCopy, Running
  <1>2. StartInv /\ DiskInv /\ WalkingInv /\ TransferringInv /\ [Next]_vars /\ StartInv' /\ DiskInv' => TransferringInv'
    <2> SUFFICES ASSUME StartInv, DiskInv, WalkingInv, TransferringInv, [Next]_vars, StartInv', DiskInv'
                 PROVE  TransferringInv'
      OBVIOUS
    <2>1. AtWork /\ InItems /\ ServerInv /\ WalkInv /\ TransferInv /\ AckedInv /\ AtWork' /\ ServerInv'
      BY DEF StartInv, DiskInv, WalkingInv, TransferringInv
    <2> QED
      BY <2>1, TransferStep, AckedStep DEF TransferringInv
  <1> QED
    BY <1>1, <1>2, InitStart, StartStep, DiskInvHolds, WalkingHolds, PTL DEF Spec

(***************************************************************************)
(* For images, files and sessions of every size: a file chusb was told is  *)
(* stored has the name, the type and the bytes it has in the image, and    *)
(* is on the disk like that unless the drive refused it, also when the     *)
(* requests for checksums fail, or one for a byte; and the copy of a sound *)
(* image comes to its end mark with all its files (sendfile, chusb.c:244). *)
(***************************************************************************)
THEOREM CopiesAreTrue == Spec => []CopyIsTrue
  <1>1. ASSUME DiskInv, WalkingInv, TransferringInv PROVE CopyIsTrue
    <2> SUFFICES ASSUME Running("copy") PROVE CopyIsTrue
      BY DEF CopyIsTrue
    <2>0. OwnPlace /\ Live /\ WalkInv /\ AckedInv
      BY <1>1 DEF DiskInv, ServerInv, WalkingInv, TransferringInv
    <2>1. \A f \in acked :
            /\ \/ single /\ f = [name |-> Cmd.file.name, type |-> Cmd.file.type, body |-> Cmd.file.body]
               \/ ~single /\ \E e \in ToCopy : f = ImageFile(e)
            /\ Good => f \in files \/ f.name \in refused
      BY <2>0 DEF AckedInv
    <2>2. ASSUME upc = "endmark", copying, ~single, Sound, ~Shared(image)
          PROVE  acked = {ImageFile(e) : e \in ToCopy}
      <3>1. AtCopy
        BY <2>0, <2>2 DEF Live, OfCopy, AtCopy, Running
      <3>2. WalkTypes /\ PlaceInv /\ PassedInv /\ image \in Images
        BY <2>0, <2>2, <3>1 DEF WalkInv, WalkTypes
      <3>3. nexttr = End /\ DirEnds(image) /\ Flawless
        BY <2>2, <3>2 DEF PlaceInv, Sound, Flawless
      <3>4. PICK V \in SUBSET Places : Visited(V) /\ Copied(V)
        BY <3>2, <3>3 DEF PassedInv
      <3>5. Coming = End
        BY <2>2, <3>3 DEF Coming, InDir, InFile, Transfers
      <3>6. image.dir \in V /\ \A p \in V : LinkOf(p) \in V \cup {End}
        <4>1. image.dir # End
          BY <3>2, WalkAssumption
        <4> QED
          BY <3>4, <3>5, <4>1 DEF Visited
      <3>7. DirSectors(image) \subseteq V
        BY <3>2, <3>6, AllVisited
      <3>8. Handled(V) = Listed(image)
        <4>1. ASSUME NEW q \in Listed(image) PROVE q[1] \in V
          <5>1. PICK d \in DirSectors(image) : \E i \in DOMAIN image.sector[d].entries : q = <<d, i>>
            BY <4>1, ListedIs
          <5> QED
            BY <3>7, <5>1
        <4> QED
          BY <4>1 DEF Handled
      <3>9. \A e \in ToCopy : ImageFile(e) \in acked
        BY <3>3, <3>4, <3>8 DEF Copied, ToCopy
      <3> HIDE DEF ToCopy
      <3> QED
        BY <2>1, <2>2, <3>9
    <2> QED
      BY <2>1, <2>2 DEF CopyIsTrue, Good
  <1> QED
    BY <1>1, DiskInvHolds, WalkingHolds, TransferringHolds, PTL
=============================================================================
