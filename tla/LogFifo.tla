------------------------------ MODULE LogFifo ------------------------------
(***************************************************************************)
(* The log of Chaco (ChFrm.cpp; wxupdater has the same).  Tasks may not    *)
(* touch the log window, so outPrint, called on both threads, puts lines   *)
(* into a ring of MAXMSG strings, and the timer callback GUIUpdate, on the *)
(* GUI thread, shows them.  The indexes and the count are plain ints that  *)
(* both threads load and store; nothing locks them.                        *)
(***************************************************************************)
EXTENDS Naturals, Sequences

CONSTANTS
    MaxMsg,     \* MAXMSG, 32
    Prints      \* how many lines are printed

ASSUME LogAssumption == MaxMsg \in Nat /\ MaxMsg >= 1 /\ Prints \in Nat

Slots == 0 .. MaxMsg - 1
Threads == {"gui", "task"}
Empty == 0      \* NULL; lines are numbered from 1

VARIABLES
    textlines, textreadptr, textwriteptr, textoverflow, textbuffer, timerrunning,
    pc, msg, tmp,       \* both threads: where they are, the line to print, what was loaded
    shown,              \* the log window
    next, accepted,     \* history: the next line; the lines put into the ring or shown
    raced               \* history: one thread was at the ring while the other was

ring == <<textlines, textreadptr, textwriteptr, textoverflow, textbuffer, timerrunning>>
threads == <<pc, msg, tmp>>
vars == <<ring, threads, shown, next, accepted, raced>>

Init ==
    /\ textlines = 0 /\ textreadptr = 0 /\ textwriteptr = 0 /\ textoverflow = 0
    /\ textbuffer = [i \in Slots |-> Empty]
    /\ timerrunning = FALSE
    /\ pc = [t \in Threads |-> "idle"]
    /\ msg = [t \in Threads |-> Empty]
    /\ tmp = [t \in Threads |-> 0]
    /\ shown = <<>> /\ next = 1 /\ accepted = <<>>
    /\ raced = FALSE

From(t, here) == pc[t] = here
Goto(t, there) == pc' = [pc EXCEPT ![t] = there]
Step(t, here, there) == From(t, here) /\ Goto(t, there)

\* A thread that waits for room in the ring is not at it.
AtRing(t, p) == p[t] \notin {"idle", "wait"}

-----------------------------------------------------------------------------
(***************************************************************************)
(* outPrint.                                                               *)
(***************************************************************************)

\* Before the timer runs, lines go to the window at once.
PrintDirectly(t) ==
    /\ From(t, "idle") /\ ~timerrunning /\ next <= Prints
    /\ shown' = Append(shown, next) /\ accepted' = Append(accepted, next)
    /\ next' = next + 1
    /\ UNCHANGED <<ring, threads>>

PrintLater(t) ==
    /\ Step(t, "idle", "check") /\ timerrunning /\ next <= Prints
    /\ msg' = [msg EXCEPT ![t] = next] /\ next' = next + 1
    /\ UNCHANGED <<ring, tmp, shown, accepted>>

\* With a full ring: wait for two ticks, or not at all when waiting was in vain before.
Check(t) ==
    /\ From(t, "check")
    /\ Goto(t, IF textlines # MaxMsg THEN "put"
               ELSE IF textoverflow = 0 THEN "wait" ELSE "again")
    /\ UNCHANGED <<ring, msg, tmp, shown, next, accepted>>

Wait(t) ==
    /\ Step(t, "wait", "again")
    /\ UNCHANGED <<ring, msg, tmp, shown, next, accepted>>

\* A slip: the second look at textlines is left out.
CheckAgainNot(t) ==
    /\ Step(t, "again", "put")
    /\ UNCHANGED <<ring, msg, tmp, shown, next, accepted>>

CheckAgain(t) ==
    /\ From(t, "again") /\ textlines # MaxMsg
    /\ Goto(t, "put")
    /\ UNCHANGED <<ring, msg, tmp, shown, next, accepted>>

\* The line is dropped.
Drop(t) ==
    /\ Step(t, "again", "idle") /\ textlines = MaxMsg
    /\ textoverflow' = 1
    /\ UNCHANGED <<textlines, textreadptr, textwriteptr, textbuffer, timerrunning,
                   msg, tmp, shown, next, accepted>>

Put(t) ==
    /\ Step(t, "put", "load")
    /\ textbuffer' = [textbuffer EXCEPT ![textwriteptr] = msg[t]]
    /\ accepted' = Append(accepted, msg[t])
    /\ UNCHANGED <<textlines, textreadptr, textwriteptr, textoverflow, timerrunning,
                   msg, tmp, shown, next>>

LoadWritePtr(t) ==
    /\ Step(t, "load", "store")
    /\ tmp' = [tmp EXCEPT ![t] = textwriteptr]
    /\ UNCHANGED <<ring, msg, shown, next, accepted>>

StoreWritePtr(t) ==
    /\ Step(t, "store", "lines")
    /\ textwriteptr' = (tmp[t] + 1) % MaxMsg
    /\ UNCHANGED <<textlines, textreadptr, textoverflow, textbuffer, timerrunning,
                   msg, tmp, shown, next, accepted>>

LoadLines(t) ==
    /\ Step(t, "lines", "count")
    /\ tmp' = [tmp EXCEPT ![t] = textlines]
    /\ UNCHANGED <<ring, msg, shown, next, accepted>>

StoreLines(t) ==
    /\ Step(t, "count", "idle")
    /\ textlines' = tmp[t] + 1
    /\ UNCHANGED <<textreadptr, textwriteptr, textoverflow, textbuffer, timerrunning,
                   msg, tmp, shown, next, accepted>>

OutPrint(t) ==
    \/ PrintDirectly(t) \/ PrintLater(t) \/ Check(t) \/ Wait(t) \/ CheckAgain(t) \/ Drop(t)
    \/ Put(t) \/ LoadWritePtr(t) \/ StoreWritePtr(t) \/ LoadLines(t) \/ StoreLines(t)

-----------------------------------------------------------------------------
(***************************************************************************)
(* GUIUpdate.                                                              *)
(***************************************************************************)
Tick ==
    /\ From("gui", "idle")
    /\ Goto("gui", IF textlines = 0 THEN "idle" ELSE "while")
    /\ timerrunning' = TRUE
    /\ UNCHANGED <<textlines, textreadptr, textwriteptr, textoverflow, textbuffer,
                   msg, tmp, shown, next, accepted>>

\* A slip: the callback shows lines only while there are more than one.
WhileMore ==
    /\ From("gui", "while")
    /\ Goto("gui", IF textlines <= 1 THEN "fine" ELSE "show")
    /\ UNCHANGED <<ring, msg, tmp, shown, next, accepted>>

While ==
    /\ From("gui", "while")
    /\ Goto("gui", IF textlines = 0 THEN "reset" ELSE "show")
    /\ UNCHANGED <<ring, msg, tmp, shown, next, accepted>>

Show ==
    /\ Step("gui", "show", "free") /\ textbuffer[textreadptr] # Empty
    /\ shown' = Append(shown, textbuffer[textreadptr])
    /\ UNCHANGED <<ring, msg, tmp, next, accepted>>

\* "ERROR: log not in sync"
NotInSync ==
    /\ Step("gui", "show", "reset") /\ textbuffer[textreadptr] = Empty
    /\ UNCHANGED <<ring, msg, tmp, shown, next, accepted>>

\* A slip: the string is deleted, the pointer to it kept.
FreeKeeps ==
    /\ Step("gui", "free", "uncount")
    /\ textreadptr' = (textreadptr + 1) % MaxMsg
    /\ UNCHANGED <<textlines, textwriteptr, textoverflow, textbuffer, timerrunning,
                   msg, tmp, shown, next, accepted>>

\* delete, and the steps after it, which concern nobody else.
Free ==
    /\ Step("gui", "free", "uncount")
    /\ textbuffer' = [textbuffer EXCEPT ![textreadptr] = Empty]
    /\ textreadptr' = (textreadptr + 1) % MaxMsg
    /\ UNCHANGED <<textlines, textwriteptr, textoverflow, timerrunning,
                   msg, tmp, shown, next, accepted>>

LoadCount ==
    /\ Step("gui", "uncount", "less")
    /\ tmp' = [tmp EXCEPT !["gui"] = textlines]
    /\ UNCHANGED <<ring, msg, shown, next, accepted>>

StoreCount ==
    /\ Step("gui", "less", "while")
    /\ textlines' = tmp["gui"] - 1
    /\ UNCHANGED <<textreadptr, textwriteptr, textoverflow, textbuffer, timerrunning,
                   msg, tmp, shown, next, accepted>>

ResetLines ==
    /\ Step("gui", "reset", "fine")
    /\ textlines' = 0
    /\ UNCHANGED <<textreadptr, textwriteptr, textoverflow, textbuffer, timerrunning,
                   msg, tmp, shown, next, accepted>>

ResetOverflow ==
    /\ Step("gui", "fine", "idle")
    /\ textoverflow' = 0
    /\ UNCHANGED <<textlines, textreadptr, textwriteptr, textbuffer, timerrunning,
                   msg, tmp, shown, next, accepted>>

GUIUpdate ==
    \/ While \/ Show \/ NotInSync \/ Free \/ LoadCount \/ StoreCount
    \/ ResetLines \/ ResetOverflow

-----------------------------------------------------------------------------
Raced == raced' = (raced \/ \A t \in Threads : AtRing(t, pc'))

Next ==
    /\ (\E t \in Threads : OutPrint(t)) \/ Tick \/ GUIUpdate
    /\ Raced

Spec == Init /\ [][Next]_vars

\* What a thread has begun it goes on with; the timer fires whenever the GUI thread is
\* back in its event loop, again and again.
Begun(t) == ~From(t, "idle") /\ OutPrint(t)

FairSpec ==
    /\ Spec
    /\ \A t \in Threads : WF_vars(Begun(t) /\ Raced)
    /\ WF_vars(GUIUpdate /\ Raced)
    /\ SF_vars(Tick /\ Raced)
-----------------------------------------------------------------------------
TypeOK ==
    /\ textlines \in Nat
    /\ textreadptr \in Slots /\ textwriteptr \in Slots /\ textoverflow \in {0, 1}
    /\ textbuffer \in [Slots -> 0 .. Prints]
    /\ timerrunning \in BOOLEAN
    /\ pc \in [Threads -> {"idle", "check", "wait", "again", "put", "load", "store",
                           "lines", "count", "while", "show", "free", "uncount",
                           "less", "reset", "fine"}]
    /\ msg \in [Threads -> 0 .. Prints] /\ tmp \in [Threads -> Nat]
    /\ shown \in Seq(1 .. Prints) /\ accepted \in Seq(1 .. Prints)
    /\ next \in 1 .. Prints + 1 /\ raced \in BOOLEAN

Pending == [k \in 1 .. textlines |-> textbuffer[(textreadptr + k - 1) % MaxMsg]]

IsFifo ==
    ~raced /\ (\A t \in Threads : ~AtRing(t, pc)) => accepted = shown \o Pending

(***************************************************************************)
(* When neither thread is at the ring, and never both were at once, the    *)
(* ring holds just what has been accepted and not been shown, in order,    *)
(* and textlines counts it: nothing is overwritten when the ring is full   *)
(* and nothing is left behind when it has wrapped.                         *)
(***************************************************************************)
LogInv == TypeOK /\ IsFifo

(***************************************************************************)
(* Even when the threads race, no line is shown twice (and so no string is *)
(* used after it was deleted): GUIUpdate empties a slot before it goes on. *)
(***************************************************************************)
ShownOnce == \A i, j \in DOMAIN shown : shown[i] = shown[j] => i = j

(***************************************************************************)
(* An accepted line is shown in the end, unless the threads race.          *)
(***************************************************************************)
GetsShown == \A k \in 1 .. Prints : Len(accepted) >= k ~> Len(shown) >= k \/ raced
=============================================================================
