------------------------------ MODULE ChacoApp ------------------------------
(***************************************************************************)
(* Chaco at run time: the task manager together with the two threads that  *)
(* use the Chameleon.  The functions of Chameleon.cpp guard every use of   *)
(* the USB library with LockAccess and UnlockAccess, a test and a set of a *)
(* plain bool; the task functions do so on the thread of the task loop,    *)
(* the timer callback GUIUpdate and the click handlers of ChFrm.cpp on the *)
(* GUI thread.  GUIUpdate polls for the Chameleon while Chaco is idle and  *)
(* enables or disables the buttons.                                        *)
(*                                                                         *)
(* One call of the USB library is one step ("work"); it succeeds or fails. *)
(* What becomes of the handle of the device is modelled, in so far as the  *)
(* Chameleon is found again: chameleon_usb_init forgets a handle without   *)
(* closing it.                                                             *)
(***************************************************************************)
EXTENDS TaskMgr

CONSTANTS
    Kind,        \* the function behind each task
    CheckEvery   \* idle ticks between two looks for the Chameleon, GUI_SECTICKS(2)

(***************************************************************************)
(* The task functions, by what tells them apart here: derefs, they use the *)
(* parameter before anything else; sdcard, they ask for the SD card in a   *)
(* section of their own first (checksdcard); leaks, they return with the   *)
(* lock held when the parameter is NULL; status, they read the status in a *)
(* section of their own afterwards (updateFlashStatus).                    *)
(***************************************************************************)
Derefs == {"StartCH", "WriteSlot", "ReadSlot"}
AsksSdCard == {"FlashCore", "WriteSlot", "WriteImage"}
Leaks == {"ReadMemory", "WriteMemory", "FlashCore"}
ReadsStatus == {"StartCH"}
HasDialog(t) == Kind[t] # "StartCH"

Kinds == {"StartCH", "FlashCore", "ReadImage", "WriteImage",
          "WriteSlot", "ReadSlot", "ReadMemory", "WriteMemory"}

ASSUME ChacoAssumption ==
    /\ Kind \in [Tasks -> Kinds]
    /\ CheckEvery \in Nat

VARIABLES
    plugged, answers,       \* the Chameleon is on the bus; it answers
    handle,                 \* ch_hnd: none, open, claimed, or its device is gone
    held,                   \* a forgotten handle has claimed the interface
    lock,                   \* bAccessLock
    present,                \* bPresent
    tsec, tst, tok,         \* the task function: its section, where it is, the result
    ui, ust, uok,           \* the GUI thread: what it does with the lock, likewise
    starting,               \* MyApp::OnInit has not come to registering the tasks
    found, busy, count,     \* the statics of GUIUpdate
    buttons,                \* the buttons are enabled
    dialog,                 \* the task whose file dialog is open
    rushed,                 \* history: a request has met the loop awake
    dead                    \* Chaco has followed a NULL: the parameter, or the handle

task == <<tsec, tst, tok>>
section == <<ui, ust, uok, starting>>
tick == <<found, busy, count, buttons>>
device == <<plugged, answers, handle, held>>
world == <<device, rushed, dead, dialog>>
app == <<lock, present, task, section, tick, world>>
appvars == <<vars, app>>

AppInit ==
    /\ Init
    /\ plugged \in BOOLEAN /\ answers = TRUE /\ handle = "none" /\ held = FALSE
    /\ lock = FALSE /\ present = FALSE
    /\ tsec = "main" /\ tst = "enter" /\ tok = FALSE
    /\ ui = "init" /\ ust = "test" /\ uok = FALSE /\ starting = TRUE
    /\ found = FALSE /\ busy = FALSE /\ count = 0
    /\ buttons = TRUE
    /\ dialog = None
    /\ rushed = FALSE /\ dead = "no"

Alive == dead = "no"

\* A thread is between setting and clearing bAccessLock.
TaskHolds == lpc = "run" /\ tst \in {"work", "unlock"}
GuiHolds == ui # "none" /\ ust \in {"work", "unlock"}

\* The GUI thread is between two events.
GuiFree == Alive /\ gpc = "idle" /\ ui = "none"

-----------------------------------------------------------------------------
(***************************************************************************)
(* The task loop calls a task function and carries it out.                 *)
(***************************************************************************)
kind == Kind[li]

\* StartCH, WriteSlot and ReadSlot look at the parameter at once.
TaskEnter ==
    /\ Alive /\ lpc = "run" /\ tst = "enter"
    /\ IF kind \in Derefs /\ arg = NoParam
       THEN dead' = "parameter" /\ UNCHANGED <<tsec, tst>>
       ELSE /\ tsec' = IF kind \in AsksSdCard THEN "sdcard" ELSE "main"
            /\ tst' = "test"
            /\ dead' = dead
    /\ UNCHANGED <<vars, lock, present, tok, section, tick, device, rushed, dialog>>

\* LockAccess looks at bAccessLock; when it is taken the function gives up.
TaskTest ==
    /\ Alive /\ lpc = "run" /\ tst = "test"
    /\ tst' = IF lock THEN "done" ELSE "set"
    /\ UNCHANGED <<vars, lock, present, tsec, tok, section, tick, world>>

TaskSet ==
    /\ Alive /\ lpc = "run" /\ tst = "set"
    /\ lock' = TRUE
    /\ tst' = "work"
    /\ UNCHANGED <<vars, present, tsec, tok, section, tick, world>>

\* The Chameleon can be asked, and answers.
Reached == plugged /\ answers /\ handle = "claimed"

\* A file that cannot be used fails like a transfer; an SD card is in the way too.  libusb
\* does not survive a handle that is NULL.
TaskWork ==
    /\ Alive /\ lpc = "run" /\ tst = "work"
    /\ \/ /\ tsec = "main" /\ arg = NoParam
          /\ tok' = FALSE /\ tst' = IF kind \in Leaks THEN "done" ELSE "unlock"
          /\ UNCHANGED dead
       \/ /\ ~(tsec = "main" /\ arg = NoParam)
          /\ handle # "none" \/ tsec = "main"
          /\ tok' \in {Reached, FALSE} /\ tst' = "unlock"
          /\ UNCHANGED dead
       \/ /\ ~(tsec = "main" /\ arg = NoParam) /\ handle = "none"
          /\ dead' = "handle"
          /\ UNCHANGED <<tok, tst>>
    /\ UNCHANGED <<vars, lock, present, tsec, section, tick, device, rushed, dialog>>

\* A slip: a section that failed is left without UnlockAccess.
TaskUnlockOnSuccess ==
    /\ Alive /\ lpc = "run" /\ tst = "unlock"
    /\ lock' = (lock /\ ~tok)
    /\ tst' = "done"
    /\ UNCHANGED <<vars, present, tsec, tok, section, tick, world>>

TaskUnlock ==
    /\ Alive /\ lpc = "run" /\ tst = "unlock"
    /\ lock' = FALSE
    /\ \/ /\ tok /\ tsec = "sdcard"
          /\ tsec' = "main" /\ tst' = "test"
       \/ /\ tok /\ tsec = "main" /\ kind \in ReadsStatus
          /\ tsec' = "status" /\ tst' = "test"
       \/ /\ ~tok \/ tsec = "status" \/ (tsec = "main" /\ kind \notin ReadsStatus)
          /\ tsec' = tsec /\ tst' = "done"
    /\ UNCHANGED <<vars, present, tok, section, tick, world>>

TaskReturn ==
    /\ Alive /\ LoopReturn /\ tst = "done"
    /\ tsec' = "main" /\ tst' = "enter" /\ tok' = FALSE
    /\ UNCHANGED <<lock, present, section, tick, world>>

LoopOther ==
    /\ Alive
    /\ \/ LoopBegin \/ LoopSkip \/ LoopMark \/ LoopClear
       \/ LoopCall \/ LoopEnd \/ LoopWake
    /\ UNCHANGED app

TaskThread ==
    \/ TaskEnter \/ TaskTest \/ TaskSet \/ TaskWork \/ TaskUnlock \/ TaskReturn
    \/ LoopOther

-----------------------------------------------------------------------------
(***************************************************************************)
(* The GUI thread uses the Chameleon: ChameleonInit (with CheckVersion and *)
(* updateFlashStatus), CheckChameleon, setJTAGSlot, startBootloader.       *)
(***************************************************************************)

\* What the caller does with the result r: MyApp::OnInit, GUIUpdate, a click handler.
Finish(r) ==
    /\ ui' = "none"
    /\ IF ui \in {"jtag", "boot"} THEN UNCHANGED <<starting, found, buttons>>
       ELSE IF starting THEN /\ starting' = FALSE
                             /\ buttons' = (buttons /\ r)
                             /\ UNCHANGED found
       ELSE /\ found' = r
            /\ buttons' = (r /\ ~busy)
            /\ UNCHANGED starting
    /\ UNCHANGED <<busy, count>>

\* LockAccess fails; only after CheckVersion went well ChameleonInit does not care.
GuiLocked ==
    /\ Alive /\ ui # "none" /\ ust = "test" /\ lock
    /\ Finish(ui = "status")
    /\ UNCHANGED <<vars, lock, present, task, ust, uok, world>>

GuiTest ==
    /\ Alive /\ ui # "none" /\ ust = "test" /\ ~lock
    /\ ust' = "set"
    /\ UNCHANGED <<vars, lock, present, task, ui, uok, starting, tick, world>>

\* CheckChameleon and ChameleonInit forget what they knew.
GuiSet ==
    /\ Alive /\ ui # "none" /\ ust = "set"
    /\ lock' = TRUE
    /\ present' = (present /\ ui \notin {"find", "init"})
    /\ ust' = "work"
    /\ UNCHANGED <<vars, task, ui, uok, starting, tick, world>>

AtWork(ops) ==
    /\ Alive /\ ui \in ops /\ ust = "work"
    /\ UNCHANGED <<vars, lock, task, ui, starting, tick, plugged, answers, rushed, dialog>>

\* chameleon_find and chameleon_claim: the claim fails when another handle has the interface.
Opened == IF ~plugged THEN "none" ELSE IF held' THEN "open" ELSE "claimed"

\* chameleon_init: chameleon_usb_init forgets the handle, but does not close it.
GuiInit ==
    /\ AtWork({"init"})
    /\ held' = (held \/ handle = "claimed")
    /\ handle' = Opened
    /\ uok' = (handle' = "claimed") /\ present' = uok'
    /\ ust' = "unlock" /\ UNCHANGED dead

\* When both threads are at the Chameleon, either may get the other's answer.
Asks(ok) == uok' \in IF TaskHolds THEN {ok, FALSE} ELSE {ok}

\* CheckChameleon: a handle that is there is not opened again, and a claim is no question.
GuiFind ==
    /\ AtWork({"find"})
    /\ held' = held
    /\ handle' = IF handle \in {"none", "open"} THEN Opened ELSE handle
    /\ Asks(Reached') /\ present' = uok'
    /\ ust' = "unlock" /\ UNCHANGED dead

GuiAsk ==
    /\ AtWork({"version", "status", "jtag", "boot"})
    /\ IF handle = "none" THEN dead' = "handle" /\ UNCHANGED <<uok, ust>>
       ELSE Asks(Reached) /\ ust' = "unlock" /\ UNCHANGED dead
    /\ UNCHANGED <<present, handle, held>>

GuiWork == GuiInit \/ GuiFind \/ GuiAsk

\* A slip: a failed look for the Chameleon keeps the lock.
GuiUnlockOnSuccess ==
    /\ Alive /\ ui # "none" /\ ust = "unlock"
    /\ lock' = (lock /\ ~uok)
    /\ ust' = "test" /\ uok' = FALSE
    /\ Finish(uok)
    /\ UNCHANGED <<vars, present, task, world>>

GuiUnlock ==
    /\ Alive /\ ui # "none" /\ ust = "unlock"
    /\ lock' = FALSE
    /\ ust' = "test" /\ uok' = FALSE
    /\ \/ /\ uok /\ ui \in {"init", "version"}
          /\ ui' = IF ui = "init" THEN "version" ELSE "status"
          /\ UNCHANGED <<starting, tick>>
       \/ /\ ~(uok /\ ui \in {"init", "version"})
          /\ Finish(uok \/ ui = "status")
    /\ UNCHANGED <<vars, present, task, world>>

GuiSection == GuiLocked \/ GuiTest \/ GuiSet \/ GuiWork \/ GuiUnlock

-----------------------------------------------------------------------------
(***************************************************************************)
(* The timer callback GUIUpdate, as far as the lock is concerned.          *)
(***************************************************************************)
Ticking == GuiFree /\ ~starting /\ size = NTasks

TickBusy ==
    /\ Ticking /\ lock /\ present
    /\ found' = TRUE /\ busy' = TRUE
    /\ buttons' = FALSE
    /\ UNCHANGED <<vars, lock, present, task, section, count, world>>

\* "USB locked but no chameleon detected": the buttons show what was known before.
TickBug ==
    /\ Ticking /\ lock /\ ~present
    /\ buttons' = (found /\ ~busy)
    /\ UNCHANGED <<vars, lock, present, task, section, found, busy, count, world>>

TickIdle ==
    /\ Ticking /\ ~lock /\ count < CheckEvery
    /\ busy' = FALSE
    /\ count' = count + 1
    /\ buttons' = found
    /\ UNCHANGED <<vars, lock, present, task, section, found, world>>

\* A slip: only a Chameleon that was present is looked for.
TickFindOnly ==
    /\ Ticking /\ ~lock /\ count >= CheckEvery
    /\ busy' = FALSE
    /\ count' = 0
    /\ ui' = IF present THEN "find" ELSE "none"
    /\ ust' = "test"
    /\ UNCHANGED <<vars, lock, present, task, uok, starting, found, buttons, world>>

\* Every two seconds: look for the Chameleon, or for one that was disconnected.
TickFind ==
    /\ Ticking /\ ~lock /\ count >= CheckEvery
    /\ busy' = FALSE
    /\ count' = 0
    /\ ui' = IF present THEN "find" ELSE "init"
    /\ ust' = "test"
    /\ UNCHANGED <<vars, lock, present, task, uok, starting, found, buttons, world>>

Tick == TickBusy \/ TickBug \/ TickIdle \/ TickFind

-----------------------------------------------------------------------------
(***************************************************************************)
(* The user and the buttons.  The timer runs on while a dialog is open.    *)
(***************************************************************************)
Clickable == GuiFree /\ buttons /\ dialog = None /\ size = NTasks /\ ~starting

Request(t, p) ==
    /\ RunTask(t, p)
    /\ rushed' = (rushed \/ ~Asleep)
    /\ UNCHANGED <<lock, present, task, section, tick, device, dead>>

ClickStart(t, p) ==
    /\ Clickable /\ ~HasDialog(t)
    /\ Request(t, p)
    /\ UNCHANGED dialog

ClickFile(t) ==
    /\ Clickable /\ HasDialog(t)
    /\ dialog' = t
    /\ UNCHANGED <<vars, lock, present, task, section, tick, device, rushed, dead>>

DialogOk(p) ==
    /\ GuiFree /\ dialog # None
    /\ Request(dialog, p)
    /\ dialog' = None

DialogCancel ==
    /\ GuiFree /\ dialog # None
    /\ dialog' = None
    /\ UNCHANGED <<vars, lock, present, task, section, tick, device, rushed, dead>>

\* The spin control of the JTAG slot, and the button of the bootloader.
ClickUsb(op) ==
    /\ Clickable
    /\ ui' = op /\ ust' = "test"
    /\ UNCHANGED <<vars, lock, present, task, uok, starting, tick, world>>

User ==
    \/ \E t \in Tasks, p \in Params : ClickStart(t, p)
    \/ \E t \in Tasks : ClickFile(t)
    \/ \E p \in Params : DialogOk(p)
    \/ DialogCancel
    \/ \E op \in {"jtag", "boot"} : ClickUsb(op)

\* runTask goes on; OnInit registers the tasks.
GuiOther ==
    /\ Alive
    /\ GuiGoesOn \/ (AddTask /\ ui = "none" /\ ~starting)
    /\ UNCHANGED app

\* The Chameleon is plugged in or pulled out: nothing of it can be claimed any more.
Replug ==
    /\ plugged' = ~plugged
    /\ handle' = IF plugged /\ handle # "none" THEN "gone" ELSE handle
    /\ held' = (held /\ ~plugged)
    /\ answers' = TRUE
    /\ UNCHANGED <<vars, lock, present, task, section, tick, rushed, dead, dialog>>

\* It stays on the bus but stops or starts to answer.
Falter ==
    /\ plugged /\ answers' = ~answers
    /\ UNCHANGED <<vars, lock, present, task, section, tick, plugged, handle, held, rushed, dead, dialog>>

AppNext == TaskThread \/ GuiSection \/ Tick \/ GuiOther \/ User \/ Replug \/ Falter

AppSpec == AppInit /\ [][AppNext]_appvars

(***************************************************************************)
(* Both threads run, calls of the USB library return, and the timer gets   *)
(* its turn between the user's clicks.                                     *)
(***************************************************************************)
AppFairSpec ==
    /\ AppSpec
    /\ WF_appvars(TaskThread)
    /\ WF_appvars(GuiSection \/ GuiOther)
    /\ SF_appvars(Tick)

-----------------------------------------------------------------------------
FlagsOK ==
    /\ plugged \in BOOLEAN /\ answers \in BOOLEAN /\ held \in BOOLEAN /\ lock \in BOOLEAN /\ present \in BOOLEAN
    /\ tok \in BOOLEAN /\ uok \in BOOLEAN /\ starting \in BOOLEAN
    /\ found \in BOOLEAN /\ busy \in BOOLEAN
    /\ buttons \in BOOLEAN
    /\ rushed \in BOOLEAN

AppTypeOK ==
    /\ FlagsOK
    /\ tsec \in {"sdcard", "main", "status"}
    /\ tst \in {"enter", "test", "set", "work", "unlock", "done"}
    /\ ui \in {"none", "init", "version", "status", "find", "jtag", "boot"}
    /\ ust \in {"test", "set", "work", "unlock"}
    /\ count \in 0 .. CheckEvery
    /\ dialog \in Tasks \cup {None}
    /\ handle \in {"none", "open", "claimed", "gone"}
    /\ dead \in {"no", "parameter", "handle"}

(***************************************************************************)
(* A taken lock belongs to somebody who will give it back, and no task     *)
(* function meets a NULL parameter, as long as every request came while    *)
(* the task loop was asleep: the early returns of readMemory, writeMemory  *)
(* and FlashCore that keep the lock, and the NULL pointers the others      *)
(* would follow, need the race in runTask.                                 *)
(***************************************************************************)
LockBelongsToSomebody ==
    ~rushed => /\ lock => TaskHolds \/ GuiHolds
               /\ dead # "parameter"

\* Behind it: a task that is asked for in time is asked for with a parameter.
NeverNull ==
    ~rushed => \A t \in Tasks :
        active[t] \/ running[t] => calm[t] /\ want[t] \in Params

AppInv ==
    /\ AppTypeOK
    /\ TaskMgrInv
    /\ NeverNull
    /\ LockBelongsToSomebody

(***************************************************************************)
(* The lock is free again and again, so Chaco does not stay "busy" (but a  *)
(* Chameleon that goes away while a dialog is open can end Chaco: the task *)
(* gives libusb a handle that is NULL).                                    *)
(***************************************************************************)
LockComesFree == []<>(~lock \/ rushed \/ dead = "handle")

(***************************************************************************)
(* A Chameleon that stays plugged in and answers is found again and again: *)
(* neither a poll that met the lock, nor a Chameleon that came back as     *)
(* another device, nor a half done reinitialisation keeps GUIUpdate from   *)
(* noticing it.  But a poll that failed without the Chameleon leaving the  *)
(* bus does: chameleon_usb_init (chacolib-libusb.c:56-67) forgets the old  *)
(* handle, which keeps the interface, and until the Chameleon is plugged   *)
(* in anew every claim fails.                                              *)
(***************************************************************************)
FoundAgain ==
    <>[](plugged /\ answers /\ ~held) => []<>(found \/ rushed \/ dead = "handle")
=============================================================================
