----------------------------- MODULE WxUpdater ------------------------------
(***************************************************************************)
(* The updater with a GUI.  Its timer callback GUIUpdate looks for the     *)
(* Chameleon, asks which hardware it is when it has come back, and sets    *)
(* the buttons; a click queues the task FlashCore, and the next tick that  *)
(* finds the program idle queues StartCH.  The tasks run on a thread of    *)
(* their own; TaskMgr shows that the queue keeps what Dispatcher promises, *)
(* a set of tasks to do and one that is done.                              *)
(*                                                                         *)
(* A section between LockAccess and UnlockAccess is one step, except for   *)
(* the long one of FlashCore.  A thread that is on its way to its section  *)
(* may make the other one's LockAccess fail.  That LockAccess is not       *)
(* atomic is the subject of ChacoApp.                                      *)
(***************************************************************************)
EXTENDS CoreFlash

CONSTANT WxJobs         \* bound: it is started when less than this has been flashed

VARIABLES
    present,            \* bPresent
    chversion,          \* chversion: 0 at first, -1 when GetFlashID failed
    found, busy,        \* the statics of GUIUpdate
    buttons,            \* the Update button is enabled
    updatedone,         \* an update was asked for, a restart was not
    gui,                \* where the GUI thread is
    starting,           \* it is in MyApp::OnInit
    todo, stage,        \* the tasks asked for, where the one that runs is
    known               \* history: GetFlashID has answered for this connection

tasks == <<todo, stage>>
widgets == <<found, busy, buttons, updatedone>>
wx == <<present, chversion, widgets, gui, starting, tasks, known>>
wvars == <<cvars, wx>>

WxInit ==
    /\ FlashInit
    /\ present = FALSE /\ chversion = 0
    /\ found = FALSE /\ busy = FALSE /\ buttons = TRUE /\ updatedone = FALSE
    /\ gui = "none" /\ starting = FALSE
    /\ todo = {} /\ stage = "none"
    /\ known = FALSE

Locked == stage = "flash"

\* FlashCore meets a lock the GUI thread holds, or the other way round.
TaskCollides == gui \in {"poll", "init", "version", "buttons"}
GuiCollides == stage \in {"start", "card", "core", "flash"}

-----------------------------------------------------------------------------
(***************************************************************************)
(* main.cpp, GUIUpdate and what it calls.                                  *)
(***************************************************************************)
WxStart ==
    /\ prog = "none" /\ jobs < WxJobs
    /\ prog' = "wx"
    /\ gui' = "init" /\ starting' = TRUE
    /\ UNCHANGED <<chameleon, usb, job, jobs, nocard, file, present, chversion, widgets,
                   tasks, known>>

Gui(at) == prog = "wx" /\ gui = at
GuiOnly == UNCHANGED <<chameleon, plugged, card, prog, job, jobs, nocard, file, tasks>>

TickBusy ==
    /\ Gui("idle") /\ GuiCollides
    /\ IF present THEN found' = TRUE /\ busy' = TRUE ELSE UNCHANGED <<found, busy>>
    /\ gui' = "buttons"
    /\ UNCHANGED <<present, chversion, buttons, updatedone, starting, known, link>>
    /\ GuiOnly

\* Every two seconds an idle tick looks for the Chameleon.
TickIdle ==
    /\ Gui("idle") /\ ~Locked
    /\ busy' = FALSE
    /\ gui' \in {"buttons", IF present THEN "poll" ELSE "init"}
    /\ UNCHANGED <<present, chversion, found, buttons, updatedone, starting, known, link>>
    /\ GuiOnly

CheckChameleon ==
    /\ Gui("poll")
    /\ \/ GuiCollides /\ found' = FALSE /\ UNCHANGED present
       \/ ~Locked /\ found' \in {link, FALSE} /\ present' = found'
    /\ gui' = "buttons"
    /\ UNCHANGED <<chversion, busy, buttons, updatedone, starting, known, link>>
    /\ GuiOnly

\* A slip: the Chameleon is initialised again without LockAccess.
ChameleonInitUnlocked ==
    /\ Gui("init")
    /\ link' \in {plugged, FALSE}
    /\ present' = link' /\ found' = (found /\ link')
    /\ known' = FALSE
    /\ gui' = IF link' THEN "version" ELSE "buttons"
    /\ UNCHANGED <<chversion, busy, buttons, updatedone, starting>>
    /\ GuiOnly

\* ChameleonInit up to chameleon_init, which forgets the handle and opens a new one.
ChameleonInit ==
    /\ Gui("init")
    /\ \/ /\ GuiCollides
          /\ gui' = "buttons" /\ found' = FALSE
          /\ UNCHANGED <<present, link, known>>
       \/ /\ ~Locked
          /\ link' \in {plugged, FALSE}
          /\ present' = link' /\ found' = (found /\ link')
          /\ known' = FALSE
          /\ gui' = IF link' THEN "version" ELSE "buttons"
    /\ UNCHANGED <<chversion, busy, buttons, updatedone, starting>>
    /\ GuiOnly

\* The rest of it, CheckVersion and updateFlashStatus: bPresent stays set.
CheckVersion ==
    /\ Gui("version")
    /\ \/ gui' = "buttons" /\ found' = FALSE
       \/ gui' = "id" /\ link /\ ~Locked /\ UNCHANGED found
    /\ UNCHANGED <<present, chversion, busy, buttons, updatedone, starting, known, link>>
    /\ GuiOnly

\* SetChVersion(GetFlashID())
GetFlashID ==
    /\ Gui("id")
    /\ chversion' \in (IF link THEN {version, -1} ELSE {-1})
    /\ known' = (chversion' # -1)
    /\ found' = TRUE
    /\ gui' = "buttons"
    /\ UNCHANGED <<present, busy, buttons, updatedone, starting, link>>
    /\ GuiOnly

\* The end of OnInit: a Chameleon that was not found disables the buttons.
Ready ==
    /\ Gui("buttons") /\ starting
    /\ buttons' = found
    /\ found' = FALSE
    /\ starting' = FALSE
    /\ gui' = "idle"
    /\ UNCHANGED <<present, chversion, busy, updatedone, known, link>>
    /\ GuiOnly

\* The end of GUIUpdate; checksdcard that fails enables the button like no card does.
SetButtons ==
    /\ Gui("buttons") /\ ~starting
    /\ IF ~found \/ busy
       THEN buttons' = FALSE
       ELSE buttons' \in {TRUE, IF link /\ ~Locked THEN ~card ELSE TRUE}
    /\ IF ~busy /\ updatedone
       THEN todo' = todo \cup {"StartCH"} /\ updatedone' = FALSE
       ELSE UNCHANGED <<todo, updatedone>>
    /\ gui' = "idle"
    /\ UNCHANGED <<present, chversion, found, busy, starting, known, stage, link,
                   chameleon, plugged, card, prog, job, jobs, nocard, file>>

\* The button "Update"
ClickUpdate ==
    /\ Gui("idle") /\ buttons
    /\ todo' = IF chversion >= 0 THEN todo \cup {"FlashCore"} ELSE todo
    /\ updatedone' = TRUE
    /\ UNCHANGED <<cvars, present, chversion, found, busy, buttons, gui, starting,
                   stage, known>>

\* The button "Abort", or the window is closed, at any time; or the program is killed.
Quit ==
    /\ prog = "wx"
    /\ prog' = "none" /\ job' = Idle
    /\ gui' = "none" /\ starting' = FALSE
    /\ todo' = {} /\ stage' = "none"
    /\ present' = FALSE /\ chversion' = 0
    /\ found' = FALSE /\ busy' = FALSE /\ buttons' = TRUE /\ updatedone' = FALSE
    /\ link' = FALSE /\ known' = FALSE
    /\ UNCHANGED <<chameleon, plugged, card, jobs, nocard, file>>

GuiThread ==
    \/ WxStart \/ TickBusy \/ TickIdle \/ CheckChameleon \/ ChameleonInit
    \/ CheckVersion \/ GetFlashID \/ Ready \/ SetButtons \/ ClickUpdate \/ Quit

-----------------------------------------------------------------------------
(***************************************************************************)
(* The task thread.                                                        *)
(***************************************************************************)
Task(at) == prog = "wx" /\ stage = at
TaskOnly == UNCHANGED <<chameleon, usb, nocard, file, present, chversion, widgets,
                        gui, starting, known>>

Take(t) ==
    /\ Task("none") /\ t \in todo
    /\ todo' = todo \ {t}
    /\ stage' = IF t = "FlashCore" THEN "card" ELSE "start"
    /\ UNCHANGED <<prog, job, jobs>>
    /\ TaskOnly

\* StartCH: the core of slot 0 is started, or LockAccess or the request fails.
StartCH ==
    /\ Task("start")
    /\ stage' = "none"
    /\ UNCHANGED <<prog, job, jobs, todo>>
    /\ TaskOnly

\* checksdcard, a section of its own
CheckCard ==
    /\ Task("card")
    /\ \/ link /\ ~card /\ stage' = "core"
       \/ stage' = "none"               \* a card, no answer, or no lock
    /\ UNCHANGED <<prog, job, jobs, todo>>
    /\ TaskOnly

\* FlashCore: what GetChVersion says decides between coredata and coredatav2.
FlashCore(i) ==
    /\ Task("core")
    /\ jobs < WxJobs
    /\ Hardware[i] = (IF chversion < 2 THEN 1 ELSE 2)
    /\ Total(i) <= SlotSize
    /\ Order({0}, 0, SlotImage(i), i)
    /\ stage' = "flash"
    /\ UNCHANGED <<prog, todo>>
    /\ TaskOnly

\* LockAccess fails, or the binary data exceeds the slot size.
FlashNothing ==
    /\ Task("core")
    /\ TaskCollides \/ \E i \in Images : Total(i) > SlotSize
    /\ stage' = "none"
    /\ UNCHANGED <<prog, job, jobs, todo>>
    /\ TaskOnly

FlashEnds ==
    /\ Task("flash") /\ Returns
    /\ stage' = "none"
    /\ UNCHANGED <<version, usb, prog, jobs, nocard, file, present, chversion, widgets,
                   gui, starting, todo, known>>

TaskThread ==
    \/ \E t \in {"StartCH", "FlashCore"} : Take(t)
    \/ StartCH \/ CheckCard \/ FlashNothing \/ FlashEnds
    \/ \E i \in Images : FlashCore(i)

WxNext == GuiThread \/ TaskThread \/ (FlashNext /\ UNCHANGED wx)

WxSpec == WxInit /\ [][WxNext]_wvars

-----------------------------------------------------------------------------
WxTypeOK ==
    /\ present \in BOOLEAN /\ found \in BOOLEAN /\ busy \in BOOLEAN
    /\ buttons \in BOOLEAN /\ updatedone \in BOOLEAN /\ starting \in BOOLEAN
    /\ known \in BOOLEAN
    /\ chversion \in Versions \cup {-1, 0}
    /\ gui \in {"none", "idle", "poll", "init", "version", "id", "buttons"}
    /\ todo \subseteq {"StartCH", "FlashCore"}
    /\ stage \in {"none", "start", "card", "core", "flash"}

(***************************************************************************)
(* With the updater with a GUI among the programs, too, chacolib finds     *)
(* only cores that are there (StatusIsTrue), and something is written only *)
(* while FlashCore holds the lock or a program of the command line runs.   *)
(***************************************************************************)
WxInv ==
    /\ WxTypeOK /\ FlashInv
    /\ prog = "wx" => (job # Idle <=> Locked)

Updates == prog \in {"updater", "wx"} /\ job' # Idle
ChosenRight == Hardware[job'.image] = version \/ (prog = "wx" /\ ~known)

(***************************************************************************)
(* No updater puts a core made for other hardware into slot 0, whatever is *)
(* plugged in and pulled out meanwhile, nor does it open another Chameleon *)
(* while it writes - provided GetFlashID has answered since the updater    *)
(* with a GUI has opened the connection.  It is not even called when       *)
(* CheckVersion fails after chameleon_init: bPresent is set, so the next   *)
(* look is CheckChameleon, and chversion is that of the Chameleon before,  *)
(* or still 0.  And FlashCore takes 0, and a -1 set after the click, for   *)
(* version 1.                                                              *)
(***************************************************************************)
RightCore ==
    [][Updates => /\ job = Idle /\ link => ChosenRight
                  /\ job # Idle /\ link' => link]_wvars
=============================================================================
