------------------------------- MODULE TaskMgr -------------------------------
(***************************************************************************)
(* The task manager of Chaco (wxchaco/TaskMgr.cpp, shared by wxupdater).   *)
(* The GUI thread registers tasks and asks for runs of them; a thread of   *)
(* its own scans the list of tasks, runs those that were asked for, one    *)
(* after the other, and sleeps on an event when a scan found none.  The    *)
(* flags bActive and bRunning and the parameter are plain fields that both *)
(* threads access without a lock, so every access is a step of its own.    *)
(*                                                                         *)
(* Tasks are numbered in the order they are registered.  The type of a     *)
(* task decides which overload of runTask finds it; a call with the wrong  *)
(* type or an unknown name returns -1, changes nothing and is left out.    *)
(***************************************************************************)
EXTENDS Naturals

CONSTANTS
    NTasks,     \* how many tasks main registers
    Params,     \* the parameters callers pass
    NoParam,    \* the NULL pointer
    EventMax    \* where the event saturates: 1 on Windows (an auto-reset event),
                \* SEM_VALUE_MAX on Linux (a semaphore)

ASSUME TaskMgrAssumption ==
    /\ NTasks \in Nat
    /\ EventMax \in Nat /\ EventMax >= 1
    /\ NoParam \notin Params

Tasks == 1 .. NTasks
None == 0

VARIABLES
    size,               \* TaskList.size()
    active, running,    \* bActive and bRunning of every task
    param,              \* pParam of every task
    event,              \* TaskMgrEvent
    gpc, gt, gp,        \* the GUI thread: where it is in runTask, its arguments
    lpc, li, llen,      \* the loop: where it is, i, Tlength
    allTasksInactive,
    arg,                \* what the task function was called with
    want, calm          \* history: the parameter last asked for, and whether the
                        \* loop slept with nothing to do when it was asked

tasks == <<size, active, running, param, event>>
gui == <<gpc, gt, gp>>
loop == <<lpc, li, llen, allTasksInactive, arg>>
history == <<want, calm>>
vars == <<tasks, gui, loop, history>>

Registered == 1 .. size

Init ==
    /\ size = 0
    /\ active = [t \in Tasks |-> FALSE]
    /\ running = [t \in Tasks |-> FALSE]
    /\ param = [t \in Tasks |-> NoParam]
    /\ event = 0
    /\ gpc = "idle" /\ gt = None /\ gp = NoParam
    /\ lpc = "begin" /\ li = 1 /\ llen = 0
    /\ allTasksInactive = TRUE
    /\ arg = NoParam
    /\ want = [t \in Tasks |-> NoParam]
    /\ calm = [t \in Tasks |-> FALSE]

-----------------------------------------------------------------------------
(***************************************************************************)
(* The GUI thread: main.cpp registers the tasks after it has started the   *)
(* loop; the handlers of the buttons call runTask.                         *)
(***************************************************************************)
AddTask ==
    /\ gpc = "idle"
    /\ size < NTasks
    /\ size' = size + 1
    /\ UNCHANGED <<active, running, param, event, gui, loop, history>>

\* The loop sleeps, and nothing will wake it but this request.
Asleep == lpc = "wait" /\ event = 0 /\ \A t \in Tasks : ~active[t]

\* A slip: the event is signalled before the parameter is stored.
RunTaskSignalsFirst(t, p) ==
    /\ gpc = "idle"
    /\ t \in Registered
    /\ active' = [active EXCEPT ![t] = TRUE]
    /\ event' = IF event < EventMax THEN event + 1 ELSE event
    /\ gpc' = IF p = NoParam THEN "signal" ELSE "param"
    /\ gt' = t /\ gp' = p
    /\ want' = IF p = NoParam THEN want ELSE [want EXCEPT ![t] = p]
    /\ calm' = [calm EXCEPT ![t] = Asleep]
    /\ UNCHANGED <<size, running, param, loop>>

\* runTask: bActive = true comes first.
RunTask(t, p) ==
    /\ gpc = "idle"
    /\ t \in Registered
    /\ active' = [active EXCEPT ![t] = TRUE]
    /\ gpc' = IF p = NoParam THEN "signal" ELSE "param"
    /\ gt' = t /\ gp' = p
    /\ want' = IF p = NoParam THEN want ELSE [want EXCEPT ![t] = p]
    /\ calm' = [calm EXCEPT ![t] = Asleep]
    /\ UNCHANGED <<size, running, param, event, loop>>

RunSetParam ==
    /\ gpc = "param"
    /\ param' = [param EXCEPT ![gt] = gp]
    /\ gpc' = "signal"
    /\ UNCHANGED <<size, active, running, event, gt, gp, loop, history>>

RunSignal ==
    /\ gpc = "signal"
    /\ event' = IF event < EventMax THEN event + 1 ELSE event
    /\ gpc' = "idle" /\ gt' = None /\ gp' = NoParam
    /\ UNCHANGED <<size, active, running, param, loop, history>>

-----------------------------------------------------------------------------
(***************************************************************************)
(* The loop, taskLoop.                                                     *)
(***************************************************************************)
LoopBegin ==
    /\ lpc = "begin"
    /\ allTasksInactive' = TRUE
    /\ llen' = size
    /\ li' = 1
    /\ lpc' = "test"
    /\ UNCHANGED <<tasks, gui, arg, history>>

LoopSkip ==
    /\ lpc = "test" /\ li <= llen
    /\ ~active[li]
    /\ li' = li + 1
    /\ UNCHANGED <<tasks, gui, lpc, llen, allTasksInactive, arg, history>>

LoopMark ==
    /\ lpc = "test" /\ li <= llen
    /\ active[li]
    /\ running' = [running EXCEPT ![li] = TRUE]
    /\ lpc' = "clear"
    /\ UNCHANGED <<size, active, param, event, gui, li, llen, allTasksInactive, arg, history>>

LoopClear ==
    /\ lpc = "clear"
    /\ active' = [active EXCEPT ![li] = FALSE]
    /\ allTasksInactive' = FALSE
    /\ lpc' = "call"
    /\ UNCHANGED <<size, running, param, event, gui, li, llen, arg, history>>

LoopCall ==
    /\ lpc = "call"
    /\ arg' = param[li]
    /\ lpc' = "run"
    /\ UNCHANGED <<tasks, gui, li, llen, allTasksInactive, history>>

\* A slip: the request is cleared once more when the task is through.
LoopReturnClears ==
    /\ lpc = "run"
    /\ running' = [running EXCEPT ![li] = FALSE]
    /\ active' = [active EXCEPT ![li] = FALSE]
    /\ li' = li + 1
    /\ lpc' = "test"
    /\ UNCHANGED <<size, param, event, gui, llen, allTasksInactive, arg, history>>

LoopReturn ==
    /\ lpc = "run"
    /\ running' = [running EXCEPT ![li] = FALSE]
    /\ li' = li + 1
    /\ lpc' = "test"
    /\ UNCHANGED <<size, active, param, event, gui, llen, allTasksInactive, arg, history>>

\* A slip: the event is reset before the loop waits for it.
LoopEndResets ==
    /\ lpc = "test" /\ li > llen
    /\ lpc' = IF allTasksInactive THEN "wait" ELSE "begin"
    /\ event' = 0
    /\ UNCHANGED <<size, active, running, param, gui, li, llen, allTasksInactive, arg, history>>

LoopEnd ==
    /\ lpc = "test" /\ li > llen
    /\ lpc' = IF allTasksInactive THEN "wait" ELSE "begin"
    /\ UNCHANGED <<tasks, gui, li, llen, allTasksInactive, arg, history>>

LoopWake ==
    /\ lpc = "wait" /\ event > 0
    /\ event' = event - 1
    /\ lpc' = "begin"
    /\ UNCHANGED <<size, active, running, param, gui, li, llen, allTasksInactive, arg, history>>

-----------------------------------------------------------------------------
GuiRequest == \E t \in Tasks, p \in Params \cup {NoParam} : RunTask(t, p)

GuiGoesOn == RunSetParam \/ RunSignal

LoopStep ==
    \/ LoopBegin \/ LoopSkip \/ LoopMark \/ LoopClear
    \/ LoopCall \/ LoopReturn \/ LoopEnd \/ LoopWake

Next == AddTask \/ GuiRequest \/ GuiGoesOn \/ LoopStep

Spec == Init /\ [][Next]_vars

(***************************************************************************)
(* Both threads run, and every task function returns (the USB transfers    *)
(* they consist of time out).  Nobody has to ask for anything.             *)
(***************************************************************************)
FairSpec == Spec /\ WF_vars(GuiGoesOn) /\ WF_vars(LoopStep)

-----------------------------------------------------------------------------
TypeOK ==
    /\ size \in 0 .. NTasks
    /\ active \in [Tasks -> BOOLEAN]
    /\ running \in [Tasks -> BOOLEAN]
    /\ param \in [Tasks -> Params \cup {NoParam}]
    /\ event \in 0 .. EventMax
    /\ gpc \in {"idle", "param", "signal"}
    /\ gt \in Tasks \cup {None}
    /\ gp \in Params \cup {NoParam}
    /\ lpc \in {"begin", "test", "clear", "call", "run", "wait"}
    /\ li \in 1 .. NTasks + 1
    /\ llen \in 0 .. size
    /\ allTasksInactive \in BOOLEAN
    /\ arg \in Params \cup {NoParam}
    /\ want \in [Tasks -> Params \cup {NoParam}]
    /\ calm \in [Tasks -> BOOLEAN]

\* The GUI thread has set bActive of t and not signalled the event yet.
Requesting(t) == gpc # "idle" /\ gt = t

(***************************************************************************)
(* When the loop sleeps (TLWaitForEvent) and a task has been asked for,    *)
(* the event has been signalled or is about to be: no request made while   *)
(* the loop was scanning, or just falling asleep, is slept through.        *)
(***************************************************************************)
NoLostWakeup ==
    lpc = "wait" => \A t \in Tasks : active[t] => event > 0 \/ Requesting(t)

(***************************************************************************)
(* A task asked for while the loop slept is called with the parameter it   *)
(* was asked for with, although runTask raises bActive before it stores    *)
(* the parameter.  (A request that meets the loop awake may be served with *)
(* the parameter of an earlier one, or NULL.)                              *)
(***************************************************************************)
CalmCallsGetTheirParam == lpc = "run" /\ calm[li] => arg = want[li]

(***************************************************************************)
(* The inductive invariant behind both.                                    *)
(***************************************************************************)

\* Only registered tasks are asked for, and the loop is within its scan.
Scan ==
    /\ \A t \in Tasks : active[t] => t <= size
    /\ gpc # "idle" => gt \in Registered
    /\ lpc = "test" => li <= llen + 1
    /\ lpc \in {"clear", "call", "run"} => li <= llen
    /\ lpc = "clear" => active[li]
    /\ lpc \in {"call", "run"} => ~allTasksInactive
    /\ lpc = "wait" => allTasksInactive
    /\ \A t \in Tasks : running[t] <=> lpc \in {"clear", "call", "run"} /\ t = li

\* A scan that may end in sleep passes over no request that is not signalled.
Awake ==
    lpc \in {"test", "clear"} /\ allTasksInactive =>
        \A t \in Tasks :
            active[t] => t \in li .. llen \/ event > 0 \/ Requesting(t)

\* The parameter is stored unless runTask is just about to store it.
Stored ==
    /\ gpc = "param" => gp = want[gt] /\ gp # NoParam
    /\ \A t \in Tasks : ~(gpc = "param" /\ gt = t) => param[t] = want[t]
    /\ gpc # "idle" /\ calm[gt] => lpc = "wait" /\ event = 0

TaskMgrInv ==
    /\ TypeOK
    /\ Scan
    /\ Awake
    /\ Stored
    /\ NoLostWakeup
    /\ CalmCallsGetTheirParam

(***************************************************************************)
(* The flags, the scan and the event implement the dispatcher: every       *)
(* request is followed by a run that begins after it, and no task is       *)
(* starved by requests for the others.                                     *)
(***************************************************************************)
Dispatch == INSTANCE Dispatcher WITH
    pending <- {t \in Tasks : active[t]},
    current <- IF lpc \in {"call", "run"} THEN li ELSE None

DispatchSafely == Dispatch!Spec

Dispatches == Dispatch!FairSpec
=============================================================================
