--------------------------- MODULE ChacoAppProofs ---------------------------
(***************************************************************************)
(* Proofs about the tasks of Chaco, for every number of tasks of every     *)
(* kind, every set of parameters and every limit of the event.             *)
(*                                                                         *)
(* First the task manager alone: TaskMgrInv is inductive (one lemma per    *)
(* part of it), so no request is slept through, and the manager implements *)
(* the dispatcher, its fairness excepted.  Then Chaco at run time: as long *)
(* as every request met the task loop asleep, the lock is never left       *)
(* behind and no task meets NULL.                                          *)
(***************************************************************************)
EXTENDS ChacoApp, TLAPS

USE TaskMgrAssumption
USE DEF Tasks, None, Registered, tasks, gui, loop, history

-----------------------------------------------------------------------------
\* Every field keeps its type.
LEMMA Types ==
    ASSUME TypeOK, Scan, [Next]_vars
    PROVE  TypeOK'
  <1>1. CASE AddTask
    BY <1>1 DEF AddTask, TypeOK, Scan
  <1>2. CASE GuiRequest
    <2>1. PICK u \in Tasks, p \in Params \cup {NoParam} : RunTask(u, p)
      BY <1>2 DEF GuiRequest
    <2>2. Asleep \in BOOLEAN
      BY DEF Asleep
    <2>3. QED
      BY <2>1, <2>2 DEF RunTask, TypeOK, Scan
  <1>3. CASE RunSetParam
    BY <1>3 DEF RunSetParam, TypeOK, Scan
  <1>4. CASE RunSignal
    BY <1>4 DEF RunSignal, TypeOK, Scan
  <1>5. CASE LoopBegin
    BY <1>5 DEF LoopBegin, TypeOK, Scan
  <1>6. CASE LoopSkip
    BY <1>6 DEF LoopSkip, TypeOK, Scan
  <1>7. CASE LoopMark
    BY <1>7 DEF LoopMark, TypeOK, Scan
  <1>8. CASE LoopClear
    BY <1>8 DEF LoopClear, TypeOK, Scan
  <1>9. CASE LoopCall
    BY <1>9 DEF LoopCall, TypeOK, Scan
  <1>10. CASE LoopReturn
    BY <1>10 DEF LoopReturn, TypeOK, Scan
  <1>11. CASE LoopEnd
    BY <1>11 DEF LoopEnd, TypeOK, Scan
  <1>12. CASE LoopWake
    BY <1>12 DEF LoopWake, TypeOK, Scan
  <1>13. CASE UNCHANGED vars
    BY <1>13 DEF vars, TypeOK, Scan
  <1>14. QED
    BY <1>1, <1>2, <1>3, <1>4, <1>5, <1>6, <1>7, <1>8, <1>9, <1>10, <1>11, <1>12, <1>13
       DEF Next, GuiGoesOn, LoopStep

\* The loop stays within its scan, and clears the flag it has seen set.
LEMMA Scanning ==
    ASSUME TypeOK, Scan, [Next]_vars
    PROVE  Scan'
  <1>1. CASE AddTask
    BY <1>1 DEF AddTask, TypeOK, Scan
  <1>2. CASE GuiRequest
    BY <1>2 DEF GuiRequest, RunTask, TypeOK, Scan
  <1>3. CASE RunSetParam
    BY <1>3 DEF RunSetParam, TypeOK, Scan
  <1>4. CASE RunSignal
    BY <1>4 DEF RunSignal, TypeOK, Scan
  <1>5. CASE LoopBegin
    BY <1>5 DEF LoopBegin, TypeOK, Scan
  <1>6. CASE LoopSkip
    BY <1>6 DEF LoopSkip, TypeOK, Scan
  <1>7. CASE LoopMark
    BY <1>7 DEF LoopMark, TypeOK, Scan
  <1>8. CASE LoopClear
    BY <1>8 DEF LoopClear, TypeOK, Scan
  <1>9. CASE LoopCall
    BY <1>9 DEF LoopCall, TypeOK, Scan
  <1>10. CASE LoopReturn
    BY <1>10 DEF LoopReturn, TypeOK, Scan
  <1>11. CASE LoopEnd
    BY <1>11 DEF LoopEnd, TypeOK, Scan
  <1>12. CASE LoopWake
    BY <1>12 DEF LoopWake, TypeOK, Scan
  <1>13. CASE UNCHANGED vars
    BY <1>13 DEF vars, TypeOK, Scan
  <1>14. QED
    BY <1>1, <1>2, <1>3, <1>4, <1>5, <1>6, <1>7, <1>8, <1>9, <1>10, <1>11, <1>12, <1>13
       DEF Next, GuiGoesOn, LoopStep

\* A scan that may end in sleep passes over no unsignalled request.
LEMMA StaysAwake ==
    ASSUME TypeOK, Scan, Awake, NoLostWakeup, [Next]_vars
    PROVE  Awake'
  <1>1. CASE AddTask
    BY <1>1 DEF AddTask, TypeOK, Scan, Awake, NoLostWakeup, Requesting
  <1>2. CASE GuiRequest
    BY <1>2 DEF GuiRequest, RunTask, TypeOK, Scan, Awake, NoLostWakeup, Requesting
  <1>3. CASE RunSetParam
    BY <1>3 DEF RunSetParam, TypeOK, Scan, Awake, NoLostWakeup, Requesting
  <1>4. CASE RunSignal
    BY <1>4 DEF RunSignal, TypeOK, Scan, Awake, NoLostWakeup, Requesting
  <1>5. CASE LoopBegin
    BY <1>5 DEF LoopBegin, TypeOK, Scan, Awake, NoLostWakeup, Requesting
  <1>6. CASE LoopSkip
    BY <1>6 DEF LoopSkip, TypeOK, Scan, Awake, NoLostWakeup, Requesting
  <1>7. CASE LoopMark
    BY <1>7 DEF LoopMark, TypeOK, Scan, Awake, NoLostWakeup, Requesting
  <1>8. CASE LoopClear
    BY <1>8 DEF LoopClear, TypeOK, Scan, Awake, NoLostWakeup, Requesting
  <1>9. CASE LoopCall
    BY <1>9 DEF LoopCall, TypeOK, Scan, Awake, NoLostWakeup, Requesting
  <1>10. CASE LoopReturn
    BY <1>10 DEF LoopReturn, TypeOK, Scan, Awake, NoLostWakeup, Requesting
  <1>11. CASE LoopEnd
    BY <1>11 DEF LoopEnd, TypeOK, Scan, Awake, NoLostWakeup, Requesting
  <1>12. CASE LoopWake
    BY <1>12 DEF LoopWake, TypeOK, Scan, Awake, NoLostWakeup, Requesting
  <1>13. CASE UNCHANGED vars
    BY <1>13 DEF vars, TypeOK, Scan, Awake, NoLostWakeup, Requesting
  <1>14. QED
    BY <1>1, <1>2, <1>3, <1>4, <1>5, <1>6, <1>7, <1>8, <1>9, <1>10, <1>11, <1>12, <1>13
       DEF Next, GuiGoesOn, LoopStep

\* No request is slept through.
LEMMA Wakes ==
    ASSUME TypeOK, Scan, Awake, NoLostWakeup, [Next]_vars
    PROVE  NoLostWakeup'
  <1>1. CASE AddTask
    BY <1>1 DEF AddTask, TypeOK, Scan, Awake, NoLostWakeup, Requesting
  <1>2. CASE GuiRequest
    BY <1>2 DEF GuiRequest, RunTask, TypeOK, Scan, Awake, NoLostWakeup, Requesting
  <1>3. CASE RunSetParam
    BY <1>3 DEF RunSetParam, TypeOK, Scan, Awake, NoLostWakeup, Requesting
  <1>4. CASE RunSignal
    BY <1>4 DEF RunSignal, TypeOK, Scan, Awake, NoLostWakeup, Requesting
  <1>5. CASE LoopBegin
    BY <1>5 DEF LoopBegin, TypeOK, Scan, Awake, NoLostWakeup, Requesting
  <1>6. CASE LoopSkip
    BY <1>6 DEF LoopSkip, TypeOK, Scan, Awake, NoLostWakeup, Requesting
  <1>7. CASE LoopMark
    BY <1>7 DEF LoopMark, TypeOK, Scan, Awake, NoLostWakeup, Requesting
  <1>8. CASE LoopClear
    BY <1>8 DEF LoopClear, TypeOK, Scan, Awake, NoLostWakeup, Requesting
  <1>9. CASE LoopCall
    BY <1>9 DEF LoopCall, TypeOK, Scan, Awake, NoLostWakeup, Requesting
  <1>10. CASE LoopReturn
    BY <1>10 DEF LoopReturn, TypeOK, Scan, Awake, NoLostWakeup, Requesting
  <1>11. CASE LoopEnd
    BY <1>11 DEF LoopEnd, TypeOK, Scan, Awake, NoLostWakeup, Requesting
  <1>12. CASE LoopWake
    BY <1>12 DEF LoopWake, TypeOK, Scan, Awake, NoLostWakeup, Requesting
  <1>13. CASE UNCHANGED vars
    BY <1>13 DEF vars, TypeOK, Scan, Awake, NoLostWakeup, Requesting
  <1>14. QED
    BY <1>1, <1>2, <1>3, <1>4, <1>5, <1>6, <1>7, <1>8, <1>9, <1>10, <1>11, <1>12, <1>13
       DEF Next, GuiGoesOn, LoopStep

\* The parameter is stored before a sleeping loop is woken for it.
LEMMA Stores ==
    ASSUME TypeOK, Scan, Stored, [Next]_vars
    PROVE  Stored'
  <1>1. CASE AddTask
    BY <1>1 DEF AddTask, TypeOK, Scan, Stored, Asleep
  <1>2. CASE GuiRequest
    <2>1. PICK u \in Tasks, p \in Params \cup {NoParam} : RunTask(u, p)
      BY <1>2 DEF GuiRequest
    <2>2. gpc' # "idle" /\ calm'[gt'] => lpc' = "wait" /\ event' = 0
      <3>1. calm'[gt'] = Asleep
        BY <2>1 DEF RunTask, TypeOK
      <3>2. Asleep => lpc' = "wait" /\ event' = 0
        BY <2>1 DEF RunTask, Asleep
      <3>3. QED
        BY <3>1, <3>2
    <2>3. QED
      BY <2>1, <2>2 DEF RunTask, TypeOK, Scan, Stored
  <1>3. CASE RunSetParam
    BY <1>3 DEF RunSetParam, TypeOK, Scan, Stored, Asleep
  <1>4. CASE RunSignal
    BY <1>4 DEF RunSignal, TypeOK, Scan, Stored, Asleep
  <1>5. CASE LoopBegin
    BY <1>5 DEF LoopBegin, TypeOK, Scan, Stored, Asleep
  <1>6. CASE LoopSkip
    BY <1>6 DEF LoopSkip, TypeOK, Scan, Stored, Asleep
  <1>7. CASE LoopMark
    BY <1>7 DEF LoopMark, TypeOK, Scan, Stored, Asleep
  <1>8. CASE LoopClear
    BY <1>8 DEF LoopClear, TypeOK, Scan, Stored, Asleep
  <1>9. CASE LoopCall
    BY <1>9 DEF LoopCall, TypeOK, Scan, Stored, Asleep
  <1>10. CASE LoopReturn
    BY <1>10 DEF LoopReturn, TypeOK, Scan, Stored, Asleep
  <1>11. CASE LoopEnd
    BY <1>11 DEF LoopEnd, TypeOK, Scan, Stored, Asleep
  <1>12. CASE LoopWake
    BY <1>12 DEF LoopWake, TypeOK, Scan, Stored, Asleep
  <1>13. CASE UNCHANGED vars
    BY <1>13 DEF vars, TypeOK, Scan, Stored, Asleep
  <1>14. QED
    BY <1>1, <1>2, <1>3, <1>4, <1>5, <1>6, <1>7, <1>8, <1>9, <1>10, <1>11, <1>12, <1>13
       DEF Next, GuiGoesOn, LoopStep

\* A task asked for while the loop slept is called with its parameter.
LEMMA Calls ==
    ASSUME TypeOK, Scan, Stored, CalmCallsGetTheirParam, [Next]_vars
    PROVE  CalmCallsGetTheirParam'
  <1>1. CASE AddTask
    BY <1>1 DEF AddTask, TypeOK, Scan, Stored, Asleep, CalmCallsGetTheirParam
  <1>2. CASE GuiRequest
    BY <1>2 DEF GuiRequest, RunTask, TypeOK, Scan, Stored, Asleep, CalmCallsGetTheirParam
  <1>3. CASE RunSetParam
    BY <1>3 DEF RunSetParam, TypeOK, Scan, Stored, Asleep, CalmCallsGetTheirParam
  <1>4. CASE RunSignal
    BY <1>4 DEF RunSignal, TypeOK, Scan, Stored, Asleep, CalmCallsGetTheirParam
  <1>5. CASE LoopBegin
    BY <1>5 DEF LoopBegin, TypeOK, Scan, Stored, Asleep, CalmCallsGetTheirParam
  <1>6. CASE LoopSkip
    BY <1>6 DEF LoopSkip, TypeOK, Scan, Stored, Asleep, CalmCallsGetTheirParam
  <1>7. CASE LoopMark
    BY <1>7 DEF LoopMark, TypeOK, Scan, Stored, Asleep, CalmCallsGetTheirParam
  <1>8. CASE LoopClear
    BY <1>8 DEF LoopClear, TypeOK, Scan, Stored, Asleep, CalmCallsGetTheirParam
  <1>9. CASE LoopCall
    BY <1>9 DEF LoopCall, TypeOK, Scan, Stored, Asleep, CalmCallsGetTheirParam
  <1>10. CASE LoopReturn
    BY <1>10 DEF LoopReturn, TypeOK, Scan, Stored, Asleep, CalmCallsGetTheirParam
  <1>11. CASE LoopEnd
    BY <1>11 DEF LoopEnd, TypeOK, Scan, Stored, Asleep, CalmCallsGetTheirParam
  <1>12. CASE LoopWake
    BY <1>12 DEF LoopWake, TypeOK, Scan, Stored, Asleep, CalmCallsGetTheirParam
  <1>13. CASE UNCHANGED vars
    BY <1>13 DEF vars, TypeOK, Scan, Stored, Asleep, CalmCallsGetTheirParam
  <1>14. QED
    BY <1>1, <1>2, <1>3, <1>4, <1>5, <1>6, <1>7, <1>8, <1>9, <1>10, <1>11, <1>12, <1>13
       DEF Next, GuiGoesOn, LoopStep

-----------------------------------------------------------------------------
\* The inductive invariant holds when Chaco starts.
LEMMA InitInv == Init => TaskMgrInv
  BY DEF Init, TaskMgrInv, TypeOK, Scan, Awake, Stored, Requesting, NoLostWakeup,
         CalmCallsGetTheirParam

\* Every step of the two threads keeps the inductive invariant.
LEMMA StepInv == TaskMgrInv /\ [Next]_vars => TaskMgrInv'
  BY Types, Scanning, StaysAwake, Wakes, Stores, Calls DEF TaskMgrInv

\* The inductive invariant holds in every run of the task manager.
THEOREM Invariant == Spec => []TaskMgrInv
  BY InitInv, StepInv, PTL DEF Spec

\* No request is slept through, however runTask and taskLoop interleave.
THEOREM Wakeup == Spec => []NoLostWakeup
  <1>1. TaskMgrInv => NoLostWakeup
    BY DEF TaskMgrInv
  <1>2. QED
    BY Invariant, <1>1, PTL

\* A task asked for while the loop slept is called with the parameter of that request.
THEOREM CalmCalls == Spec => []CalmCallsGetTheirParam
  <1>1. TaskMgrInv => CalmCallsGetTheirParam
    BY DEF TaskMgrInv
  <1>2. QED
    BY Invariant, <1>1, PTL

-----------------------------------------------------------------------------
\* A step of the task manager is a step of the dispatcher, or changes nothing there.
LEMMA StepDispatches ==
    ASSUME TaskMgrInv, [Next]_vars
    PROVE  [Dispatch!Next]_(Dispatch!dvars)
  <1> USE DEF TaskMgrInv, TypeOK, Scan, Dispatch!Next, Dispatch!dvars
  <1>1. CASE GuiRequest
    <2>1. PICK u \in Tasks, p \in Params \cup {NoParam} : RunTask(u, p)
      BY <1>1 DEF GuiRequest
    <2>2. Dispatch!Request(u)
      BY <2>1 DEF RunTask, Dispatch!Request
    <2>3. QED
      BY <2>2
  <1>2. CASE LoopClear
    <2>1. PICK u \in Tasks : u = li
      BY <1>2 DEF LoopClear
    <2>2. Dispatch!Start(u)
      BY <1>2, <2>1 DEF LoopClear, Dispatch!Start
    <2>3. QED
      BY <2>2
  <1>3. CASE LoopReturn
    BY <1>3 DEF LoopReturn, Dispatch!Finish
  <1>4. CASE AddTask \/ GuiGoesOn \/ UNCHANGED vars
    BY <1>4 DEF AddTask, GuiGoesOn, RunSetParam, RunSignal, vars
  <1>5. CASE LoopBegin \/ LoopSkip \/ LoopMark \/ LoopCall \/ LoopEnd \/ LoopWake
    BY <1>5 DEF LoopBegin, LoopSkip, LoopMark, LoopCall, LoopEnd, LoopWake
  <1>6. QED
    BY <1>1, <1>2, <1>3, <1>4, <1>5 DEF Next, LoopStep

\* The task manager implements the dispatcher (that it also implements its fairness
\* is checked by TLC).
THEOREM DispatchRefinement == Spec => DispatchSafely
  <1>1. Init => Dispatch!Init
    BY DEF Init, Dispatch!Init
  <1>2. TaskMgrInv /\ [Next]_vars => [Dispatch!Next]_(Dispatch!dvars)
    BY StepDispatches
  <1>3. QED
    BY Invariant, <1>1, <1>2, PTL DEF Spec, DispatchSafely, Dispatch!Spec

-----------------------------------------------------------------------------
\* Only the handle, the answer and how the call ends are touched by a call of the library.
LEMMA WorkOfGui ==
    ASSUME AppTypeOK, GuiWork
    PROVE  /\ UNCHANGED <<vars, lock, task, ui, starting, tick, plugged, answers, rushed, dialog>>
           /\ ui # "none" /\ ust = "work" /\ ust' \in {"work", "unlock"}
           /\ uok' \in BOOLEAN /\ present' \in BOOLEAN /\ held' \in BOOLEAN
           /\ handle' \in {"none", "open", "claimed", "gone"}
           /\ dead = "no" /\ dead' \in {"no", "handle"}
  <1> USE DEF AppTypeOK, FlagsOK, AtWork, Alive
  <1>1. CASE GuiInit
    BY <1>1 DEF GuiInit, Opened
  <1>2. CASE GuiFind
    <2>1. Reached' \in BOOLEAN
      BY <1>2 DEF GuiFind, Reached
    <2>2. uok' \in BOOLEAN
      BY <1>2, <2>1 DEF GuiFind, Asks
    <2>3. QED
      BY <1>2, <2>2 DEF GuiFind, Opened
  <1>3. CASE GuiAsk
    <2>1. Reached \in BOOLEAN
      BY DEF Reached
    <2>2. uok' \in BOOLEAN
      BY <1>3, <2>1 DEF GuiAsk, Asks
    <2>3. QED
      BY <1>3, <2>2 DEF GuiAsk
  <1>4. QED
    BY <1>1, <1>2, <1>3 DEF GuiWork

\* A step of Chaco is a step of the task manager, or leaves it alone.
LEMMA ManagerSteps ==
    ASSUME AppTypeOK, AppNext
    PROVE  [Next]_vars
  <1>1. CASE TaskThread
    BY <1>1 DEF TaskThread, TaskEnter, TaskTest, TaskSet, TaskWork, TaskUnlock,
                TaskReturn, LoopOther, Next, LoopStep
  <1>2. CASE GuiSection
    BY <1>2, WorkOfGui DEF GuiSection, GuiLocked, GuiTest, GuiSet, GuiUnlock
  <1>3. CASE Tick
    BY <1>3 DEF Tick, TickBusy, TickBug, TickIdle, TickFind
  <1>4. CASE GuiOther
    BY <1>4 DEF GuiOther, Next
  <1>5. CASE User
    <2>1. ASSUME NEW t \in Tasks, NEW p \in Params, RunTask(t, p)
          PROVE  Next
      BY <2>1 DEF Next, GuiRequest
    <2>2. CASE \E p \in Params : DialogOk(p)
      <3>1. PICK p \in Params : dialog # None /\ RunTask(dialog, p)
        BY <2>2 DEF DialogOk, Request
      <3>2. dialog \in Tasks
        BY <3>1 DEF AppTypeOK
      <3>3. QED
        BY <2>1, <3>1, <3>2
    <2>3. CASE \E t \in Tasks, p \in Params : ClickStart(t, p)
      BY <2>1, <2>3 DEF ClickStart, Request
    <2>4. QED
      BY <1>5, <2>2, <2>3 DEF User, ClickFile, DialogCancel, ClickUsb
  <1>6. CASE Replug \/ Falter
    BY <1>6 DEF Replug, Falter
  <1>7. QED
    BY <1>1, <1>2, <1>3, <1>4, <1>5, <1>6 DEF AppNext

-----------------------------------------------------------------------------
\* Every flag of the GUI and of the task functions stays a Boolean.
LEMMA AppFlags ==
    ASSUME AppTypeOK, [AppNext]_appvars
    PROVE  FlagsOK'
  <1> USE DEF AppTypeOK, FlagsOK, app, task, section, tick, world, device
  <1>1. CASE TaskThread
    <2>1. CASE TaskEnter
      BY <2>1 DEF TaskEnter
    <2>2. CASE TaskWork
      <3>1. Reached \in BOOLEAN
        BY DEF Reached
      <3>2. UNCHANGED <<plugged, answers, held, lock, present, uok, starting, found, busy, buttons, rushed>>
        BY <2>2 DEF TaskWork
      <3>3. tok' \in BOOLEAN
        BY <2>2, <3>1 DEF TaskWork
      <3>4. QED
        BY <3>2, <3>3
    <2>3. CASE TaskTest \/ TaskSet \/ TaskReturn
      BY <2>3, ZenonT(60) DEF TaskTest, TaskSet, TaskReturn
    <2>4. CASE TaskUnlock
      BY <2>4 DEF TaskUnlock
    <2>5. CASE LoopOther
      BY <2>5 DEF LoopOther
    <2>6. QED
      BY <1>1, <2>1, <2>2, <2>3, <2>4, <2>5 DEF TaskThread
  <1>2. CASE GuiSection
    <2>1. CASE GuiLocked \/ GuiTest \/ GuiSet \/ GuiUnlock
      <3>1. CASE GuiLocked
        BY <3>1, ZenonT(60) DEF GuiLocked, Finish
      <3>2. CASE GuiTest \/ GuiSet
        BY <3>2, ZenonT(60) DEF GuiTest, GuiSet
      <3>3. CASE GuiUnlock
        BY <3>3, ZenonT(60) DEF GuiUnlock, Finish
      <3>4. QED
        BY <2>1, <3>1, <3>2, <3>3
    <2>2. CASE GuiWork
      BY <2>2, WorkOfGui
    <2>3. QED
      BY <1>2, <2>1, <2>2 DEF GuiSection
  <1>3. CASE Tick
    <2>1. CASE TickBusy \/ TickBug
      BY <2>1, ZenonT(60) DEF TickBusy, TickBug
    <2>2. CASE TickIdle
      BY <2>2, ZenonT(60) DEF TickIdle
    <2>3. CASE TickFind
      BY <2>3, ZenonT(60) DEF TickFind
    <2>4. QED
      BY <1>3, <2>1, <2>2, <2>3 DEF Tick
  <1>4. CASE User
    <2>1. ASSUME NEW t, NEW p, Request(t, p)
          PROVE  FlagsOK'
      BY <2>1 DEF Request
    <2>2. QED
      BY <1>4, <2>1 DEF User, ClickStart, ClickFile, DialogOk, DialogCancel, ClickUsb
  <1>5. CASE GuiOther \/ UNCHANGED appvars
    BY <1>5 DEF GuiOther, appvars
  <1>6. CASE Replug \/ Falter
    <2>1. UNCHANGED <<lock, present, task, section, tick, rushed>>
      BY <1>6 DEF Replug, Falter
    <2>2. plugged' \in BOOLEAN /\ answers' \in BOOLEAN /\ held' \in BOOLEAN
      BY <1>6, ZenonT(60) DEF Replug, Falter
    <2>3. QED
      BY <2>1, <2>2
  <1>7. QED
    BY <1>1, <1>2, <1>3, <1>4, <1>5, <1>6 DEF AppNext

\* Every other field keeps its type, too.
LEMMA AppTypes ==
    ASSUME AppTypeOK, [AppNext]_appvars
    PROVE  AppTypeOK'
  <1> USE ChacoAssumption DEF AppTypeOK, app, task, section, tick, world, device
  <1>0. FlagsOK'
    BY AppFlags
  <1>1. CASE TaskThread
    <2>1. CASE TaskEnter \/ TaskTest \/ TaskSet
      BY <1>0, <2>1 DEF TaskEnter, TaskTest, TaskSet
    <2>2. CASE TaskWork
      BY <1>0, <2>2 DEF TaskWork
    <2>3. CASE TaskUnlock
      BY <1>0, <2>3 DEF TaskUnlock
    <2>4. CASE TaskReturn
      BY <1>0, <2>4 DEF TaskReturn
    <2>5. CASE LoopOther
      BY <1>0, <2>5 DEF LoopOther
    <2>6. QED
      BY <1>1, <2>1, <2>2, <2>3, <2>4, <2>5 DEF TaskThread
  <1>2. CASE GuiSection
    <2>1. CASE GuiLocked \/ GuiTest \/ GuiSet \/ GuiUnlock
      BY <1>0, <2>1 DEF GuiLocked, GuiTest, GuiSet, GuiUnlock, Finish
    <2>2. CASE GuiWork
      BY <1>0, <2>2, WorkOfGui
    <2>3. QED
      BY <1>2, <2>1, <2>2 DEF GuiSection
  <1>3. CASE Tick
    BY <1>0, <1>3 DEF Tick, TickBusy, TickBug, TickIdle, TickFind
  <1>4. CASE User
    BY <1>0, <1>4 DEF User, ClickStart, ClickFile, DialogOk, DialogCancel, ClickUsb, Request
  <1>5. CASE GuiOther \/ Replug \/ Falter \/ UNCHANGED appvars
    BY <1>0, <1>5 DEF GuiOther, Replug, Falter, appvars
  <1>6. QED
    BY <1>1, <1>2, <1>3, <1>4, <1>5 DEF AppNext

\* A task that was asked for in time was asked for with a parameter.
LEMMA NeverNullStep ==
    ASSUME AppTypeOK, TaskMgrInv, NeverNull, [AppNext]_appvars
    PROVE  NeverNull'
  <1> USE DEF TaskMgrInv, TypeOK, NeverNull
  <1>1. CASE UNCHANGED <<active, running, calm, want, rushed>>
    BY <1>1
  <1>2. CASE User
    <2>1. ASSUME NEW t \in Tasks, NEW p \in Params, Request(t, p)
          PROVE  NeverNull'
      <3>1. SUFFICES ASSUME ~rushed', NEW u \in Tasks, active'[u] \/ running'[u]
                     PROVE  calm'[u] /\ want'[u] \in Params
        BY DEF NeverNull
      <3>2. Asleep /\ ~rushed
        BY <2>1, <3>1 DEF Request
      <3>3. CASE u = t
        <4>1. calm'[u] = Asleep
          BY <2>1, <3>3 DEF Request, RunTask
        <4>2. want'[u] = p
          BY <2>1, <3>3, TaskMgrAssumption DEF Request, RunTask
        <4>3. QED
          BY <3>2, <4>1, <4>2
      <3>4. CASE u # t
        BY <2>1, <3>1, <3>2, <3>4 DEF Request, RunTask
      <3>5. QED
        BY <3>3, <3>4
    <2>2. CASE \E p \in Params : DialogOk(p)
      <3>1. PICK p \in Params : dialog # None /\ Request(dialog, p)
        BY <2>2 DEF DialogOk
      <3>2. QED
        BY <2>1, <3>1 DEF AppTypeOK
    <2>3. CASE \E t \in Tasks, p \in Params : ClickStart(t, p)
      BY <2>1, <2>3 DEF ClickStart
    <2>4. QED
      BY <1>1, <1>2, <2>2, <2>3
         DEF User, ClickFile, DialogCancel, ClickUsb, world, vars, tasks, history
  <1>3. CASE LoopOther
    <2>1. CASE LoopMark
      BY <1>3, <2>1 DEF LoopOther, LoopMark, app, world, history
    <2>2. CASE LoopClear
      BY <1>3, <2>2 DEF LoopOther, LoopClear, app, world, history
    <2>3. QED
      BY <1>1, <1>3, <2>1, <2>2
         DEF LoopOther, LoopBegin, LoopSkip, LoopCall, LoopEnd, LoopWake,
             app, world, history, tasks
  <1>4. CASE TaskReturn
    BY <1>4 DEF TaskReturn, LoopReturn, world, history
  <1>5. CASE GuiOther
    BY <1>1, <1>5 DEF GuiOther, GuiGoesOn, RunSetParam, RunSignal, AddTask,
                      app, world, history
  <1>6. CASE TaskEnter \/ TaskTest \/ TaskSet \/ TaskWork \/ TaskUnlock
    BY <1>1, <1>6 DEF TaskEnter, TaskTest, TaskSet, TaskWork, TaskUnlock,
                      vars, world, history, tasks
  <1>7. CASE GuiSection \/ Tick
    BY <1>1, <1>7, WorkOfGui DEF GuiSection, GuiLocked, GuiTest, GuiSet, GuiUnlock,
                      Tick, TickBusy, TickBug, TickIdle, TickFind,
                      vars, world, history, tasks
  <1>8. CASE Replug \/ Falter \/ UNCHANGED appvars
    BY <1>1, <1>8 DEF Replug, Falter, appvars, app, vars, world, history, tasks
  <1>9. QED
    BY <1>2, <1>3, <1>4, <1>5, <1>6, <1>7, <1>8 DEF AppNext, TaskThread

\* A task function that was asked for in time does not meet NULL.
LEMMA HasParameter ==
    ASSUME TaskMgrInv, NeverNull, ~rushed, lpc = "run"
    PROVE  arg # NoParam
  <1>1. li \in Tasks /\ running[li]
    BY TaskMgrAssumption DEF TaskMgrInv, TypeOK, Scan, Tasks
  <1>2. calm[li] /\ want[li] \in Params
    BY <1>1 DEF NeverNull
  <1>3. QED
    BY <1>2, TaskMgrAssumption DEF TaskMgrInv, CalmCallsGetTheirParam

\* Whoever takes the lock gives it back.
LEMMA LockStep ==
    ASSUME AppTypeOK, TaskMgrInv, NeverNull, LockBelongsToSomebody, [AppNext]_appvars
    PROVE  LockBelongsToSomebody'
  <1> USE DEF LockBelongsToSomebody, TaskHolds, GuiHolds, AppTypeOK, FlagsOK, Alive
  <1>1. CASE TaskThread
    <2>1. CASE TaskEnter
      BY <1>1, <2>1, HasParameter DEF TaskEnter, vars, loop, section, tick
    <2>2. CASE TaskWork
      BY <1>1, <2>2, HasParameter DEF TaskWork, vars, loop, section, world
    <2>3. CASE TaskTest \/ TaskSet \/ TaskUnlock \/ TaskReturn
      BY <2>3 DEF TaskTest, TaskSet, TaskUnlock, TaskReturn, LoopReturn,
                  vars, loop, section, world
    <2>4. CASE LoopOther
      BY <2>4 DEF LoopOther, LoopBegin, LoopSkip, LoopMark, LoopClear, LoopCall,
                  LoopEnd, LoopWake, app, task, section, world
    <2>5. QED
      BY <1>1, <2>1, <2>2, <2>3, <2>4 DEF TaskThread
  <1>2. CASE GuiSection
    <2>1. CASE GuiLocked \/ GuiTest \/ GuiSet \/ GuiUnlock
      BY <2>1 DEF GuiLocked, GuiTest, GuiSet, GuiUnlock, Finish, vars, loop, task, world
    <2>2. CASE GuiWork
      BY <2>2, WorkOfGui DEF vars, loop, task
    <2>3. QED
      BY <1>2, <2>1, <2>2 DEF GuiSection
  <1>3. CASE Tick
    BY <1>3 DEF Tick, TickBusy, TickBug, TickIdle, TickFind, Ticking, GuiFree,
                vars, loop, task, section, world
  <1>4. CASE GuiOther
    BY <1>4 DEF GuiOther, GuiGoesOn, RunSetParam, RunSignal, AddTask,
                app, loop, task, section, world
  <1>5. CASE User
    BY <1>5 DEF User, ClickStart, ClickFile, DialogOk, DialogCancel, ClickUsb,
                Clickable, GuiFree, Request, RunTask, vars, loop, task, section, world
  <1>6. CASE Replug \/ Falter \/ UNCHANGED appvars
    BY <1>6 DEF Replug, Falter, appvars, app, vars, loop, task, section, world
  <1>7. QED
    BY <1>1, <1>2, <1>3, <1>4, <1>5, <1>6 DEF AppNext

-----------------------------------------------------------------------------
\* The inductive invariant holds in every run of Chaco.
THEOREM AppInvariant == AppSpec => []AppInv
  <1>1. AppInit => AppInv
    <2>1. AppInit => AppTypeOK
      <3>1. AppInit => FlagsOK
        BY DEF AppInit, FlagsOK
      <3>2. QED
        BY <3>1, ChacoAssumption DEF AppInit, AppTypeOK
    <2>2. AppInit => NeverNull
      BY DEF AppInit, Init, NeverNull
    <2>3. AppInit => LockBelongsToSomebody
      BY DEF AppInit, LockBelongsToSomebody
    <2>4. QED
      BY <2>1, <2>2, <2>3, InitInv DEF AppInit, AppInv
  <1>2. AppInv /\ [AppNext]_appvars => AppInv'
    <2>1. SUFFICES ASSUME AppInv, [AppNext]_appvars
                   PROVE  AppInv'
      OBVIOUS
    <2>2. [Next]_vars
      BY <2>1, ManagerSteps DEF AppInv, appvars
    <2>3. TaskMgrInv'
      BY <2>1, <2>2, StepInv DEF AppInv
    <2>4. QED
      BY <2>1, <2>3, AppTypes, NeverNullStep, LockStep DEF AppInv, TaskMgrInv
  <1>3. QED
    BY <1>1, <1>2, PTL DEF AppSpec

\* As long as every request met the task loop asleep, a taken lock belongs to a
\* thread that will give it back, and no task function follows NULL.
THEOREM LockNotLeftBehind == AppSpec => []LockBelongsToSomebody
  <1>1. AppInv => LockBelongsToSomebody
    BY DEF AppInv
  <1>2. QED
    BY AppInvariant, <1>1, PTL
=============================================================================
