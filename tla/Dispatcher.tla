----------------------------- MODULE Dispatcher -----------------------------
(***************************************************************************)
(* What TaskMgr promises to its callers: a task that was asked for is run  *)
(* some time later, one task at a time.  Asking again before the task has  *)
(* been started asks for nothing more; asking while it runs asks for one   *)
(* more run.  Module TaskMgr implements this with flags and an event.      *)
(***************************************************************************)
CONSTANTS Tasks,   \* the names of tasks
          None     \* no task

VARIABLES pending,   \* the tasks asked for and not started yet
          current    \* the task being run, or None

dvars == <<pending, current>>

Init == pending = {} /\ current = None

Request(t) ==
    /\ pending' = pending \cup {t}
    /\ UNCHANGED current

Start(t) ==
    /\ current = None
    /\ t \in pending
    /\ pending' = pending \ {t}
    /\ current' = t

Finish ==
    /\ current # None
    /\ current' = None
    /\ UNCHANGED pending

Next ==
    \/ \E t \in Tasks : Request(t) \/ Start(t)
    \/ Finish

Spec == Init /\ [][Next]_dvars

\* No task is kept waiting for ever by the others.
Fairness ==
    /\ \A t \in Tasks : SF_dvars(Start(t))
    /\ WF_dvars(Finish)

FairSpec == Spec /\ Fairness
=============================================================================
