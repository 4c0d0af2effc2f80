----------------------------- MODULE Activities -----------------------------
(***************************************************************************)
(* The desktop client's ActivityManager: an operation runs in a thread of  *)
(* its own while the control that started it is held (its button disabled, *)
(* its id among those being placed).  The worker's signals call the        *)
(* manager's slots in the worker's thread, one after the other: the result *)
(* is reported, the tab's on_finished gives the control back, and only     *)
(* then are the operation's callbacks dropped, whoever they belong to.     *)
(***************************************************************************)
EXTENDS Naturals

CONSTANTS Op,      \* the operation ids
          Thread   \* bound: the threads that can be at work at once

VARIABLES run,        \* the status of the operation's latest run
          held,       \* the operator cannot start it
          callbacks,  \* an on_finished is registered
          thread      \* the threads

activityVars == <<run, held, callbacks, thread>>

Free == [op |-> "none", at |-> "free"]

ActivityTypeOK ==
  /\ run \in [Op -> {"none", "running", "success", "error"}]
  /\ held \in [Op -> BOOLEAN]
  /\ callbacks \in [Op -> BOOLEAN]
  /\ thread \in [Thread -> {Free} \cup
        [op : Op, at : {"working", "waiting", "reported", "called"}]]

ActivityInit ==
  /\ run = [o \in Op |-> "none"]
  /\ held = [o \in Op |-> FALSE]
  /\ callbacks = [o \in Op |-> FALSE]
  /\ thread = [t \in Thread |-> Free]

Becomes(t, at) == thread' = [thread EXCEPT ![t].at = at]

\* The operator starts an operation; one that still runs is only shown again.
Click(o, t) ==
  /\ ~held[o] /\ thread[t] = Free
  /\ held' = [held EXCEPT ![o] = TRUE]
  /\ IF run[o] = "running" THEN UNCHANGED <<run, callbacks, thread>>
     ELSE /\ run' = [run EXCEPT ![o] = "running"]
          /\ callbacks' = [callbacks EXCEPT ![o] = TRUE]
          /\ thread' = [thread EXCEPT ![t] = [op |-> o, at |-> "working"]]

\* Mutant: the tab gives the control back in on_success.
ReportsAndReleases(t) ==
  /\ thread[t].at \in {"working", "waiting"}
  /\ \E status \in {"success", "error"} : run' = [run EXCEPT ![thread[t].op] = status]
  /\ held' = [held EXCEPT ![thread[t].op] = FALSE]
  /\ Becomes(t, "reported")
  /\ UNCHANGED callbacks

\* The task returns or raises: _on_success or _on_error.
Reports(t) ==
  /\ thread[t].at \in {"working", "waiting"}
  /\ \E status \in {"success", "error"} : run' = [run EXCEPT ![thread[t].op] = status]
  /\ Becomes(t, "reported")
  /\ UNCHANGED <<held, callbacks>>

\* _on_finished calls the registered on_finished, if there is one.
CallsFinished(t) ==
  /\ thread[t].at = "reported"
  /\ held' = [held EXCEPT ![thread[t].op] = @ /\ ~callbacks[thread[t].op]]
  /\ Becomes(t, "called")
  /\ UNCHANGED <<run, callbacks>>

\* It then drops the callbacks registered under the operation's id.
DropsCallbacks(t) ==
  /\ thread[t].at = "called"
  /\ callbacks' = [callbacks EXCEPT ![thread[t].op] = FALSE]
  /\ thread' = [thread EXCEPT ![t] = Free]
  /\ UNCHANGED <<run, held>>

\* The operator cannot start an operation while a task of it is at work.
HeldAtWork == \A t \in Thread : thread[t].at \in {"working", "waiting"} => held[thread[t].op]
=============================================================================
