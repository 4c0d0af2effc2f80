----------------------------- MODULE RobotRunner -----------------------------
(***************************************************************************)
(* The robot of the server (server/robot.py): runs started over the API in *)
(* threads of their own, one at a time as far as the status tells, beside  *)
(* the tasks of PriceHistory.  Its price update goes through the same      *)
(* table; what its other modes do is ForecastPipeline's and Evaluation's,  *)
(* here only that they end, well or with an exception.                     *)
(***************************************************************************)
EXTENDS PriceHistory

VARIABLES
    status,    \* RobotRunner._status
    robot      \* thread -> where its run is: at work on the prices or on another mode

robotVars == <<status, robot>>

Modes == {"price_data", "other"}

RobotInit ==
    /\ HistoryInit
    /\ status = "idle"
    /\ robot = [r \in Robots |-> "none"]

Goes(r, at) == robot' = [robot EXCEPT ![r] = at]

\* An endpoint of /run: refused with 409 while the status says "running",
\* which is for the new thread to set.
StartRobot(r) ==
    /\ "robot" \in cast /\ up
    /\ status # "running"
    /\ robot[r] = "none"
    /\ Goes(r, "started")
    /\ view' = NoView
    /\ UNCHANGED <<cast, now, up, due, active, table, held, stage, behind, failures, status>>

\* _run sets the status first, then branches on the mode.
RobotBegins(r) ==
    /\ robot[r] = "started"
    /\ status' = "running"
    /\ \E mode \in Modes : Goes(r, mode)
    /\ view' = NoView
    /\ UNCHANGED <<cast, now, up, due, active, table, held, stage, behind, failures>>

\* The price update of an active ticker; without bars it is left out.
RobotReads(r) ==
    /\ robot[r] = "price_data" /\ stage[r] = "idle"
    /\ IF active THEN Read(r, Short) ELSE UNCHANGED <<held, stage, failures>>
    /\ Goes(r, IF stage'[r] = "read" THEN "price_data" ELSE "ending")
    /\ view' = NoView
    /\ UNCHANGED <<cast, now, up, due, active, table, behind, status>>

RobotStores(r) ==
    /\ robot[r] = "price_data"
    /\ Store(r)
    /\ Goes(r, "ending")
    /\ UNCHANGED status

\* Another mode has done its work, or anything of any mode has raised.
RobotWorks(r) ==
    /\ robot[r] \in Modes /\ stage[r] = "idle"
    /\ \/ robot[r] = "other" /\ Goes(r, "ending") /\ UNCHANGED failures
       \/ failures < MaxFailures /\ failures' = failures + 1 /\ Goes(r, "failed")
    /\ view' = NoView
    /\ UNCHANGED <<cast, now, up, due, active, table, held, stage, behind, status>>

\* Mutant: a run that raised leaves the status as it was.
RobotEndsWell(r) ==
    /\ robot[r] \in {"ending", "failed"}
    /\ status' = IF robot[r] = "ending" THEN "done" ELSE status
    /\ Goes(r, "none")
    /\ view' = NoView
    /\ UNCHANGED <<cast, now, up, due, active, table, held, stage, behind, failures>>

\* Whatever happened the status says so, be another thread at work or not.
RobotEnds(r) ==
    /\ robot[r] \in {"ending", "failed"}
    /\ status' = IF robot[r] = "ending" THEN "done" ELSE "error"
    /\ Goes(r, "none")
    /\ view' = NoView
    /\ UNCHANGED <<cast, now, up, due, active, table, held, stage, behind, failures>>

RobotStep(r) ==
    RobotBegins(r) \/ RobotReads(r) \/ RobotStores(r) \/ RobotWorks(r) \/ RobotEnds(r)

\* The threads are daemons: the process does not wait for them.
ProcessEnds ==
    /\ StopServer
    /\ status' = "idle"
    /\ robot' = [r \in Robots |-> "none"]

RobotNext ==
    \/ (TaskStep \/ StartServer) /\ UNCHANGED robotVars
    \/ ProcessEnds
    \/ \E r \in Robots : StartRobot(r) \/ RobotStep(r)

\* The tasks as in PriceHistory, and the threads of the robot go on.
RobotSpec ==
    /\ RobotInit /\ [][RobotNext]_<<historyVars, robotVars>>
    /\ HistoryFairness
    /\ \A r \in Robots : WF_<<historyVars, robotVars>>(RobotStep(r))

-----------------------------------------------------------------------------

\* A status that refuses further runs is always that of a thread at work,
\* although two requests may both have found it free (robot.py:176-182).
RunningIsWorking ==
    /\ status \in {"idle", "running", "done", "error"}
    /\ status = "running" => \E r \in Robots : robot[r] \notin {"none", "started"}

\* The table, the forecasts made from it and the robot's status are sound.
PricesAreSound == HistoryIsSound /\ RunningIsWorking

\* However runs overlap, the robot is free for the next one again and again,
\* and the table catches up.
RobotEndsAndTableCatchesUp ==
    /\ TableCatchesUp
    /\ []<>(status # "running")
=============================================================================
