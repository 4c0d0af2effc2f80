--------------------------- MODULE MCMaintenance ---------------------------
(* Two tasks of the pool construct side by side; two symbols.              *)
EXTENDS Maintenance

MCTasks == {"t1", "t2"}
MCThreads == MCTasks \cup {"boot", "tool", "cli"}
MCSymbols == {"s1", "s2"}
=============================================================================
