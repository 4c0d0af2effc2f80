----------------------------- MODULE MCConsole -----------------------------
(* An instance of Console for TLC. *)
EXTENDS Console, TLC

CONSTANTS t1, t2, refresher, operator

Casts == {{"settings", "jobs", "orders"}, {"settings", "jobs", "sync"},
          {"tickers", "orders"}, {"client", "orders"}, {"client", "sync"}}
=============================================================================
