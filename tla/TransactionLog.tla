--------------------------- MODULE TransactionLog ----------------------------
(***************************************************************************)
(* The copy of the exchange's transaction log.                             *)
(*                                                                         *)
(* sync_bybit_transaction_log asks for what happened since a mark in the   *)
(* configuration, less an overlap, at most a lookback ago; in windows, and *)
(* in pages within a window; stores what it got, by id; and moves the mark *)
(* to the time it began.  The scheduler starts it every hour, and the HTTP *)
(* server when it is asked to, for a currency, a type or other dates too.  *)
(* Several may be under way at once.                                       *)
(***************************************************************************)
EXTENDS Integers

CONSTANTS
  Entry,     \* entries of the exchange's log
  Sync,      \* threads that may run the synchronisation
  Scheduler, \* the one of the scheduler; the others serve HTTP requests
  Chunk,     \* _CHUNK_MS
  Overlap,   \* _OVERLAP_MS
  Lookback,  \* BYBIT_TRANSACTION_LOG_SYNC_LOOKBACK_DAYS
  Day,       \* a day
  Delay,     \* how long the exchange may take to show an entry
  Dates,     \* dates a caller may ask for
  NoDate,    \* the date a caller leaves out
  Filters,   \* entries a currency and a type may select
  Faults,    \* what can go wrong: "page_error", "exception", "mark_error",
             \* "crash"; and "manual": filters and dates over HTTP
  MaxFaults, \* bound on the number of faults
  MaxTime    \* bound on the time

ASSUME ConstantsAssumption ==
  /\ {Chunk, Overlap, Lookback, Day, MaxTime} \subseteq Nat \ {0}
  /\ Scheduler \in Sync
  /\ Delay \in 0..Overlap
  /\ Dates \subseteq Nat /\ NoDate \notin Int
  /\ Filters \subseteq SUBSET Entry
  /\ MaxFaults \in Nat
  /\ Faults \subseteq {"page_error", "exception", "mark_error", "crash", "manual"}

VARIABLES
  now,
  at,        \* transactionTime of an entry, 0 before it happens
  shown,     \* entries the exchange answers with
  stored,    \* bybit_uta_transaction_log
  last,      \* LAST_BYBIT_TRANSACTION_LOG_SYNC_AT, 0 for none
  pc,
  syncedAt,  \* synced_at of each synchronisation
  range,     \* what it is to fetch
  cursor,    \* where its next window begins
  left,      \* what is still to come of its window
  got,       \* all_raw
  erred,     \* one of its pages was answered with an error
  missed,    \* history: entries nothing will ask for again
  faults     \* how many faults there have been

syncVars == <<pc, syncedAt, range, cursor, left, got, erred>>
vars == <<now, at, shown, stored, last, syncVars, missed, faults>>

-----------------------------------------------------------------------------
Pc == {"idle", "window", "page", "mark"}

Later(a, b) == IF a > b THEN a ELSE b
Earlier(a, b) == IF a < b THEN a ELSE b

Happened(e) == at[e] > 0

\* A fault is used up.
Fault(f) ==
  /\ f \in Faults
  /\ faults < MaxFaults
  /\ faults' = faults + 1

\* Mutant: the range begins where the last one ended.
SinceNoOverlap ==
  IF last > 0 THEN Later(last, now - Lookback) ELSE now - Lookback

\* Where the range begins unless the caller says so (_resolve_sync_range).
Since ==
  IF last > 0 THEN Later(last - Overlap, now - Lookback) ELSE now - Lookback

\* The range, from two dates that may be absent; the second is included.
Range(from, to) ==
  LET end == IF to = NoDate THEN now ELSE to + Day - 1
      start == IF from = NoDate THEN Since ELSE from
  IN  [start |-> IF start >= end THEN end - Day ELSE start, end |-> end]

\* The end of a window (iter_time_chunks).
WindowEnd(s) == Earlier(cursor[s] + Chunk, range[s].end)

NoRange == [start |-> 0, end |-> 0, only |-> {}, all |-> FALSE]

\* A synchronisation without filter, dates or error.
Whole(s) == range[s].all /\ ~erred[s]

\* What the call of s kept is gone with it.
Ends(s) ==
  /\ pc' = [pc EXCEPT ![s] = "idle"]
  /\ syncedAt' = [syncedAt EXCEPT ![s] = 0]
  /\ range' = [range EXCEPT ![s] = NoRange]
  /\ cursor' = [cursor EXCEPT ![s] = 0]
  /\ left' = [left EXCEPT ![s] = {}]
  /\ got' = [got EXCEPT ![s] = {}]
  /\ erred' = [erred EXCEPT ![s] = FALSE]

-----------------------------------------------------------------------------
Init ==
  /\ now = 1
  /\ at = [e \in Entry |-> 0]
  /\ shown = {} /\ stored = {} /\ missed = {}
  /\ last = 0
  /\ pc = [s \in Sync |-> "idle"]
  /\ syncedAt = [s \in Sync |-> 0]
  /\ range = [s \in Sync |-> NoRange]
  /\ cursor = [s \in Sync |-> 0]
  /\ left = [s \in Sync |-> {}]
  /\ got = [s \in Sync |-> {}]
  /\ erred = [s \in Sync |-> FALSE]
  /\ faults = 0

-----------------------------------------------------------------------------
(* The exchange, and time.                                                  *)

EntryHappens(e) ==
  /\ ~Happened(e)
  /\ now < MaxTime
  /\ at' = [at EXCEPT ![e] = now]
  /\ UNCHANGED <<now, shown, stored, last, syncVars, missed, faults>>

EntryShows(e) ==
  /\ Happened(e) /\ e \notin shown
  /\ shown' = shown \cup {e}
  /\ UNCHANGED <<now, at, stored, last, syncVars, missed, faults>>

Tick ==
  /\ now < MaxTime
  /\ \A e \in Entry \ shown : Happened(e) => now < at[e] + Delay
  /\ now' = now + 1
  /\ UNCHANGED <<at, shown, stored, last, syncVars, missed, faults>>

-----------------------------------------------------------------------------
(* The synchronisation.                                                     *)

\* s notes the time and what it is to fetch.  What is older than the lookback
\* and not here yet, it misses.
SyncBegins(s) ==
  /\ pc[s] = "idle"
  /\ syncedAt' = [syncedAt EXCEPT ![s] = now]
  /\ \/ /\ range' = [range EXCEPT ![s] =
             [start |-> Range(NoDate, NoDate).start, end |-> now,
              only |-> Entry, all |-> TRUE]]
        /\ missed' = missed \cup
             {e \in Entry \ stored : Happened(e) /\ at[e] < now - Lookback}
        /\ UNCHANGED faults
     \/ /\ s # Scheduler
        /\ Fault("manual")
        /\ \E only \in Filters, from, to \in Dates \cup {NoDate} :
             range' = [range EXCEPT ![s] =
               [start |-> Range(from, to).start, end |-> Range(from, to).end,
                only |-> only, all |-> FALSE]]
        /\ UNCHANGED missed
  /\ pc' = [pc EXCEPT ![s] = "window"]
  /\ cursor' = [cursor EXCEPT ![s] = range'[s].start]
  /\ UNCHANGED <<now, at, shown, stored, last, left, got, erred>>

\* Mutant: only the first page of a window.
NoMore(rest) == FALSE

\* There is another page as long as the answer has a cursor.
More(rest) == rest # {}

\* A page brings some of what is due and leaves the rest.
Deliver(s, due) ==
  \E page \in SUBSET due :
    /\ page = {} => due = {}
    /\ got' = [got EXCEPT ![s] = @ \cup page]
    /\ left' = [left EXCEPT ![s] = IF More(due \ page) THEN due \ page ELSE {}]
    /\ pc' = [pc EXCEPT ![s] = IF More(due \ page) THEN "page" ELSE "window"]
    /\ UNCHANGED <<erred, faults>>

\* The client answers an error with an empty page, which ends the window.
PageError(s) ==
  /\ Fault("page_error")
  /\ erred' = [erred EXCEPT ![s] = TRUE]
  /\ left' = [left EXCEPT ![s] = {}]
  /\ pc' = [pc EXCEPT ![s] = "window"]
  /\ UNCHANGED got

FirstPage(s) ==
  /\ pc[s] = "window" /\ cursor[s] < range[s].end
  /\ \/ Deliver(s, {e \in shown \cap range[s].only :
                      at[e] \in cursor[s]..WindowEnd(s)})
     \/ PageError(s)
  /\ cursor' = [cursor EXCEPT ![s] = WindowEnd(s) + 1]
  /\ UNCHANGED <<now, at, shown, stored, last, syncedAt, range, missed>>

NextPage(s) ==
  /\ pc[s] = "page"
  /\ Deliver(s, left[s]) \/ PageError(s)
  /\ UNCHANGED <<now, at, shown, stored, last, syncedAt, range, cursor, missed>>

\* The rows go into the table in one transaction; if there were none, the
\* mark stays.
Store(s) ==
  /\ pc[s] = "window" /\ cursor[s] >= range[s].end
  /\ stored' = stored \cup got[s]
  /\ IF got[s] = {} THEN Ends(s)
     ELSE /\ pc' = [pc EXCEPT ![s] = "mark"]
          /\ UNCHANGED <<syncedAt, range, cursor, left, got, erred>>
  /\ UNCHANGED <<now, at, shown, last, missed, faults>>

\* Mutant: the mark is the time the synchronisation ended.
MarkOfEnd(s) == now

\* Mutant: the mark is where its range began.
MarkOfStart(s) == range[s].start

MarkOf(s) == syncedAt[s]

\* After a synchronisation that was not whole, what it left out is missed.
SetMark(s) ==
  /\ pc[s] = "mark"
  /\ \/ /\ last' = MarkOf(s)
        /\ missed' = IF Whole(s) THEN missed
                     ELSE missed \cup {e \in Entry \ stored :
                                         Happened(e) /\ at[e] + Overlap < MarkOf(s)}
        /\ UNCHANGED faults
     \/ Fault("mark_error") /\ UNCHANGED <<last, missed>>
  /\ Ends(s)
  /\ UNCHANGED <<now, at, shown, stored>>

\* A timeout of the worker, or the database, ends it with an exception.
Raise(s) ==
  /\ pc[s] \in {"window", "page"}
  /\ Fault("exception")
  /\ Ends(s)
  /\ UNCHANGED <<now, at, shown, stored, last, missed>>

Crash ==
  /\ Fault("crash")
  /\ pc' = [s \in Sync |-> "idle"]
  /\ syncedAt' = [s \in Sync |-> 0]
  /\ range' = [s \in Sync |-> NoRange]
  /\ cursor' = [s \in Sync |-> 0]
  /\ left' = [s \in Sync |-> {}]
  /\ got' = [s \in Sync |-> {}]
  /\ erred' = [s \in Sync |-> FALSE]
  /\ UNCHANGED <<now, at, shown, stored, last, missed>>

-----------------------------------------------------------------------------
SyncStep(s) ==
  \/ SyncBegins(s) \/ FirstPage(s) \/ NextPage(s)
  \/ Store(s) \/ SetMark(s)

Next ==
  \/ \E e \in Entry : EntryHappens(e) \/ EntryShows(e)
  \/ \E s \in Sync : SyncStep(s) \/ Raise(s)
  \/ Tick
  \/ Crash

Spec == Init /\ [][Next]_vars

\* The scheduler starts the synchronisation again and again, and every request
\* in it has a timeout; time passes.  MaxFaults bounds the faults.
FairSpec ==
  /\ Spec
  /\ WF_vars(Tick)
  /\ \A e \in Entry : WF_vars(EntryShows(e))
  /\ WF_vars(SyncStep(Scheduler))

-----------------------------------------------------------------------------
(* Properties.                                                              *)

\* Every variable stays in its type.
RangeType ==
  [start : Int, end : Int, only : SUBSET Entry, all : BOOLEAN]

TypeOK ==
  /\ now \in Nat \ {0} /\ at \in [Entry -> Nat]
  /\ shown \subseteq Entry /\ stored \subseteq Entry /\ missed \subseteq Entry
  /\ last \in Nat
  /\ pc \in [Sync -> Pc]
  /\ syncedAt \in [Sync -> Nat]
  /\ range \in [Sync -> RangeType]
  /\ cursor \in [Sync -> Int]
  /\ left \in [Sync -> SUBSET Entry] /\ got \in [Sync -> SUBSET Entry]
  /\ erred \in [Sync -> BOOLEAN]
  /\ faults \in Nat

\* What lies behind the mark, by the overlap at least, is in the table, however
\* many synchronisations run at once and wherever they fail; except what was
\* older than the lookback, or left out by one that was filtered or met an error.
NothingMissed ==
  \A e \in Entry :
    Happened(e) /\ at[e] + Overlap < last => e \in stored \cup missed

\* Windows and pages leave no gap: a synchronisation that met no error stores all
\* that it was asked for; its last instant may be left to the next one.
SyncIsComplete ==
  [][\A s \in Sync : Store(s) /\ ~erred[s] =>
       \A e \in range[s].only :
         Happened(e) /\ at[e] + Delay < syncedAt[s]
           /\ range[s].start =< at[e] /\ at[e] < range[s].end => e \in stored']_vars

\* Every entry arrives, unless it is one of those that are missed.
EveryEntryArrives ==
  \A e \in Entry : Happened(e) ~> e \in stored \cup missed
=============================================================================
