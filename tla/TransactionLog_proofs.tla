------------------------ MODULE TransactionLog_proofs ------------------------
(***************************************************************************)
(* What is proved of TransactionLog for any number of entries and          *)
(* synchronisations, all times and all faults.                             *)
(***************************************************************************)
EXTENDS TransactionLog, TLAPS

\* The exchange shows an entry in time.
ShownInTime ==
  \A e \in Entry : Happened(e) /\ e \notin shown => now =< at[e] + Delay

\* Nothing is dated in the future.
NotInFuture ==
  /\ last =< now
  /\ \A s \in Sync : syncedAt[s] =< now

\* Only between two pages of a window is something still to come.
LeftInPage == \A s \in Sync : pc[s] # "page" => left[s] = {}

\* An undisturbed synchronisation is about everything until its own time.
WholeRange ==
  \A s \in Sync : range[s].all =>
    range[s].only = Entry /\ range[s].end = syncedAt[s]

\* What it has passed, it has, or the table has it, or it is missed.
PassedIsHere ==
  \A s \in Sync : pc[s] # "idle" /\ Whole(s) =>
    \A e \in Entry :
      Happened(e) /\ at[e] + Overlap < syncedAt[s]
        /\ (at[e] < cursor[s] \/ pc[s] = "mark")
      => \/ e \in stored \cup missed
         \/ e \in got[s] \cup left[s] /\ pc[s] # "mark"

\* What a synchronisation has passed of its own range, it has.
PassedIsGot ==
  \A s \in Sync : pc[s] \in {"window", "page"} /\ ~erred[s] =>
    \A e \in range[s].only :
      Happened(e) /\ at[e] + Delay < syncedAt[s]
        /\ range[s].start =< at[e] /\ at[e] < cursor[s]
      => e \in got[s] \cup left[s]

LInv ==
  /\ TypeOK /\ ShownInTime /\ NotInFuture /\ LeftInPage /\ WholeRange
  /\ PassedIsHere /\ PassedIsGot /\ NothingMissed

-----------------------------------------------------------------------------
LEMMA InitLInv == Init => LInv
<1> SUFFICES ASSUME Init PROVE LInv
  OBVIOUS
<1>1. TypeOK
  BY DEF Init, TypeOK, Pc, RangeType, NoRange
<1>2. ShownInTime /\ NotInFuture /\ LeftInPage /\ NothingMissed
  BY DEF Init, ShownInTime, NotInFuture, LeftInPage, NothingMissed, Happened
<1>3. WholeRange /\ PassedIsHere /\ PassedIsGot
  BY DEF Init, WholeRange, PassedIsHere, PassedIsGot, NoRange
<1> QED
  BY <1>1, <1>2, <1>3 DEF LInv

-----------------------------------------------------------------------------
\* The range of a synchronisation is one of integers.
LEMMA RangeIsInt ==
  ASSUME TypeOK, NEW from \in Int \cup {NoDate}, NEW to \in Int \cup {NoDate}
  PROVE  Range(from, to).start \in Int /\ Range(from, to).end \in Int
BY ConstantsAssumption DEF ConstantsAssumption, Range, Since, Later, TypeOK

\* Without dates it begins at Since: the clock is not behind the mark.
LEMMA DefaultRange ==
  ASSUME TypeOK, NotInFuture
  PROVE  Range(NoDate, NoDate).start = Since /\ Since \in Int
BY ConstantsAssumption
DEF ConstantsAssumption, Range, Since, Later, TypeOK, NotInFuture

\* The end of a window lies in the range and is not before its beginning.
LEMMA WindowEndIsInt ==
  ASSUME TypeOK, NEW s \in Sync
  PROVE  WindowEnd(s) \in Int
BY ConstantsAssumption DEF ConstantsAssumption, WindowEnd, Earlier, TypeOK, RangeType

\* A page, or an error instead of it, keeps the types.
PageType ==
  /\ got' \in [Sync -> SUBSET Entry] /\ left' \in [Sync -> SUBSET Entry]
  /\ pc' \in [Sync -> Pc] /\ erred' \in [Sync -> BOOLEAN] /\ faults' \in Nat

LEMMA PageKeepsType ==
  ASSUME TypeOK, NEW s \in Sync, NEW due \in SUBSET Entry,
         Deliver(s, due) \/ PageError(s)
  PROVE  PageType
<1>1. CASE Deliver(s, due)
  <2>1. PICK page \in SUBSET due :
          /\ got' = [got EXCEPT ![s] = @ \cup page]
          /\ left' = [left EXCEPT ![s] = IF More(due \ page) THEN due \ page ELSE {}]
          /\ pc' = [pc EXCEPT ![s] = IF More(due \ page) THEN "page" ELSE "window"]
          /\ UNCHANGED <<erred, faults>>
    BY <1>1 DEF Deliver
  <2>2. page \subseteq Entry /\ due \ page \subseteq Entry
    OBVIOUS
  <2>3. got' \in [Sync -> SUBSET Entry] /\ left' \in [Sync -> SUBSET Entry]
    BY <2>1, <2>2 DEF TypeOK
  <2>4. pc' \in [Sync -> Pc] /\ erred' \in [Sync -> BOOLEAN] /\ faults' \in Nat
    BY <2>1 DEF TypeOK, Pc
  <2> QED
    BY <2>3, <2>4 DEF PageType
<1>2. CASE PageError(s)
  BY <1>2 DEF PageError, Fault, PageType, TypeOK, Pc
<1> QED
  BY <1>1, <1>2

\* A page adds to what has come what is due, now or in the pages that follow.
LEMMA PageBringsDue ==
  ASSUME TypeOK, NEW s \in Sync, NEW due \in SUBSET Entry, Deliver(s, due)
  PROVE  /\ got'[s] \cup left'[s] = got[s] \cup due
         /\ pc'[s] \in {"window", "page"} /\ erred' = erred
         /\ pc'[s] # "page" => left'[s] = {}
         /\ \A t \in Sync \ {s} :
              got'[t] = got[t] /\ left'[t] = left[t] /\ pc'[t] = pc[t]
<1>1. PICK page \in SUBSET due :
        /\ got' = [got EXCEPT ![s] = @ \cup page]
        /\ left' = [left EXCEPT ![s] = IF More(due \ page) THEN due \ page ELSE {}]
        /\ pc' = [pc EXCEPT ![s] = IF More(due \ page) THEN "page" ELSE "window"]
        /\ UNCHANGED <<erred, faults>>
  BY DEF Deliver
<1>2. got'[s] = got[s] \cup page /\ left'[s] = due \ page
  BY <1>1 DEF TypeOK, More
<1>3. got'[s] \cup left'[s] = got[s] \cup due
  BY <1>2
<1>4. pc'[s] \in {"window", "page"} /\ (pc'[s] # "page" => left'[s] = {})
  BY <1>1 DEF TypeOK
<1> QED
  BY <1>1, <1>3, <1>4 DEF TypeOK

\* After an error the synchronisation is not whole, and the others go on.
LEMMA ErrorIsNoted ==
  ASSUME TypeOK, NEW s \in Sync, PageError(s)
  PROVE  /\ erred'[s] /\ pc'[s] = "window" /\ left'[s] = {} /\ got' = got
         /\ \A t \in Sync \ {s} :
              erred'[t] = erred[t] /\ left'[t] = left[t] /\ pc'[t] = pc[t]
BY DEF PageError, TypeOK

\* A synchronisation that ends is idle, and the others go on.
LEMMA EndsIsIdle ==
  ASSUME TypeOK, NEW s \in Sync, Ends(s)
  PROVE  /\ pc'[s] = "idle" /\ left'[s] = {} /\ syncedAt'[s] = 0
         /\ ~range'[s].all
         /\ \A t \in Sync \ {s} :
              /\ pc'[t] = pc[t] /\ left'[t] = left[t] /\ got'[t] = got[t]
              /\ syncedAt'[t] = syncedAt[t] /\ range'[t] = range[t]
              /\ cursor'[t] = cursor[t] /\ erred'[t] = erred[t]
BY DEF Ends, TypeOK, NoRange

-----------------------------------------------------------------------------
\* Type correctness is preserved.
LEMMA TypeStep == TypeOK /\ NotInFuture /\ [Next]_vars => TypeOK'
<1> SUFFICES ASSUME TypeOK, NotInFuture, [Next]_vars PROVE TypeOK'
  OBVIOUS
<1> USE DEF TypeOK
<1>1. CASE UNCHANGED vars
  BY <1>1 DEF vars, syncVars
<1>2. ASSUME NEW e \in Entry, EntryHappens(e) PROVE TypeOK'
  BY <1>2 DEF EntryHappens, syncVars
<1>3. ASSUME NEW e \in Entry, EntryShows(e) PROVE TypeOK'
  BY <1>3 DEF EntryShows, syncVars
<1>4. CASE Tick
  BY <1>4 DEF Tick, syncVars
<1>5. ASSUME NEW s \in Sync, SyncBegins(s) PROVE TypeOK'
  <2>1. range' \in [Sync -> RangeType]
    <3>1. CASE range' = [range EXCEPT ![s] =
                 [start |-> Range(NoDate, NoDate).start, end |-> now,
                  only |-> Entry, all |-> TRUE]]
      <4>1. Range(NoDate, NoDate).start \in Int
        BY DefaultRange
      <4> QED
        BY <3>1, <4>1 DEF RangeType
    <3>2. ASSUME NEW only \in Filters,
                 NEW from \in Dates \cup {NoDate}, NEW to \in Dates \cup {NoDate},
                 range' = [range EXCEPT ![s] =
                   [start |-> Range(from, to).start, end |-> Range(from, to).end,
                    only |-> only, all |-> FALSE]]
          PROVE  range' \in [Sync -> RangeType]
      <4>1. from \in Int \cup {NoDate} /\ to \in Int \cup {NoDate}
        <5>1. Dates \subseteq Nat
          BY ConstantsAssumption DEF ConstantsAssumption
        <5>2. \A d \in Dates : d \in Int
          BY <5>1
        <5> QED
          BY <5>2
      <4>2. only \in SUBSET Entry
        BY ConstantsAssumption DEF ConstantsAssumption
      <4> QED
        BY <3>2, <4>1, <4>2, RangeIsInt DEF RangeType
    <3> QED
      BY <1>5, <3>1, <3>2 DEF SyncBegins
  <2>2. missed' \subseteq Entry /\ faults' \in Nat
    BY <1>5 DEF SyncBegins, Fault
  <2>3. cursor' \in [Sync -> Int]
    BY <1>5, <2>1 DEF SyncBegins, RangeType
  <2> QED
    BY <1>5, <2>1, <2>2, <2>3 DEF SyncBegins, Pc
<1>6. ASSUME NEW s \in Sync, FirstPage(s) PROVE TypeOK'
  <2>1. PageType
    BY <1>6, PageKeepsType DEF FirstPage
  <2>2. cursor' \in [Sync -> Int]
    BY <1>6, WindowEndIsInt DEF FirstPage
  <2> QED
    BY <1>6, <2>1, <2>2 DEF FirstPage, PageType
<1>7. ASSUME NEW s \in Sync, NextPage(s) PROVE TypeOK'
  <2>1. PageType
    BY <1>7, PageKeepsType DEF NextPage
  <2> QED
    BY <1>7, <2>1 DEF NextPage, PageType
<1>8. ASSUME NEW s \in Sync, Store(s) PROVE TypeOK'
  <2>1. stored' \subseteq Entry
    BY <1>8 DEF Store
  <2>2. CASE Ends(s)
    BY <1>8, <2>1, <2>2 DEF Store, Ends, Pc, RangeType, NoRange
  <2>3. CASE pc' = [pc EXCEPT ![s] = "mark"]
             /\ UNCHANGED <<syncedAt, range, cursor, left, got, erred>>
    BY <1>8, <2>1, <2>3 DEF Store, Pc
  <2> QED
    BY <1>8, <2>2, <2>3 DEF Store
<1>9. ASSUME NEW s \in Sync, SetMark(s) PROVE TypeOK'
  BY <1>9 DEF SetMark, MarkOf, Fault, Ends, Pc, RangeType, NoRange
<1>10. ASSUME NEW s \in Sync, Raise(s) PROVE TypeOK'
  BY <1>10 DEF Raise, Fault, Ends, Pc, RangeType, NoRange
<1>11. CASE Crash
  BY <1>11 DEF Crash, Fault, Pc, RangeType, NoRange
<1> QED
  BY <1>1, <1>2, <1>3, <1>4, <1>5, <1>6, <1>7, <1>8, <1>9, <1>10, <1>11
  DEF Next, SyncStep

-----------------------------------------------------------------------------
\* What the exchange shows, it shows in time.
LEMMA ShownStep == TypeOK /\ ShownInTime /\ [Next]_vars => ShownInTime'
<1> SUFFICES ASSUME TypeOK, ShownInTime, [Next]_vars PROVE ShownInTime'
  OBVIOUS
<1> USE ConstantsAssumption DEF ConstantsAssumption, ShownInTime, Happened, TypeOK
<1>1. ASSUME NEW e \in Entry, EntryHappens(e) PROVE ShownInTime'
  BY <1>1 DEF EntryHappens
<1>2. ASSUME NEW e \in Entry, EntryShows(e) PROVE ShownInTime'
  BY <1>2 DEF EntryShows
<1>3. CASE Tick
  BY <1>3 DEF Tick
<1>4. CASE UNCHANGED <<now, at, shown>>
  BY <1>4
<1>5. ASSUME NEW s \in Sync, SyncStep(s) \/ Raise(s)
      PROVE  UNCHANGED <<now, at, shown>>
  BY <1>5 DEF SyncStep, SyncBegins, FirstPage, NextPage, Store, SetMark, Raise
<1>6. CASE Crash
  BY <1>6, <1>4 DEF Crash
<1> QED
  BY <1>1, <1>2, <1>3, <1>4, <1>5, <1>6 DEF Next, vars

\* No time that was noted lies in the future.
LEMMA NotInFutureStep == TypeOK /\ NotInFuture /\ [Next]_vars => NotInFuture'
<1> SUFFICES ASSUME TypeOK, NotInFuture, [Next]_vars PROVE NotInFuture'
  OBVIOUS
<1> USE DEF NotInFuture, TypeOK
<1>1. CASE UNCHANGED <<last, syncedAt>> /\ (now' = now \/ now' = now + 1)
  BY <1>1
<1>2. ASSUME NEW s \in Sync, SyncBegins(s) PROVE NotInFuture'
  BY <1>2 DEF SyncBegins
<1>3. ASSUME NEW s \in Sync, FirstPage(s) \/ NextPage(s) PROVE NotInFuture'
  BY <1>3 DEF FirstPage, NextPage
<1>4. ASSUME NEW s \in Sync, Store(s) PROVE NotInFuture'
  BY <1>4 DEF Store, Ends
<1>5. ASSUME NEW s \in Sync, SetMark(s) PROVE NotInFuture'
  BY <1>5 DEF SetMark, Ends, MarkOf
<1>6. ASSUME NEW s \in Sync, Raise(s) PROVE NotInFuture'
  BY <1>6 DEF Raise, Ends
<1>7. CASE Crash
  BY <1>7 DEF Crash
<1>8. ASSUME NEW e \in Entry, EntryHappens(e) \/ EntryShows(e) PROVE NotInFuture'
  BY <1>8, <1>1 DEF EntryHappens, EntryShows, syncVars
<1> QED
  BY <1>1, <1>2, <1>3, <1>4, <1>5, <1>6, <1>7, <1>8
  DEF Next, SyncStep, Tick, vars, syncVars

\* Something is to come only between two pages.
LEMMA LeftStep == TypeOK /\ LeftInPage /\ [Next]_vars => LeftInPage'
<1> SUFFICES ASSUME TypeOK, LeftInPage, [Next]_vars PROVE LeftInPage'
  OBVIOUS
<1>1. CASE UNCHANGED <<pc, left>>
  BY <1>1 DEF LeftInPage
<1>2. ASSUME NEW s \in Sync, SyncBegins(s) PROVE LeftInPage'
  BY <1>2 DEF SyncBegins, LeftInPage, TypeOK
<1>3. ASSUME NEW s \in Sync, NEW due \in SUBSET Entry, Deliver(s, due)
      PROVE  LeftInPage'
  BY <1>3, PageBringsDue DEF LeftInPage
<1>4. ASSUME NEW s \in Sync, PageError(s) PROVE LeftInPage'
  BY <1>4, ErrorIsNoted DEF LeftInPage
<1>5. ASSUME NEW s \in Sync, Ends(s) PROVE LeftInPage'
  BY <1>5, EndsIsIdle DEF LeftInPage
<1>6. ASSUME NEW s \in Sync, FirstPage(s) PROVE LeftInPage'
  BY <1>6, <1>3, <1>4 DEF FirstPage, TypeOK
<1>7. ASSUME NEW s \in Sync, NextPage(s) PROVE LeftInPage'
  BY <1>7, <1>3, <1>4 DEF NextPage, TypeOK
<1>8. ASSUME NEW s \in Sync, Store(s) PROVE LeftInPage'
  <2>1. CASE pc' = [pc EXCEPT ![s] = "mark"] /\ left' = left
    BY <1>8, <2>1 DEF Store, LeftInPage, TypeOK
  <2> QED
    BY <1>8, <1>5, <2>1 DEF Store
<1>9. ASSUME NEW s \in Sync, SetMark(s) \/ Raise(s) PROVE LeftInPage'
  BY <1>9, <1>5 DEF SetMark, Raise
<1>10. CASE Crash
  BY <1>10 DEF Crash, LeftInPage
<1>11. ASSUME NEW e \in Entry, EntryHappens(e) \/ EntryShows(e) PROVE LeftInPage'
  BY <1>11, <1>1 DEF EntryHappens, EntryShows, syncVars
<1> QED
  BY <1>1, <1>2, <1>6, <1>7, <1>8, <1>9, <1>10, <1>11
  DEF Next, SyncStep, Tick, vars, syncVars

\* The range of an undisturbed synchronisation stays what it is.
LEMMA WholeRangeStep == TypeOK /\ WholeRange /\ [Next]_vars => WholeRange'
<1> SUFFICES ASSUME TypeOK, WholeRange, [Next]_vars PROVE WholeRange'
  OBVIOUS
<1>1. CASE UNCHANGED <<range, syncedAt>>
  BY <1>1 DEF WholeRange
<1>2. ASSUME NEW s \in Sync, SyncBegins(s) PROVE WholeRange'
  BY <1>2 DEF SyncBegins, WholeRange, TypeOK
<1>3. ASSUME NEW s \in Sync, Ends(s) PROVE WholeRange'
  BY <1>3, EndsIsIdle DEF WholeRange
<1>4. ASSUME NEW s \in Sync, FirstPage(s) \/ NextPage(s) PROVE WholeRange'
  BY <1>4, <1>1 DEF FirstPage, NextPage
<1>5. ASSUME NEW s \in Sync, Store(s) \/ SetMark(s) \/ Raise(s) PROVE WholeRange'
  BY <1>5, <1>1, <1>3 DEF Store, SetMark, Raise
<1>6. CASE Crash
  BY <1>6 DEF Crash, WholeRange, NoRange
<1>7. ASSUME NEW e \in Entry, EntryHappens(e) \/ EntryShows(e) PROVE WholeRange'
  BY <1>7, <1>1 DEF EntryHappens, EntryShows, syncVars
<1> QED
  BY <1>1, <1>2, <1>4, <1>5, <1>6, <1>7
  DEF Next, SyncStep, Tick, vars, syncVars

-----------------------------------------------------------------------------
\* What happened long enough before the synchronisation began is shown.
LEMMA OldIsShown ==
  ASSUME TypeOK, ShownInTime, NotInFuture, NEW s \in Sync, NEW e \in Entry,
         Happened(e), at[e] + Delay < syncedAt[s]
  PROVE  e \in shown
BY ConstantsAssumption
DEF ConstantsAssumption, TypeOK, ShownInTime, NotInFuture, Happened

\* A window brings all of it that lies in the window.
LEMMA WindowIsDue ==
  ASSUME TypeOK, ShownInTime, NotInFuture, LeftInPage,
         NEW s \in Sync, FirstPage(s), ~erred'[s],
         NEW e \in range[s].only, e \in Entry, Happened(e),
         at[e] + Delay < syncedAt[s], at[e] < cursor'[s],
         at[e] < cursor[s] => e \in got[s] \cup left[s]
  PROVE  e \in got'[s] \cup left'[s]
<1> DEFINE due == {x \in shown \cap range[s].only :
                     at[x] \in cursor[s]..WindowEnd(s)}
<1>1. ~PageError(s)
  BY ErrorIsNoted
<1>2. Deliver(s, due)
  BY <1>1 DEF FirstPage
<1>3. due \in SUBSET Entry
  BY DEF TypeOK
<1>4. got'[s] \cup left'[s] = got[s] \cup due
  BY <1>2, <1>3, PageBringsDue
<1>5. CASE at[e] < cursor[s]
  <2>1. left[s] = {}
    BY DEF FirstPage, LeftInPage
  <2> QED
    BY <1>4, <1>5, <2>1
<1>6. CASE ~(at[e] < cursor[s])
  <2>1. e \in shown
    BY OldIsShown
  <2>2. WindowEnd(s) \in Int /\ cursor[s] \in Int /\ at[e] \in Int
    BY WindowEndIsInt DEF TypeOK
  <2>3. cursor'[s] = WindowEnd(s) + 1
    BY DEF FirstPage, TypeOK
  <2>4. at[e] \in cursor[s]..WindowEnd(s)
    BY <1>6, <2>2, <2>3
  <2> QED
    BY <1>4, <2>1, <2>4
<1> QED
  BY <1>5, <1>6

\* A further page brings what the first left.
LEMMA PageIsDue ==
  ASSUME TypeOK, NEW s \in Sync, NextPage(s), ~erred'[s]
  PROVE  got[s] \cup left[s] \subseteq got'[s] \cup left'[s]
<1>1. Deliver(s, left[s])
  BY ErrorIsNoted DEF NextPage
<1> QED
  BY <1>1, PageBringsDue DEF TypeOK

\* A page of s leaves the other synchronisations as they are, and an error
\* remains.
LEMMA PageIsLocal ==
  ASSUME TypeOK, NEW s \in Sync, FirstPage(s) \/ NextPage(s)
  PROVE  /\ pc'[s] \in {"window", "page"} /\ pc[s] \in {"window", "page"}
         /\ erred[s] => erred'[s]
         /\ UNCHANGED <<now, at, stored, last, syncedAt, range, missed>>
         /\ \A t \in Sync \ {s} :
              /\ pc'[t] = pc[t] /\ left'[t] = left[t] /\ got'[t] = got[t]
              /\ cursor'[t] = cursor[t] /\ erred'[t] = erred[t]
<1>1. ASSUME NEW due \in SUBSET Entry, Deliver(s, due) \/ PageError(s)
      PROVE  /\ pc'[s] \in {"window", "page"} /\ (erred[s] => erred'[s])
             /\ \A t \in Sync \ {s} :
                  /\ pc'[t] = pc[t] /\ left'[t] = left[t] /\ got'[t] = got[t]
                  /\ erred'[t] = erred[t]
  BY <1>1, PageBringsDue, ErrorIsNoted
<1>2. ASSUME FirstPage(s) \/ NextPage(s)
      PROVE  \E due \in SUBSET Entry : Deliver(s, due) \/ PageError(s)
  <2>1. CASE FirstPage(s)
    <3>1. {e \in shown \cap range[s].only : at[e] \in cursor[s]..WindowEnd(s)}
            \in SUBSET Entry
      BY DEF TypeOK
    <3> QED
      BY <2>1, <3>1 DEF FirstPage
  <2>2. CASE NextPage(s)
    <3>1. left[s] \in SUBSET Entry
      BY DEF TypeOK
    <3> QED
      BY <2>2, <3>1 DEF NextPage
  <2> QED
    BY <1>2, <2>1, <2>2
<1>3. /\ pc'[s] \in {"window", "page"} /\ (erred[s] => erred'[s])
      /\ \A t \in Sync \ {s} :
           /\ pc'[t] = pc[t] /\ left'[t] = left[t] /\ got'[t] = got[t]
           /\ erred'[t] = erred[t]
  BY <1>1, <1>2
<1>4. /\ pc[s] \in {"window", "page"}
      /\ UNCHANGED <<now, at, stored, last, syncedAt, range, missed>>
  BY DEF FirstPage, NextPage
<1>5. \A t \in Sync \ {s} : cursor'[t] = cursor[t]
  BY DEF FirstPage, NextPage, TypeOK
<1> QED
  BY <1>3, <1>4, <1>5

-----------------------------------------------------------------------------
\* What lies behind the clock, the entry that happens now does not.
LEMMA NewIsNotOld ==
  ASSUME TypeOK, NotInFuture, NEW e \in Entry, EntryHappens(e)
  PROVE  /\ \A s \in Sync : ~(at'[e] + Overlap < syncedAt[s])
         /\ \A s \in Sync : ~(at'[e] + Delay < syncedAt[s])
         /\ ~(at'[e] + Overlap < last)
         /\ \A x \in Entry \ {e} : at'[x] = at[x]
BY ConstantsAssumption
DEF ConstantsAssumption, TypeOK, NotInFuture, EntryHappens

\* An undisturbed synchronisation begins with nothing behind it but what is here
\* or missed.
LEMMA BeginsWithNothingBehind ==
  ASSUME TypeOK, NotInFuture, NothingMissed, NEW s \in Sync, SyncBegins(s),
         range'[s].all, NEW e \in Entry, Happened(e), at[e] < cursor'[s]
  PROVE  e \in stored \cup missed'
<1>1. /\ range' = [range EXCEPT ![s] =
             [start |-> Range(NoDate, NoDate).start, end |-> now,
              only |-> Entry, all |-> TRUE]]
      /\ missed' = missed \cup
             {x \in Entry \ stored : Happened(x) /\ at[x] < now - Lookback}
  BY DEF SyncBegins, TypeOK
<1>2. cursor'[s] = Since /\ Since \in Int
  BY <1>1, DefaultRange DEF SyncBegins, TypeOK
<1>3. at[e] < now - Lookback \/ (last > 0 /\ at[e] + Overlap < last)
  BY <1>2, ConstantsAssumption DEF ConstantsAssumption, Since, Later, TypeOK
<1> QED
  BY <1>1, <1>3 DEF NothingMissed

LEMMA PassedIsHereStep ==
  LInv /\ [Next]_vars => PassedIsHere'
<1> SUFFICES ASSUME LInv, [Next]_vars PROVE PassedIsHere'
  OBVIOUS
<1> USE DEF LInv
\* What is true of a synchronisation that does not move.
<1> DEFINE Keeps(t) ==
      /\ pc'[t] = pc[t] /\ syncedAt'[t] = syncedAt[t] /\ range'[t] = range[t]
      /\ cursor'[t] = cursor[t] /\ left'[t] = left[t] /\ got'[t] = got[t]
      /\ erred'[t] = erred[t]
    Here(t) ==
      pc[t] # "idle" /\ Whole(t) =>
        \A e \in Entry :
          Happened(e) /\ at[e] + Overlap < syncedAt[t]
            /\ (at[e] < cursor[t] \/ pc[t] = "mark")
          => \/ e \in stored \cup missed
             \/ e \in got[t] \cup left[t] /\ pc[t] # "mark"
<1>1. \A t \in Sync : Here(t)
  BY DEF PassedIsHere
<1>2. ASSUME NEW t \in Sync, Keeps(t), at' = at,
             stored \cup missed \subseteq stored' \cup missed'
      PROVE  Here(t)'
  BY <1>1, <1>2 DEF Whole, Happened
<1>3. ASSUME NEW t \in Sync, pc'[t] = "idle" PROVE Here(t)'
  BY <1>3
<1> HIDE DEF Keeps, Here
<1>4. SUFFICES ASSUME NEW t \in Sync PROVE Here(t)'
  BY DEF PassedIsHere, Here
<1>5. ASSUME NEW e \in Entry, EntryHappens(e) PROVE Here(t)'
  <2>1. UNCHANGED <<stored, missed, syncVars>>
    BY <1>5 DEF EntryHappens
  <2>2. ASSUME NEW x \in Entry, Happened(x)', at'[x] + Overlap < syncedAt[t]
        PROVE  Happened(x) /\ at'[x] = at[x]
    BY <1>5, <2>2, NewIsNotOld DEF Happened
  <2> QED
    BY <1>1, <2>1, <2>2 DEF Here, Whole, syncVars
<1>6. ASSUME NEW s \in Sync, SyncBegins(s) PROVE Here(t)'
  <2>1. stored' = stored /\ missed \subseteq missed' /\ at' = at
    BY <1>6 DEF SyncBegins
  <2>2. CASE t # s
    BY <1>6, <1>2, <2>1, <2>2 DEF SyncBegins, Keeps, TypeOK
  <2>3. CASE t = s
    BY <1>6, <2>1, <2>3, BeginsWithNothingBehind
    DEF Here, Whole, Happened, SyncBegins, TypeOK
  <2> QED
    BY <2>2, <2>3
<1>7. ASSUME NEW s \in Sync, FirstPage(s) \/ NextPage(s) PROVE Here(t)'
  <2>1. CASE t # s
    BY <1>7, <1>2, <2>1, PageIsLocal DEF Keeps
  <2>2. ASSUME t = s, Whole(s)', NEW e \in Entry, Happened(e),
               at[e] + Overlap < syncedAt[s], at[e] < cursor'[s]
        PROVE  e \in stored \cup missed \cup got'[s] \cup left'[s]
    <3>1. Whole(s) /\ ~erred'[s] /\ range[s].only = Entry
      BY <1>7, <2>2, PageIsLocal DEF Whole, WholeRange
    <3>2. at[e] < cursor[s] => e \in stored \cup missed \cup got[s] \cup left[s]
      BY <1>1, <1>7, <2>2, <3>1, PageIsLocal DEF Here
    <3>3. at[e] + Delay < syncedAt[s]
      BY <2>2, ConstantsAssumption DEF ConstantsAssumption, TypeOK
    <3>4. CASE FirstPage(s)
      BY <2>2, <3>1, <3>2, <3>3, <3>4, WindowIsDue
    <3>5. CASE NextPage(s)
      <4>1. cursor'[s] = cursor[s]
        BY <3>5 DEF NextPage
      <4> QED
        BY <2>2, <3>1, <3>2, <3>5, <4>1, PageIsDue
    <3> QED
      BY <1>7, <3>4, <3>5
  <2>3. CASE t = s
    BY <1>7, <2>2, <2>3, PageIsLocal DEF Here, Whole, Happened
  <2> QED
    BY <2>1, <2>3
<1>8. ASSUME NEW s \in Sync, Store(s) PROVE Here(t)'
  <2>1. at' = at /\ missed' = missed /\ stored' = stored \cup got[s]
    BY <1>8 DEF Store
  <2>2. CASE Ends(s)
    BY <1>2, <1>3, <2>1, <2>2, EndsIsIdle DEF Keeps
  <2>3. CASE /\ pc' = [pc EXCEPT ![s] = "mark"]
             /\ UNCHANGED <<syncedAt, range, cursor, left, got, erred>>
    <3>1. CASE t # s
      BY <1>2, <2>1, <2>3, <3>1 DEF Keeps, TypeOK
    <3>2. ASSUME Whole(s), NEW e \in Entry, Happened(e),
                 at[e] + Overlap < syncedAt[s]
          PROVE  e \in stored' \cup missed'
      <4>1. range[s].end = syncedAt[s] /\ left[s] = {}
        BY <1>8, <3>2 DEF Store, Whole, WholeRange, LeftInPage
      <4>2. cursor[s] >= syncedAt[s]
        BY <1>8, <4>1 DEF Store
      <4>3. at[e] < cursor[s]
        BY <3>2, <4>2, ConstantsAssumption DEF ConstantsAssumption, TypeOK
      <4>4. pc[s] = "window"
        BY <1>8 DEF Store
      <4> QED
        BY <1>1, <2>1, <3>2, <4>1, <4>3, <4>4 DEF Here
    <3>3. CASE t = s
      BY <2>1, <2>3, <3>2, <3>3 DEF Here, Whole, Happened
    <3> QED
      BY <3>1, <3>3
  <2> QED
    BY <1>8, <2>2, <2>3 DEF Store
<1>9. ASSUME NEW s \in Sync, SetMark(s) \/ Raise(s) PROVE Here(t)'
  <2>1. Ends(s) /\ at' = at /\ stored' = stored /\ missed \subseteq missed'
    BY <1>9 DEF SetMark, Raise
  <2> QED
    BY <1>2, <1>3, <2>1, EndsIsIdle DEF Keeps
<1>10. CASE Crash
  BY <1>3, <1>10 DEF Crash
<1>11. CASE UNCHANGED <<at, stored, missed, syncVars>>
  BY <1>2, <1>11 DEF Keeps, syncVars
<1>12. ASSUME NEW e \in Entry, EntryShows(e) PROVE Here(t)'
  BY <1>11, <1>12 DEF EntryShows
<1> QED
  BY <1>5, <1>6, <1>7, <1>8, <1>9, <1>10, <1>11, <1>12
  DEF Next, SyncStep, Tick, vars

-----------------------------------------------------------------------------
\* The mark moves only to the beginning of a synchronisation that has all
\* that lies behind it, or leaves the rest out.
LEMMA NothingMissedStep == LInv /\ [Next]_vars => NothingMissed'
<1> SUFFICES ASSUME LInv, [Next]_vars PROVE NothingMissed'
  OBVIOUS
<1> USE DEF LInv
<1>1. CASE /\ at' = at /\ last' = last
           /\ stored \cup missed \subseteq stored' \cup missed'
  BY <1>1 DEF NothingMissed, Happened
<1>2. ASSUME NEW e \in Entry, EntryHappens(e) PROVE NothingMissed'
  <2>1. UNCHANGED <<stored, missed, last>>
    BY <1>2 DEF EntryHappens
  <2> QED
    BY <1>2, <2>1, NewIsNotOld DEF NothingMissed, Happened
<1>3. ASSUME NEW s \in Sync, SetMark(s) PROVE NothingMissed'
  <2>1. at' = at /\ stored' = stored /\ pc[s] = "mark" /\ missed \subseteq missed'
    BY <1>3 DEF SetMark
  <2>2. CASE last' = last
    BY <1>1, <2>1, <2>2
  <2>3. CASE last' = syncedAt[s] /\ Whole(s)
    BY <2>1, <2>3 DEF PassedIsHere, NothingMissed, Happened
  <2>4. CASE /\ last' = syncedAt[s]
             /\ missed' = missed \cup {e \in Entry \ stored :
                              Happened(e) /\ at[e] + Overlap < syncedAt[s]}
    BY <2>1, <2>4 DEF NothingMissed, Happened
  <2> QED
    BY <1>3, <2>2, <2>3, <2>4 DEF SetMark, MarkOf
<1>4. ASSUME NEW e \in Entry, EntryShows(e) PROVE NothingMissed'
  BY <1>1, <1>4 DEF EntryShows
<1>5. ASSUME NEW s \in Sync,
             SyncBegins(s) \/ FirstPage(s) \/ NextPage(s) \/ Store(s) \/ Raise(s)
      PROVE  NothingMissed'
  BY <1>1, <1>5 DEF SyncBegins, FirstPage, NextPage, Store, Raise
<1>6. CASE Crash
  BY <1>1, <1>6 DEF Crash
<1>7. CASE Tick \/ UNCHANGED vars
  BY <1>1, <1>7 DEF Tick, vars
<1> QED
  BY <1>2, <1>3, <1>4, <1>5, <1>6, <1>7 DEF Next, SyncStep

-----------------------------------------------------------------------------
LEMMA PassedIsGotStep == LInv /\ [Next]_vars => PassedIsGot'
<1> SUFFICES ASSUME LInv, [Next]_vars PROVE PassedIsGot'
  OBVIOUS
<1> USE DEF LInv
<1> DEFINE Keeps(t) ==
      /\ pc'[t] = pc[t] /\ syncedAt'[t] = syncedAt[t] /\ range'[t] = range[t]
      /\ cursor'[t] = cursor[t] /\ left'[t] = left[t] /\ got'[t] = got[t]
      /\ erred'[t] = erred[t]
    Has(t) ==
      pc[t] \in {"window", "page"} /\ ~erred[t] =>
        \A e \in range[t].only :
          Happened(e) /\ at[e] + Delay < syncedAt[t]
            /\ range[t].start =< at[e] /\ at[e] < cursor[t]
          => e \in got[t] \cup left[t]
<1>1. \A t \in Sync : Has(t)
  BY DEF PassedIsGot
<1>2. ASSUME NEW t \in Sync, Keeps(t), at' = at PROVE Has(t)'
  BY <1>1, <1>2 DEF Happened
<1>3. ASSUME NEW t \in Sync, pc'[t] \in {"idle", "mark"} PROVE Has(t)'
  BY <1>3
<1> HIDE DEF Keeps, Has
<1>4. SUFFICES ASSUME NEW t \in Sync PROVE Has(t)'
  BY DEF PassedIsGot, Has
<1>5. ASSUME NEW e \in Entry, EntryHappens(e) PROVE Has(t)'
  <2>1. UNCHANGED syncVars
    BY <1>5 DEF EntryHappens
  <2>2. range[t].only \subseteq Entry
    BY DEF TypeOK, RangeType
  <2>3. ASSUME NEW x \in Entry, Happened(x)', at'[x] + Delay < syncedAt[t]
        PROVE  Happened(x) /\ at'[x] = at[x]
    BY <1>5, <2>3, NewIsNotOld DEF Happened
  <2> QED
    BY <1>1, <2>1, <2>2, <2>3 DEF Has, syncVars
<1>6. ASSUME NEW s \in Sync, SyncBegins(s) PROVE Has(t)'
  <2>1. CASE t # s
    BY <1>2, <1>6, <2>1 DEF SyncBegins, Keeps, TypeOK
  <2>2. CASE t = s
    <3>1. range' \in [Sync -> RangeType] /\ at' = at
      BY <1>6, TypeStep DEF SyncBegins, TypeOK
    <3>2. cursor'[s] = range'[s].start /\ range'[s].start \in Int
      BY <1>6, <3>1 DEF SyncBegins, TypeOK, RangeType
    <3>3. range'[s].only \subseteq Entry
      BY <3>1 DEF RangeType
    <3> QED
      BY <2>2, <3>1, <3>2, <3>3 DEF Has, TypeOK
  <2> QED
    BY <2>1, <2>2
<1>7. ASSUME NEW s \in Sync, FirstPage(s) \/ NextPage(s) PROVE Has(t)'
  <2>1. CASE t # s
    BY <1>2, <1>7, <2>1, PageIsLocal DEF Keeps
  <2>2. ASSUME t = s, ~erred'[s], NEW e \in range[s].only, Happened(e),
               at[e] + Delay < syncedAt[s], range[s].start =< at[e],
               at[e] < cursor'[s]
        PROVE  e \in got'[s] \cup left'[s]
    <3>1. at[e] < cursor[s] => e \in got[s] \cup left[s]
      BY <1>1, <1>7, <2>2, PageIsLocal DEF Has
    <3>2. e \in Entry
      BY DEF TypeOK, RangeType
    <3>3. CASE FirstPage(s)
      BY <2>2, <3>1, <3>2, <3>3, WindowIsDue
    <3>4. CASE NextPage(s)
      <4>1. cursor'[s] = cursor[s]
        BY <3>4 DEF NextPage
      <4> QED
        BY <2>2, <3>1, <3>4, <4>1, PageIsDue
    <3> QED
      BY <1>7, <3>3, <3>4
  <2>3. CASE t = s
    BY <1>7, <2>2, <2>3, PageIsLocal DEF Has, Happened
  <2> QED
    BY <2>1, <2>3
<1>8. ASSUME NEW s \in Sync, Store(s) PROVE Has(t)'
  <2>1. at' = at
    BY <1>8 DEF Store
  <2>2. CASE Ends(s)
    BY <1>2, <1>3, <2>1, <2>2, EndsIsIdle DEF Keeps
  <2>3. CASE /\ pc' = [pc EXCEPT ![s] = "mark"]
             /\ UNCHANGED <<syncedAt, range, cursor, left, got, erred>>
    BY <1>2, <1>3, <2>1, <2>3 DEF Keeps, TypeOK
  <2> QED
    BY <1>8, <2>2, <2>3 DEF Store
<1>9. ASSUME NEW s \in Sync, SetMark(s) \/ Raise(s) PROVE Has(t)'
  <2>1. Ends(s) /\ at' = at
    BY <1>9 DEF SetMark, Raise
  <2> QED
    BY <1>2, <1>3, <2>1, EndsIsIdle DEF Keeps
<1>10. CASE Crash
  BY <1>3, <1>10 DEF Crash
<1>11. CASE UNCHANGED <<at, syncVars>>
  BY <1>2, <1>11 DEF Keeps, syncVars
<1>12. ASSUME NEW e \in Entry, EntryShows(e) PROVE Has(t)'
  BY <1>11, <1>12 DEF EntryShows
<1> QED
  BY <1>5, <1>6, <1>7, <1>8, <1>9, <1>10, <1>11, <1>12
  DEF Next, SyncStep, Tick, vars

-----------------------------------------------------------------------------
\* The invariant is inductive.
LEMMA LInvStep == LInv /\ [Next]_vars => LInv'
BY TypeStep, ShownStep, NotInFutureStep, LeftStep, WholeRangeStep,
   PassedIsHereStep, PassedIsGotStep, NothingMissedStep
DEF LInv

LEMMA InvariantHolds == Spec => []LInv
BY InitLInv, LInvStep, PTL DEF Spec

\* Every variable stays in its type, whatever the entries, the threads that
\* synchronise, the times and the faults.
THEOREM TypeCorrect == Spec => []TypeOK
BY InvariantHolds, PTL DEF LInv

\* What lies behind the mark is in the table, unless it is missed: for any number
\* of synchronisations at once, any windows and pages, any lookback, and an
\* exchange that shows an entry within the overlap.
THEOREM NothingIsMissed == Spec => []NothingMissed
BY InvariantHolds, PTL DEF LInv

\* Any synchronisation without an error stores all of its range that the exchange
\* had shown when it began, however the range splits into windows and pages.
THEOREM EverySyncIsComplete == Spec => SyncIsComplete
<1> DEFINE Complete(s) ==
      Store(s) /\ ~erred[s] =>
        \A e \in range[s].only :
          Happened(e) /\ at[e] + Delay < syncedAt[s]
            /\ range[s].start =< at[e] /\ at[e] < range[s].end => e \in stored'
<1>1. ASSUME LInv, NEW s \in Sync PROVE Complete(s)
  <2> SUFFICES ASSUME Store(s), ~erred[s], NEW e \in range[s].only, Happened(e),
                      at[e] + Delay < syncedAt[s], range[s].start =< at[e],
                      at[e] < range[s].end
               PROVE  e \in stored'
    OBVIOUS
  <2>1. pc[s] = "window" /\ range[s].end =< cursor[s] /\ stored' = stored \cup got[s]
    BY <1>1 DEF Store
  <2>2. at[e] \in Int /\ cursor[s] \in Int /\ range[s].end \in Int
    BY <1>1 DEF LInv, TypeOK, RangeType
  <2>3. at[e] < cursor[s]
    BY <2>1, <2>2
  <2>4. e \in got[s] \cup left[s] /\ left[s] = {}
    BY <1>1, <2>1, <2>3 DEF LInv, PassedIsGot, LeftInPage
  <2> QED
    BY <2>1, <2>4
<1>2. LInv /\ [Next]_vars => [\A s \in Sync : Complete(s)]_vars
  BY <1>1
<1> QED
  BY <1>2, InvariantHolds, PTL DEF Spec, SyncIsComplete
=============================================================================
