--------------------------- MODULE ProviderAccuracy ---------------------------
(***************************************************************************)
(* How the outcomes of judged forecasts become weights of the vote: the    *)
(* table providers, the passes of core/model_performance_tracker.py that   *)
(* follow every evaluation of the consensus rows, the statistics of        *)
(* core/unified_logs_manager.py, and the operator who adds, changes and    *)
(* removes providers (server/routers/endpoints.py) while a pass runs.      *)
(*                                                                         *)
(* The accuracy of a provider is in millionths (the code rounds to six     *)
(* decimals).  A pass reads a row, computes and writes it in two           *)
(* transactions; so does the operator's change.                            *)
(***************************************************************************)
EXTENDS Evaluation
Vote == INSTANCE ConsensusVote

CONSTANTS
    Providers,    \* names in the table, the models of the logs
    ModelOf(_),   \* the provider that made a forecast
    MethodOf(_),  \* its method
    Trackers,     \* threads that run update_all_from_evaluations
    Alpha,        \* MODEL_WEIGHT_EMA_ALPHA, hundredths
    MaxCount,     \* bound: outcomes counted for a provider
    MaxEdits      \* bound: changes the operator makes

\* The weight of an outcome is a part of one, and every log has its provider.
ASSUME RatingAssumption ==
    /\ Alpha \in 0..100 /\ MaxCount \in Nat
    /\ IsFiniteSet(Logs) /\ \A l \in Logs : ModelOf(l) \in Providers

VARIABLES
    providers,    \* provider -> [active, ema, count], or NoRow
    wanted,       \* provider -> the operator's last word: "on", "off" or "gone"
    pass,         \* tracker -> logs it has still to count
    got,          \* tracker -> [log, ema, count]: the row it has read, or Nothing
    change,       \* [name, row]: the row the operator's change has read, or Nothing
    edits

ownVars == <<providers, wanted, pass, got, change, edits>>
allVars == <<market, active, now, daily, hourly, rows, logs, todo, judged, ownVars>>

Unrated == -1
NoRow == [count |-> -1]
Nothing == [name |-> "none"]
One == 1000 * 1000
Half == One \div 2

\* Bound: providers are at work where logs are judged.
Rating == active \cap Logs # {}

\* A row of add_provider or of a first change: upserted without an accuracy.
Fresh(on) == [active |-> on, ema |-> Unrated, count |-> 0]

InitRating ==
    /\ Init
    /\ providers = [p \in Providers |-> Fresh(TRUE)]
    /\ wanted = [p \in Providers |-> "on"]
    /\ pass = [t \in Trackers |-> {}]
    /\ got = [t \in Trackers |-> Nothing]
    /\ change = Nothing
    /\ edits = 0

-----------------------------------------------------------------------------
(* The tracker *)

\* direction_correct of a judged log.
Right(l) == LogRight(LogOf(l), DayBar(logs[l].day, logs[l].seen).close)

JudgedLogs == {l \in Logs : logs[l].status = "EVALUATED"}

\* ema_accuracy_new = alpha * outcome + (1 - alpha) * ema_accuracy_old.
Smoothed(ema, right) ==
    LET old == IF ema = Unrated THEN Half ELSE ema
    IN  Vote!RoundRatio((IF right THEN Alpha * One ELSE 0) + (100 - Alpha) * old, 100)

\* update_all_from_evaluations: the logs judged on the bar of this very day,
\* counted once more by every pass of the day.
StartPass(t) ==
    /\ pass[t] = {}
    /\ \E due \in {{l \in JudgedLogs : logs[l].day = Day(now)}} :
          /\ due # {}
          /\ pass' = [pass EXCEPT ![t] = due]
    /\ UNCHANGED <<vars, providers, wanted, got, change, edits>>

\* update_provider_ema reads the row; a provider that is gone is passed over.
ReadRow(t) ==
    /\ got[t] = Nothing
    /\ \E l \in pass[t] : LET row == providers[ModelOf(l)] IN
          IF row = NoRow
          THEN /\ pass' = [pass EXCEPT ![t] = @ \ {l}]
               /\ UNCHANGED got
          ELSE /\ row.count < MaxCount
               /\ got' = [got EXCEPT ![t] = [log |-> l, ema |-> row.ema, count |-> row.count]]
               /\ UNCHANGED pass
    /\ UNCHANGED <<vars, providers, wanted, change, edits>>

\* Mutant: the accuracy goes on from the row as it is now, the count does not.
WriteRowAfresh(t) ==
    /\ got[t] # Nothing
    /\ LET p == ModelOf(got[t].log) IN
          providers' = [providers EXCEPT ![p] =
              IF @ = NoRow THEN NoRow
              ELSE [@ EXCEPT !.ema = Smoothed(@, Right(got[t].log)), !.count = got[t].count + 1]]
    /\ pass' = [pass EXCEPT ![t] = @ \ {got[t].log}]
    /\ got' = [got EXCEPT ![t] = Nothing]
    /\ UNCHANGED <<vars, wanted, change, edits>>

\* Mutant: the row is upserted.
WriteRowUpserting(t) ==
    /\ got[t] # Nothing
    /\ providers' = [providers EXCEPT ![ModelOf(got[t].log)] =
                        [active |-> TRUE, ema |-> Smoothed(got[t].ema, Right(got[t].log)),
                         count |-> got[t].count + 1]]
    /\ pass' = [pass EXCEPT ![t] = @ \ {got[t].log}]
    /\ got' = [got EXCEPT ![t] = Nothing]
    /\ UNCHANGED <<vars, wanted, change, edits>>

\* ... and updates it: both numbers follow from what was read, the other
\* columns stay, and a row that is gone meanwhile stays away.
WriteRow(t) ==
    /\ got[t] # Nothing
    /\ LET p == ModelOf(got[t].log) IN
          providers' = [providers EXCEPT ![p] =
              IF @ = NoRow THEN NoRow
              ELSE [@ EXCEPT !.ema = Smoothed(got[t].ema, Right(got[t].log)),
                             !.count = got[t].count + 1]]
    /\ pass' = [pass EXCEPT ![t] = @ \ {got[t].log}]
    /\ got' = [got EXCEPT ![t] = Nothing]
    /\ UNCHANGED <<vars, wanted, change, edits>>

-----------------------------------------------------------------------------
(* The operator: one request at a time on the event loop *)

Word(on) == IF on THEN "on" ELSE "off"

Editing == Rating /\ change = Nothing /\ edits < MaxEdits

\* add_provider replaces whatever there is: its accuracy starts anew.
AddProvider(p, on) ==
    /\ Editing
    /\ providers' = [providers EXCEPT ![p] = Fresh(on)]
    /\ wanted' = [wanted EXCEPT ![p] = Word(on)]
    /\ edits' = edits + 1
    /\ UNCHANGED <<vars, pass, got, change>>

DeleteProvider(p) ==
    /\ Editing
    /\ providers' = [providers EXCEPT ![p] = NoRow]
    /\ wanted' = [wanted EXCEPT ![p] = "gone"]
    /\ edits' = edits + 1
    /\ UNCHANGED <<vars, pass, got, change>>

\* update_provider reads the row, or makes one up for an unknown name ...
ReadProvider(p, on) ==
    /\ Editing
    /\ change' = [name |-> p,
                  row  |-> IF providers[p] = NoRow THEN Fresh(on)
                           ELSE [providers[p] EXCEPT !.active = on]]
    /\ edits' = edits + 1
    /\ UNCHANGED <<vars, providers, wanted, pass, got>>

\* ... and replaces the whole of it, with the accuracy it has read.
UpdateProvider ==
    /\ change # Nothing
    /\ providers' = [providers EXCEPT ![change.name] = change.row]
    /\ wanted' = [wanted EXCEPT ![change.name] = Word(change.row.active)]
    /\ change' = Nothing
    /\ UNCHANGED <<vars, pass, got, edits>>

NextRating ==
    \/ Next /\ UNCHANGED ownVars
    \/ \E t \in Trackers : StartPass(t) \/ ReadRow(t) \/ WriteRow(t)
    \/ \E p \in Providers : \/ DeleteProvider(p)
                            \/ \E on \in BOOLEAN : AddProvider(p, on) \/ ReadProvider(p, on)
    \/ UpdateProvider

RatingSpec == InitRating /\ [][NextRating]_allVars /\ Fairness

-----------------------------------------------------------------------------
(* What the vote reads *)

\* get_providers_ema_accuracy: the providers that are active and rated.
ModelStats == {p \in Providers : /\ providers[p] # NoRow
                                 /\ providers[p].active /\ providers[p].ema # Unrated}

\* The ema_weight of calculate_consensus, millionths: neutral for the others.
EmaWeight(p) ==
    IF p \notin ModelStats THEN One
    ELSE Max({(3 * One) \div 10, Min({One + Half, 2 * providers[p].ema})})

\* get_forecast_statistics: how many of a method's judged forecasts had the
\* right direction, and how many there are.
Accuracy(m) ==
    LET own == {l \in JudgedLogs : MethodOf(l) = m}
    IN  <<Cardinality({l \in own : Right(l)}), Cardinality(own)>>

\* The win_rate of a method, a ratio: one half where nothing was judged.
WinRate(m) == IF Accuracy(m)[2] = 0 THEN <<1, 2>> ELSE Accuracy(m)

-----------------------------------------------------------------------------
(* Properties *)

\* The outcomes the forecasts of a provider have had so far.
OutcomesOf(p) == {Right(l) : l \in {x \in JudgedLogs : ModelOf(x) = p}}

\* The accuracies that n of such outcomes can lead to.
Reachable(outcomes) ==
    LET after[n \in 0..MaxCount] ==
            IF n = 0 THEN {Unrated}
            ELSE {Smoothed(ema, right) : ema \in after[n - 1], right \in outcomes}
    IN  after

\* However passes overlap one another and the operator's changes: the accuracy
\* of a provider is what as many outcomes as are counted, all of them its own,
\* lead to; it is in the table, active or not, as the operator last said; a
\* provider that was only right never weighs less than a new one, one that was
\* only wrong never more; and only a method that was never right is silenced.
AccuracyIsEarned ==
    \A p \in Providers :
        LET row == providers[p]
        IN  /\ row # NoRow => row.count \in 0..MaxCount
                            /\ row.ema \in Reachable(OutcomesOf(p))[row.count]
            /\ wanted[p] = IF row = NoRow THEN "gone" ELSE Word(row.active)
            /\ FALSE \notin OutcomesOf(p) => EmaWeight(p) >= One
            /\ TRUE \notin OutcomesOf(p) => EmaWeight(p) <= One
            /\ \A l \in JudgedLogs : Right(l) => WinRate(MethodOf(l))[1] > 0

=============================================================================
