--------------------------- MODULE Console_proofs ---------------------------
(***************************************************************************)
(* What is proved of Console for any clients, threads, operations, casts   *)
(* of actors and any number of settings stored and reads failed.           *)
(***************************************************************************)
EXTENDS Console, TLAPS

\* What the settings say now, the operator stored at some time.
ChangesAreNoted == Changed(stored) \subseteq stores.changed

\* Keys are saved for a profile.
SavesProfile == saving # NotSaving => saving.profile \in Profile

\* The client, and what a job that remakes it has read so far, leaves the demo
\* account only where the operator left it.
ClientIsChosen ==
  /\ ~client.demo => "demo" \in stores.changed
  /\ client.keys = "live" => "profile" \in stores.changed

ReadsAreChosen ==
  \A r \in Refresher :
    /\ ~refresh[r].demo => "demo" \in stores.changed
    /\ refresh[r].profile = "live" => "profile" \in stores.changed

\* A submission past the test of the mode has one the operator chose.
ModeIsChosen ==
  /\ submission.mode # "disabled" => "mode" \in stores.changed
  /\ submission.at \in {"ticker", "block", "balance", "bracket", "placed"}
       => submission.mode # "disabled"

\* As long as nothing is stored, what a submission has tested still holds.
TestsStillHold ==
  submission.settled =>
    /\ submission.mode \in {"disabled", stored.mode}
    /\ submission.at \in {"ticker", "block", "balance", "bracket", "placed"}
         => (stored.mode = "live" => stored.confirmed)
    /\ submission.at \in {"block", "balance", "bracket", "placed"} => row # "absent"
    /\ submission.at \in {"balance", "bracket", "placed"} /\ row = "blocked"
         => submission.unread

\* A thread owns its operation until it has called on_finished: nobody else is
\* at work on it, and the control is held.
Owns(t) == thread[t].at \in {"working", "waiting", "reported"}

OneOwner ==
  /\ \A t \in Thread : Owns(t) => held[thread[t].op]
  /\ \A t, u \in Thread : Owns(t) /\ Owns(u) /\ thread[t].op = thread[u].op => t = u

Submissions ==
  [at : {"idle", "mode", "confirmed", "ticker", "block", "balance", "bracket", "placed"},
   mode : Mode, sized : Profile \cup {None},
   account : Profile \cup {None}, settled : BOOLEAN, unread : BOOLEAN]

AccountInv ==
  /\ AccountTypeOK /\ SavesProfile /\ ChangesAreNoted /\ ClientIsChosen /\ ReadsAreChosen
  /\ ModeIsChosen /\ TestsStillHold /\ LiveOnlyWhenChosen /\ ClientKeepsKeys

ActivityInv == ActivityTypeOK /\ OneOwner

TickerInv ==
  /\ row \in {"absent", "open", "blocked"} /\ wanted \in BOOLEAN
  /\ loaded \subseteq Operator /\ cast \in Cast
  /\ DeletedTickerStaysOut

CInv == AccountInv /\ ActivityInv /\ TickerInv

-----------------------------------------------------------------------------
\* The keys of the settings.
LEMMA Keys == DOMAIN Default = {"demo", "profile", "mode", "confirmed"}
BY DEF Default

\* A key of the settings that is not at its default was changed.
LEMMA ChangedKeys ==
  ASSUME NEW s \in Settings
  PROVE  /\ Changed(s) \subseteq DOMAIN Default
         /\ ~s.demo => "demo" \in Changed(s)
         /\ s.profile = "live" => "profile" \in Changed(s)
         /\ s.mode # "disabled" => "mode" \in Changed(s)
BY DEF Changed, Default, Settings

LEMMA InitCInv == Init => CInv
<1> SUFFICES ASSUME Init PROVE CInv
  OBVIOUS
<1>1. AccountTypeOK
  <2>1. stores \in [count : 0 .. MaxStores, changed : SUBSET DOMAIN Default]
    BY TradingAccountAssumption, ChangedKeys
    DEF Init, AccountInit, TradingAccountAssumption
  <2>2. /\ stored \in Settings /\ file \subseteq Profile
        /\ up \in BOOLEAN /\ worker \in BOOLEAN
    BY DEF Init, AccountInit
  <2>8. failures \in 0 .. MaxFailures
    BY TradingAccountAssumption DEF Init, AccountInit, TradingAccountAssumption
  <2>3. saving \in [profile : Profile \cup {None}, kept : SUBSET Profile, active : BOOLEAN]
    BY DEF Init, AccountInit, NotSaving
  <2>4. /\ client \in [demo : BOOLEAN, keys : Profile \cup {None}, made : BOOLEAN]
        /\ sync \in [at : {"idle", "row"}, wallet : Profile \cup {None}]
        /\ balance \in [Profile -> Profile \cup {None}]
    BY DEF Init, AccountInit, NoClient, Unsynced
  <2>5. Resting \in [at : {"idle", "profile", "keys"}, demo : BOOLEAN, profile : Profile]
    BY DEF Resting, Profile
  <2>6. refresh \in [Refresher -> [at : {"idle", "profile", "keys"}, demo : BOOLEAN,
                                  profile : Profile]]
    BY <2>5 DEF Init, AccountInit
  <2>7. submission \in Submissions
    BY DEF Init, AccountInit, Unsent, Submissions, Mode
  <2> QED
    BY <2>1, <2>2, <2>3, <2>4, <2>6, <2>7, <2>8 DEF AccountTypeOK, Submissions
<1>2. SavesProfile /\ ChangesAreNoted /\ ClientIsChosen /\ ReadsAreChosen
      /\ ModeIsChosen /\ TestsStillHold /\ LiveOnlyWhenChosen /\ ClientKeepsKeys
  BY DEF Init, AccountInit, SavesProfile, ChangesAreNoted, ClientIsChosen, ReadsAreChosen, ModeIsChosen,
         TestsStillHold, LiveOnlyWhenChosen, ClientKeepsKeys, NoClient, Resting, Unsent, None
<1>3. ActivityTypeOK /\ OneOwner
  BY DEF Init, ActivityInit, ActivityTypeOK, OneOwner, Owns, Free
<1>4. TickerInv
  BY DEF Init, TickerInv, DeletedTickerStaysOut
<1> QED
  BY <1>1, <1>2, <1>3, <1>4 DEF CInv, AccountInv, ActivityInv

-----------------------------------------------------------------------------
(* The operations of the client.                                           *)

\* A click starts a thread only on an operation nobody owns.
LEMMA ClickKeeps ==
  ASSUME ActivityInv, NEW o \in Op, NEW t \in Thread, Click(o, t)
  PROVE  ActivityInv'
<1>1. held' = [held EXCEPT ![o] = TRUE] /\ ~held[o] /\ thread[t] = Free
  BY DEF Click
<1>2. \A u \in Thread : Owns(u) => thread[u].op # o
  BY <1>1 DEF ActivityInv, OneOwner
<1>3. CASE run[o] = "running"
  <2>1. UNCHANGED <<run, callbacks, thread>>
    BY <1>3 DEF Click
  <2> QED
    BY <1>1, <2>1 DEF ActivityInv, ActivityTypeOK, OneOwner, Owns
<1>4. CASE run[o] # "running"
  <2>1. /\ run' = [run EXCEPT ![o] = "running"]
        /\ callbacks' = [callbacks EXCEPT ![o] = TRUE]
        /\ thread' = [thread EXCEPT ![t] = [op |-> o, at |-> "working"]]
    BY <1>4 DEF Click
  <2>2. ActivityTypeOK'
    BY <1>1, <2>1 DEF ActivityInv, ActivityTypeOK
  <2>3. /\ thread'[t].op = o /\ thread'[t].at = "working"
        /\ \A u \in Thread \ {t} : thread'[u] = thread[u]
    BY <2>1 DEF ActivityInv, ActivityTypeOK
  <2>4. /\ held'[o] /\ \A p \in Op : held[p] => held'[p]
    BY <1>1 DEF ActivityInv, ActivityTypeOK
  <2>5. \A u \in Thread : Owns(u) => thread[u].op \in Op
    BY DEF ActivityInv, ActivityTypeOK, Owns, Free
  <2>6. OneOwner'
    BY <1>2, <2>3, <2>4, <2>5 DEF ActivityInv, OneOwner, Owns
  <2> QED
    BY <2>2, <2>6 DEF ActivityInv
<1> QED
  BY <1>3, <1>4

\* A thread goes on to its request, or to its report, and still owns its operation.
LEMMA OwnerGoesOn ==
  ASSUME ActivityInv, NEW t \in Thread, NEW at \in {"waiting", "reported"},
         thread[t].at \in {"working", "waiting"}, Becomes(t, at), UNCHANGED <<held, callbacks>>,
         run' \in [Op -> {"none", "running", "success", "error"}]
  PROVE  ActivityInv'
<1>1. /\ thread' = [thread EXCEPT ![t].at = at]
      /\ thread[t] \in [op : Op, at : {"working", "waiting", "reported", "called"}]
  BY DEF Becomes, ActivityInv, ActivityTypeOK, Free
<1>2. /\ thread'[t].at = at /\ thread'[t].op = thread[t].op
      /\ thread'[t] \in [op : Op, at : {"working", "waiting", "reported", "called"}]
      /\ \A u \in Thread \ {t} : thread'[u] = thread[u]
  BY <1>1 DEF ActivityInv, ActivityTypeOK
<1>3. ActivityTypeOK'
  BY <1>1, <1>2 DEF ActivityInv, ActivityTypeOK
<1>4. OneOwner'
  BY <1>2 DEF ActivityInv, OneOwner, Owns
<1> QED
  BY <1>3, <1>4 DEF ActivityInv

LEMMA ReportsKeeps ==
  ASSUME ActivityInv, NEW t \in Thread, Reports(t)
  PROVE  ActivityInv'
<1>1. /\ thread[t].at \in {"working", "waiting"} /\ Becomes(t, "reported")
      /\ UNCHANGED <<held, callbacks>>
  BY DEF Reports
<1>2. run' \in [Op -> {"none", "running", "success", "error"}]
  BY DEF Reports, ActivityInv, ActivityTypeOK
<1> QED
  BY <1>1, <1>2, OwnerGoesOn

\* The thread that calls on_finished was the owner: none is left.
LEMMA FinishedKeeps ==
  ASSUME ActivityInv, NEW t \in Thread, CallsFinished(t)
  PROVE  ActivityInv'
<1> DEFINE o == thread[t].op
<1>1. /\ thread[t].at = "reported" /\ thread' = [thread EXCEPT ![t].at = "called"]
      /\ held' = [held EXCEPT ![o] = held[o] /\ ~callbacks[o]]
      /\ UNCHANGED <<run, callbacks>>
  BY DEF CallsFinished, Becomes
<1>2. o \in Op /\ thread[t] \in [op : Op, at : {"working", "waiting", "reported", "called"}]
  BY <1>1 DEF ActivityInv, ActivityTypeOK, Free
<1>3. /\ thread'[t].at = "called"
      /\ thread'[t] \in [op : Op, at : {"working", "waiting", "reported", "called"}]
      /\ \A u \in Thread \ {t} : thread'[u] = thread[u]
  BY <1>1, <1>2 DEF ActivityInv, ActivityTypeOK
<1>4. ActivityTypeOK'
  BY <1>1, <1>2, <1>3 DEF ActivityInv, ActivityTypeOK
<1>5. \A u \in Thread \ {t} : Owns(u) => thread[u].op \in Op \ {o}
  BY <1>1, <1>2 DEF ActivityInv, ActivityTypeOK, OneOwner, Owns, Free
<1>6. \A p \in Op \ {o} : held'[p] = held[p]
  BY <1>1 DEF ActivityInv, ActivityTypeOK
<1>7. OneOwner'
  BY <1>3, <1>5, <1>6 DEF ActivityInv, OneOwner, Owns
<1> QED
  BY <1>4, <1>7 DEF ActivityInv

LEMMA DropsKeeps ==
  ASSUME ActivityInv, NEW t \in Thread, DropsCallbacks(t)
  PROVE  ActivityInv'
<1>1. /\ thread[t].at = "called" /\ thread' = [thread EXCEPT ![t] = Free]
      /\ callbacks' = [callbacks EXCEPT ![thread[t].op] = FALSE]
      /\ UNCHANGED <<run, held>>
  BY DEF DropsCallbacks
<1>2. thread[t].op \in Op
  BY <1>1 DEF ActivityInv, ActivityTypeOK, Free
<1>3. ActivityTypeOK'
  BY <1>1, <1>2 DEF ActivityInv, ActivityTypeOK
<1>4. OneOwner'
  BY <1>1 DEF ActivityInv, ActivityTypeOK, OneOwner, Owns, Free
<1> QED
  BY <1>3, <1>4 DEF ActivityInv

-----------------------------------------------------------------------------
(* The settings.                                                           *)

\* Storing settings notes what they change, and no submission is settled.
LEMMA StoresKeeps ==
  ASSUME AccountInv, NEW s \in Settings, Stores(s), file' \subseteq Profile,
         saving' \in {saving, NotSaving},
         UNCHANGED <<up, worker, client, refresh, sync, balance, failures>>
  PROVE  AccountInv'
<1>1. /\ stores.count < MaxStores /\ stored' = s
      /\ stores' = [count |-> stores.count + 1, changed |-> stores.changed \cup Changed(s)]
      /\ submission' = [submission EXCEPT !.settled = FALSE]
  BY DEF Stores
<1>2. stores' \in [count : 0 .. MaxStores, changed : SUBSET DOMAIN Default]
  BY <1>1, ChangedKeys, TradingAccountAssumption
  DEF AccountInv, AccountTypeOK, TradingAccountAssumption
<1>3. stores.changed \subseteq stores'.changed /\ Changed(s) \subseteq stores'.changed
  BY <1>1
<1>4. submission' \in Submissions /\ ~submission'.settled
      /\ submission'.mode = submission.mode /\ submission'.at = submission.at
      /\ submission'.account = submission.account
  BY <1>1 DEF AccountInv, AccountTypeOK, Submissions
<1>5. AccountTypeOK' /\ SavesProfile'
  <2>1. saving' \in [profile : Profile \cup {None}, kept : SUBSET Profile, active : BOOLEAN]
    <3>1. NotSaving \in [profile : Profile \cup {None}, kept : SUBSET Profile, active : BOOLEAN]
      BY DEF NotSaving
    <3> QED
      BY <3>1 DEF AccountInv, AccountTypeOK
  <2> QED
    BY <1>1, <1>2, <1>4, <2>1 DEF AccountInv, AccountTypeOK, Submissions, SavesProfile
<1>6. ChangesAreNoted' /\ ClientIsChosen' /\ ReadsAreChosen' /\ ClientKeepsKeys'
  BY <1>1, <1>3
  DEF AccountInv, ChangesAreNoted, ClientIsChosen, ReadsAreChosen, ClientKeepsKeys
<1>7. ModeIsChosen' /\ TestsStillHold' /\ LiveOnlyWhenChosen'
  BY <1>3, <1>4 DEF AccountInv, ModeIsChosen, TestsStillHold, LiveOnlyWhenChosen
<1> QED
  BY <1>5, <1>6, <1>7 DEF AccountInv

LEMMA StoreSettingKeeps ==
  ASSUME AccountInv, NEW k \in DOMAIN Default, StoreSetting(k)
  PROVE  AccountInv'
<1>1. PICK s \in Settings : Stores(s)
  BY DEF StoreSetting
<1> QED
  BY <1>1, StoresKeeps DEF StoreSetting, AccountInv, AccountTypeOK

\* A save of secrets.ini empties it first.
LEMMA SaveKeeps ==
  ASSUME AccountInv, BeginSave \/ EndSave, row' = row
  PROVE  AccountInv'
<1>1. CASE BeginSave
  <2>1. /\ file' = {}
        /\ UNCHANGED <<stored, up, worker, client, refresh, submission, sync, balance,
                       stores, failures>>
    BY <1>1 DEF BeginSave
  <2>2. PICK p \in Profile, active \in BOOLEAN :
          saving' = [profile |-> p, kept |-> file, active |-> active]
    BY <1>1 DEF BeginSave
  <2>3. AccountTypeOK' /\ SavesProfile'
    BY <2>1, <2>2 DEF AccountInv, AccountTypeOK, SavesProfile
  <2>4. /\ ChangesAreNoted' /\ ClientIsChosen' /\ ReadsAreChosen' /\ ModeIsChosen'
        /\ TestsStillHold' /\ LiveOnlyWhenChosen' /\ ClientKeepsKeys'
    BY <2>1
    DEF AccountInv, ChangesAreNoted, ClientIsChosen, ReadsAreChosen, ModeIsChosen,
        TestsStillHold, LiveOnlyWhenChosen, ClientKeepsKeys, Changed
  <2> QED
    BY <2>3, <2>4 DEF AccountInv
<1>2. CASE EndSave
  <2> DEFINE s == IF saving.active THEN [stored EXCEPT !.profile = saving.profile]
                  ELSE stored
  <2>1. /\ Stores(s) /\ file' = saving.kept \cup {saving.profile}
        /\ saving' = NotSaving /\ saving # NotSaving
        /\ UNCHANGED <<up, worker, client, refresh, sync, balance, failures>>
    BY <1>2 DEF EndSave
  <2>2. saving.profile \in Profile /\ saving.kept \subseteq Profile
    BY <2>1 DEF AccountInv, AccountTypeOK, SavesProfile
  <2>3. s \in Settings /\ file' \subseteq Profile
    BY <2>1, <2>2 DEF AccountInv, AccountTypeOK, Settings
  <2> HIDE DEF s
  <2> QED
    BY <2>1, <2>3, StoresKeeps
<1> QED
  BY <1>1, <1>2

-----------------------------------------------------------------------------
(* The client.                                                             *)

Demos == [demo : BOOLEAN, keys : Profile \cup {None}, made : BOOLEAN]

Refreshes == [at : {"idle", "profile", "keys"}, demo : BOOLEAN, profile : Profile]

\* A client made of values the operator chose is one the operator chose.
LEMMA MakeClientKeeps ==
  ASSUME AccountInv, NEW demo \in BOOLEAN, NEW p \in Profile, MakeClient(demo, KeysOf(p)),
         ~demo => "demo" \in stores.changed,
         p = "live" => "profile" \in stores.changed,
         UNCHANGED stores
  PROVE  client' \in Demos /\ ClientIsChosen' /\ ClientKeepsKeys'
<1>1. KeysOf(p) \in {p, None}
  BY DEF KeysOf
<1>2. client \in Demos
  BY DEF AccountInv, AccountTypeOK, Demos
<1>3. CASE KeysOf(p) # None
  <2>1. KeysOf(p) = p
    BY <1>1, <1>3
  <2>2. client' = [demo |-> demo, keys |-> p, made |-> TRUE]
    BY <1>3, <2>1 DEF MakeClient
  <2> QED
    BY <1>3, <2>1, <2>2 DEF Demos, ClientIsChosen, ClientKeepsKeys
<1>4. CASE KeysOf(p) = None
  <2>1. client' = client
    BY <1>4 DEF MakeClient
  <2> QED
    BY <1>2, <2>1 DEF AccountInv, ClientIsChosen, ClientKeepsKeys
<1> QED
  BY <1>3, <1>4

LEMMA StartServerKeeps ==
  ASSUME AccountInv, StartServer, row' = row
  PROVE  AccountInv'
<1>1. /\ up' = TRUE /\ worker' \in BOOLEAN
      /\ MakeClient(stored.demo, KeysOf(stored.profile))
      /\ UNCHANGED <<stored, file, saving, refresh, submission, sync, balance, stores,
                     failures>>
  BY DEF StartServer
<1>2. /\ stored.demo \in BOOLEAN /\ stored.profile \in Profile
      /\ ~stored.demo => "demo" \in stores.changed
      /\ stored.profile = "live" => "profile" \in stores.changed
  BY ChangedKeys DEF AccountInv, AccountTypeOK, ChangesAreNoted, Settings
<1>3. client' \in Demos /\ ClientIsChosen' /\ ClientKeepsKeys'
  BY <1>1, <1>2, MakeClientKeeps
<1>4. AccountTypeOK' /\ SavesProfile'
  BY <1>1, <1>3 DEF AccountInv, AccountTypeOK, SavesProfile, Demos, NotSaving
<1>5. ChangesAreNoted' /\ ReadsAreChosen' /\ ModeIsChosen' /\ TestsStillHold'
      /\ LiveOnlyWhenChosen'
  BY <1>1
  DEF AccountInv, ChangesAreNoted, ReadsAreChosen, ModeIsChosen, TestsStillHold,
      LiveOnlyWhenChosen, Changed
<1> QED
  BY <1>3, <1>4, <1>5 DEF AccountInv

\* What the process held in memory is gone.
LEMMA StopServerKeeps ==
  ASSUME AccountInv, StopServer
  PROVE  AccountInv'
<1>1. /\ up' = FALSE /\ worker' = FALSE /\ client' = NoClient /\ saving' = NotSaving
      /\ refresh' = [r \in Refresher |-> Resting]
      /\ submission' = Unsent /\ sync' = Unsynced
      /\ UNCHANGED <<stored, file, balance, stores, failures>>
  BY DEF StopServer
<1>2. /\ NotSaving \in [profile : Profile \cup {None}, kept : SUBSET Profile, active : BOOLEAN]
      /\ NoClient \in Demos
      /\ Unsynced \in [at : {"idle", "row"}, wallet : Profile \cup {None}]
  BY DEF NotSaving, NoClient, Demos, Unsynced
<1>3. Resting \in Refreshes
  BY DEF Resting, Refreshes, Profile
<1>4. Unsent \in Submissions
  BY DEF Unsent, Submissions, Mode
<1>5. AccountTypeOK' /\ SavesProfile'
  <2>1. refresh' \in [Refresher -> Refreshes]
    BY <1>1, <1>3
  <2>2. SavesProfile'
    BY <1>1 DEF SavesProfile
  <2>3. /\ stored' \in Settings /\ file' \subseteq Profile
        /\ balance' \in [Profile -> Profile \cup {None}]
        /\ stores' \in [count : 0 .. MaxStores, changed : SUBSET DOMAIN Default]
        /\ failures' \in 0 .. MaxFailures
    BY <1>1 DEF AccountInv, AccountTypeOK
  <2>4. /\ saving' \in [profile : Profile \cup {None}, kept : SUBSET Profile,
                        active : BOOLEAN]
        /\ up' \in BOOLEAN /\ worker' \in BOOLEAN
        /\ client' \in Demos /\ submission' \in Submissions
        /\ sync' \in [at : {"idle", "row"}, wallet : Profile \cup {None}]
    BY <1>1, <1>2, <1>4
  <2> QED
    BY <2>1, <2>2, <2>3, <2>4 DEF AccountTypeOK, Submissions, Demos, Refreshes
<1>6. ChangesAreNoted' /\ ClientIsChosen' /\ ReadsAreChosen' /\ ClientKeepsKeys'
  BY <1>1
  DEF AccountInv, ChangesAreNoted, ClientIsChosen, ReadsAreChosen, ClientKeepsKeys,
      Changed, NoClient, Resting, None
<1>7. ModeIsChosen' /\ TestsStillHold' /\ LiveOnlyWhenChosen'
  BY <1>1 DEF ModeIsChosen, TestsStillHold, LiveOnlyWhenChosen, Unsent, None
<1> QED
  BY <1>5, <1>6, <1>7 DEF AccountInv

\* A read gives what is stored or the default, and counts if it failed.
LEMMA ReadGives ==
  ASSUME AccountTypeOK, NEW k \in DOMAIN Default, NEW v, v \in Values(k), Reads(k, v)
  PROVE  v \in {stored[k], Default[k]} /\ failures' \in 0 .. MaxFailures
BY TradingAccountAssumption
DEF Values, Reads, AccountTypeOK, TradingAccountAssumption

\* A job reads what is stored, or the defaults.
LEMMA RefreshKeeps ==
  ASSUME AccountInv, NEW r \in Refresher, RefreshStep(r), row' = row
  PROVE  AccountInv'
<1>1. /\ stored.demo \in BOOLEAN /\ stored.profile \in Profile
      /\ ~stored.demo => "demo" \in stores.changed
      /\ stored.profile = "live" => "profile" \in stores.changed
  BY ChangedKeys DEF AccountInv, AccountTypeOK, ChangesAreNoted, Settings
<1>2. refresh \in [Refresher -> Refreshes]
  BY DEF AccountInv, AccountTypeOK, Refreshes
<1>3. /\ ~refresh[r].demo => "demo" \in stores.changed
      /\ refresh[r].profile = "live" => "profile" \in stores.changed
  BY DEF AccountInv, ReadsAreChosen
<1>4. UNCHANGED <<settingsVars, up, worker, submission, sync, balance>>
  BY DEF RefreshStep, ReadDemo, ReadProfile, Remake
<1>5. SUFFICES /\ client' \in Demos /\ ClientIsChosen' /\ ClientKeepsKeys'
               /\ failures' \in 0 .. MaxFailures
               /\ \E new \in Refreshes :
                    /\ refresh' = [refresh EXCEPT ![r] = new]
                    /\ ~new.demo => "demo" \in stores.changed
                    /\ new.profile = "live" => "profile" \in stores.changed
  <2>1. AccountTypeOK' /\ SavesProfile'
    BY <1>2, <1>4, <1>5 DEF AccountInv, AccountTypeOK, SavesProfile, settingsVars, Demos,
                            Refreshes
  <2>2. ReadsAreChosen'
    BY <1>2, <1>4, <1>5 DEF AccountInv, ReadsAreChosen, settingsVars
  <2>3. ChangesAreNoted' /\ ModeIsChosen' /\ TestsStillHold' /\ LiveOnlyWhenChosen'
    BY <1>4
    DEF AccountInv, ChangesAreNoted, ModeIsChosen, TestsStillHold, LiveOnlyWhenChosen,
        Changed, settingsVars
  <2> QED
    BY <1>5, <2>1, <2>2, <2>3 DEF AccountInv
<1>6. client' = client => client' \in Demos /\ ClientIsChosen' /\ ClientKeepsKeys'
  BY <1>4 DEF AccountInv, AccountTypeOK, Demos, ClientIsChosen, ClientKeepsKeys, settingsVars
<1>7. CASE ReadDemo(r)
  <2>1. PICK v \in Values("demo") :
          /\ Reads("demo", v)
          /\ refresh' = [refresh EXCEPT ![r].at = "profile", ![r].demo = v]
    BY <1>7 DEF ReadDemo
  <2>2. v \in {stored.demo, Default.demo} /\ failures' \in 0 .. MaxFailures
    BY <2>1, ReadGives, Keys DEF AccountInv
  <2> DEFINE new == [at |-> "profile", demo |-> v, profile |-> refresh[r].profile]
  <2>3. refresh' = [refresh EXCEPT ![r] = new]
    <3> DEFINE old == [at |-> "profile", demo |-> refresh[r].demo,
                       profile |-> refresh[r].profile]
               f == [refresh EXCEPT ![r].at = "profile"]
    <3>1. refresh[r] \in Refreshes
      BY <1>2
    <3>2. [refresh[r] EXCEPT !.at = "profile"] = old
      BY <3>1 DEF Refreshes
    <3>3. f = [refresh EXCEPT ![r] = old]
      BY <3>2
    <3>4. [old EXCEPT !.demo = v] = new
      OBVIOUS
    <3>5. refresh' = [f EXCEPT ![r].demo = v]
      BY <2>1
    <3> HIDE DEF f, old, new
    <3>6. f[r] = old /\ DOMAIN f = Refresher
      BY <1>2, <3>3
    <3>7. refresh' = [f EXCEPT ![r] = new]
      BY <3>4, <3>5, <3>6
    <3> QED
      BY <1>2, <3>3, <3>7
  <2>4. new \in Refreshes
    BY <1>1, <1>2, <2>2 DEF Refreshes, Default
  <2>5. /\ ~new.demo => "demo" \in stores.changed
        /\ new.profile = "live" => "profile" \in stores.changed
    BY <1>1, <1>3, <2>2 DEF Default
  <2> QED
    BY <1>6, <1>7, <2>2, <2>3, <2>4, <2>5 DEF ReadDemo
<1>8. CASE ReadProfile(r)
  <2>1. PICK v \in Values("profile") :
          /\ Reads("profile", v)
          /\ refresh' = [refresh EXCEPT ![r].at = "keys", ![r].profile = v]
    BY <1>8 DEF ReadProfile
  <2>2. v \in {stored.profile, Default.profile} /\ failures' \in 0 .. MaxFailures
    BY <2>1, ReadGives, Keys DEF AccountInv
  <2> DEFINE new == [at |-> "keys", demo |-> refresh[r].demo, profile |-> v]
  <2>3. refresh' = [refresh EXCEPT ![r] = new]
    <3> DEFINE old == [at |-> "keys", demo |-> refresh[r].demo,
                       profile |-> refresh[r].profile]
               f == [refresh EXCEPT ![r].at = "keys"]
    <3>1. refresh[r] \in Refreshes
      BY <1>2
    <3>2. [refresh[r] EXCEPT !.at = "keys"] = old
      BY <3>1 DEF Refreshes
    <3>3. f = [refresh EXCEPT ![r] = old]
      BY <3>2
    <3>4. [old EXCEPT !.profile = v] = new
      OBVIOUS
    <3>5. refresh' = [f EXCEPT ![r].profile = v]
      BY <2>1
    <3> HIDE DEF f, old, new
    <3>6. f[r] = old /\ DOMAIN f = Refresher
      BY <1>2, <3>3
    <3>7. refresh' = [f EXCEPT ![r] = new]
      BY <3>4, <3>5, <3>6
    <3> QED
      BY <1>2, <3>3, <3>7
  <2>4. new \in Refreshes
    BY <1>1, <1>2, <2>2 DEF Refreshes, Default, Profile
  <2>5. /\ ~new.demo => "demo" \in stores.changed
        /\ new.profile = "live" => "profile" \in stores.changed
    BY <1>1, <1>3, <2>2 DEF Default
  <2> QED
    BY <1>6, <1>8, <2>2, <2>3, <2>4, <2>5 DEF ReadProfile
<1>9. CASE Remake(r)
  <2>1. /\ MakeClient(refresh[r].demo, KeysOf(refresh[r].profile))
        /\ refresh' = [refresh EXCEPT ![r] = Resting] /\ failures' = failures
    BY <1>9 DEF Remake
  <2>2. refresh[r].demo \in BOOLEAN /\ refresh[r].profile \in Profile
    BY <1>2 DEF Refreshes
  <2>3. client' \in Demos /\ ClientIsChosen' /\ ClientKeepsKeys'
    BY <1>3, <1>4, <2>1, <2>2, MakeClientKeeps DEF settingsVars
  <2>4. Resting \in Refreshes /\ Resting.demo /\ Resting.profile # "live"
    BY DEF Resting, Refreshes, Profile
  <2>5. failures' \in 0 .. MaxFailures
    BY <2>1 DEF AccountInv, AccountTypeOK
  <2> QED
    BY <2>1, <2>3, <2>4, <2>5
<1> QED
  BY <1>7, <1>8, <1>9 DEF RefreshStep

-----------------------------------------------------------------------------
(* The submission, the synchronisation and the tickers.                    *)

\* The parts of the invariant that say nothing of a submission or of the row.
LEMMA OthersKeep ==
  ASSUME AccountInv,
         UNCHANGED <<settingsVars, up, worker, client, refresh, sync, balance>>,
         failures' \in 0 .. MaxFailures, submission' \in Submissions
  PROVE  /\ AccountTypeOK' /\ SavesProfile' /\ ChangesAreNoted' /\ ClientIsChosen'
         /\ ReadsAreChosen' /\ ClientKeepsKeys'
<1>1. AccountTypeOK' /\ SavesProfile'
  BY DEF AccountInv, AccountTypeOK, SavesProfile, settingsVars, Submissions
<1>2. ChangesAreNoted' /\ ClientIsChosen' /\ ReadsAreChosen' /\ ClientKeepsKeys'
  BY DEF AccountInv, ChangesAreNoted, ClientIsChosen, ReadsAreChosen, ClientKeepsKeys,
         Changed, settingsVars
<1> QED
  BY <1>1, <1>2

\* A submission that is refused or returns has chosen nothing yet.
LEMMA UnsentKeeps ==
  ASSUME AccountInv, submission' = Unsent, failures' \in 0 .. MaxFailures,
         UNCHANGED <<settingsVars, up, worker, client, refresh, sync, balance>>
  PROVE  AccountInv'
<1>1. submission' \in Submissions
  BY DEF Unsent, Submissions, Mode
<1>2. ModeIsChosen' /\ TestsStillHold' /\ LiveOnlyWhenChosen'
  BY DEF ModeIsChosen, TestsStillHold, LiveOnlyWhenChosen, Unsent, None
<1> QED
  BY <1>1, <1>2, OthersKeep DEF AccountInv

LEMMA BeginSubmissionKeeps ==
  ASSUME AccountInv, BeginSubmission, UNCHANGED failures,
         UNCHANGED <<settingsVars, up, worker, client, refresh, sync, balance>>
  PROVE  AccountInv'
<1>1. submission' = [at |-> "mode", mode |-> "disabled", sized |-> None,
                     account |-> None, settled |-> TRUE, unread |-> FALSE]
  BY DEF BeginSubmission, Unsent
<1>2. submission' \in Submissions
  BY <1>1 DEF Submissions, Mode
<1>3. ModeIsChosen' /\ TestsStillHold' /\ LiveOnlyWhenChosen'
  BY <1>1 DEF ModeIsChosen, TestsStillHold, LiveOnlyWhenChosen, None
<1>4. failures' \in 0 .. MaxFailures
  BY DEF AccountInv, AccountTypeOK
<1> QED
  BY <1>2, <1>3, <1>4, OthersKeep DEF AccountInv

\* Each test of a submission is made on what is stored, or on a default that
\* refuses.
LEMMA SubmissionKeeps ==
  ASSUME AccountInv, SubmissionStep, row' = row
  PROVE  AccountInv'
<1>0. /\ submission \in Submissions /\ failures \in 0 .. MaxFailures
      /\ client \in Demos /\ stored \in Settings
      /\ stored.mode # "disabled" => "mode" \in stores.changed
  BY ChangedKeys DEF AccountInv, AccountTypeOK, Submissions, Demos, ChangesAreNoted
<1>1. UNCHANGED <<settingsVars, up, worker, client, refresh, sync, balance>>
  BY DEF SubmissionStep, ReadMode, ReadConfirmed, CheckKnown, CheckBlocked, GetBalance,
         PlaceBracket,
         Return
<1>2. UNCHANGED stored /\ UNCHANGED stores
  BY <1>1 DEF settingsVars
<1>3. CASE ReadMode
  <2>1. PICK v \in Values("mode") :
          /\ Reads("mode", v)
          /\ submission' = [submission EXCEPT !.at = "confirmed", !.mode = v]
    BY <1>3 DEF ReadMode
  <2>2. v \in {stored.mode, Default.mode} /\ failures' \in 0 .. MaxFailures
    BY <2>1, ReadGives, Keys DEF AccountInv
  <2>3. v \in Mode /\ v \in {stored.mode, "disabled"}
    BY <1>0, <2>2 DEF Settings, Mode, Default
  <2> DEFINE f == [submission EXCEPT !.at = "confirmed"]
  <2>4. f \in Submissions /\ f.at = "confirmed" /\ f.account = submission.account
    BY <1>0 DEF Submissions
  <2>5. submission' = [f EXCEPT !.mode = v]
    BY <2>1
  <2> HIDE DEF f
  <2>6. /\ submission' \in Submissions /\ submission'.at = "confirmed"
        /\ submission'.mode = v /\ submission'.account = submission.account
    BY <2>3, <2>4, <2>5 DEF Submissions
  <2>7. ModeIsChosen' /\ TestsStillHold' /\ LiveOnlyWhenChosen'
    BY <1>0, <1>2, <2>3, <2>6
    DEF AccountInv, ModeIsChosen, TestsStillHold, LiveOnlyWhenChosen
  <2> QED
    BY <1>1, <2>2, <2>6, <2>7, OthersKeep DEF AccountInv
<1>4. CASE ReadConfirmed
  <2>1. PICK v \in Values("confirmed") :
          /\ Reads("confirmed", v) /\ submission.at = "confirmed"
          /\ submission' = IF Refused(submission.mode, v) THEN Unsent
                           ELSE [submission EXCEPT !.at = "ticker"]
    BY <1>4 DEF ReadConfirmed
  <2>2. v \in {stored.confirmed, Default.confirmed} /\ failures' \in 0 .. MaxFailures
    BY <2>1, ReadGives, Keys DEF AccountInv
  <2>3. CASE Refused(submission.mode, v)
    BY <1>1, <2>1, <2>2, <2>3, UnsentKeeps
  <2>4. CASE ~Refused(submission.mode, v)
    <3>1. /\ submission' \in Submissions /\ submission'.at = "ticker"
          /\ submission'.mode = submission.mode /\ submission'.settled = submission.settled
          /\ submission'.account = submission.account
      BY <1>0, <2>1, <2>4 DEF Submissions
    <3>2. submission.mode # "disabled" /\ (submission.mode = "live" => v)
      BY <2>4 DEF Refused
    <3>3. v => stored.confirmed
      BY <2>2 DEF Default
    <3>4. ModeIsChosen' /\ TestsStillHold' /\ LiveOnlyWhenChosen'
      BY <1>2, <3>1, <3>2, <3>3
      DEF AccountInv, ModeIsChosen, TestsStillHold, LiveOnlyWhenChosen
    <3> QED
      BY <1>1, <2>2, <3>1, <3>4, OthersKeep DEF AccountInv
  <2> QED
    BY <2>3, <2>4
<1>5. CASE CheckKnown \/ CheckBlocked \/ GetBalance
  <2>1. failures' \in 0 .. MaxFailures
    BY <1>0, <1>5, TradingAccountAssumption
    DEF CheckKnown, CheckBlocked, GetBalance, TradingAccountAssumption
  <2>2. CASE submission' = Unsent
    BY <1>1, <2>1, <2>2, UnsentKeeps
  <2>3. CASE submission' # Unsent
    <3>1. /\ submission' \in Submissions
          /\ submission'.mode = submission.mode /\ submission'.settled = submission.settled
          /\ submission'.account = submission.account
          /\ \/ submission.at = "ticker" /\ submission'.at = "block" /\ row # "absent"
             \/ /\ submission.at = "block" /\ submission'.at = "balance"
                /\ row = "blocked" => submission'.unread
             \/ /\ submission.at = "balance" /\ submission'.at = "bracket"
                /\ submission'.unread = submission.unread
      <4>1. CASE CheckKnown
        BY <1>0, <2>3, <4>1 DEF CheckKnown, Submissions
      <4>2. CASE CheckBlocked
        <5>1. submission.at = "block"
          BY <4>2 DEF CheckBlocked
        <5>2. CASE submission' = [submission EXCEPT !.at = "balance"] /\ row # "blocked"
          BY <1>0, <5>1, <5>2 DEF Submissions
        <5>3. CASE submission' = [submission EXCEPT !.at = "balance", !.unread = TRUE]
          <6> DEFINE f == [submission EXCEPT !.at = "balance"]
          <6>1. /\ f \in Submissions /\ f.at = "balance" /\ f.account = submission.account
                /\ f.mode = submission.mode /\ f.settled = submission.settled
            BY <1>0 DEF Submissions
          <6>2. submission' = [f EXCEPT !.unread = TRUE]
            BY <5>3
          <6> HIDE DEF f
          <6> QED
            BY <5>1, <6>1, <6>2 DEF Submissions
        <5> QED
          BY <2>3, <4>2, <5>2, <5>3 DEF CheckBlocked
      <4>3. CASE GetBalance
        <5>1. Account(client) \in Profile /\ submission.at = "balance"
          BY <1>0, <2>3, <4>3 DEF GetBalance, Account, Demos
        <5>2. submission' = [submission EXCEPT !.at = "bracket", !.sized = Account(client)]
          BY <2>3, <4>3 DEF GetBalance
        <5> DEFINE f == [submission EXCEPT !.at = "bracket"]
        <5>3. /\ f \in Submissions /\ f.at = "bracket" /\ f.account = submission.account
              /\ f.mode = submission.mode /\ f.settled = submission.settled
              /\ f.unread = submission.unread
          BY <1>0 DEF Submissions
        <5>4. submission' = [f EXCEPT !.sized = Account(client)]
          BY <5>2
        <5> HIDE DEF f
        <5> QED
          BY <5>1, <5>3, <5>4 DEF Submissions
      <4> QED
        BY <1>5, <4>1, <4>2, <4>3
    <3>2. ModeIsChosen' /\ TestsStillHold' /\ LiveOnlyWhenChosen'
      BY <1>2, <3>1 DEF AccountInv, ModeIsChosen, TestsStillHold, LiveOnlyWhenChosen
    <3> QED
      BY <1>1, <2>1, <3>1, <3>2, OthersKeep DEF AccountInv
  <2> QED
    BY <2>2, <2>3
<1>6. CASE PlaceBracket
  <2>1. failures' \in 0 .. MaxFailures /\ submission.at = "bracket"
    BY <1>0, <1>6 DEF PlaceBracket
  <2>2. CASE Account(client) = None
    BY <1>1, <1>6, <2>1, <2>2, UnsentKeeps DEF PlaceBracket
  <2>3. CASE Account(client) # None
    <3>1. submission' = [submission EXCEPT !.at = "placed", !.account = Account(client)]
      BY <1>6, <2>3 DEF PlaceBracket
    <3>2. /\ Account(client) \in Profile
          /\ Account(client) = "live" => client.keys = "live" /\ ~client.demo
      BY <1>0, <2>3 DEF Account, Demos, Profile
    <3> DEFINE f == [submission EXCEPT !.at = "placed"]
    <3>3. /\ f \in Submissions /\ f.at = "placed"
          /\ f.mode = submission.mode /\ f.settled = submission.settled
          /\ f.unread = submission.unread
      BY <1>0 DEF Submissions
    <3>4. submission' = [f EXCEPT !.account = Account(client)]
      BY <3>1
    <3> HIDE DEF f
    <3>5. /\ submission' \in Submissions /\ submission'.at = "placed"
          /\ submission'.mode = submission.mode /\ submission'.settled = submission.settled
          /\ submission'.account = Account(client) /\ submission'.unread = submission.unread
      BY <3>2, <3>3, <3>4 DEF Submissions
    <3>6. ModeIsChosen' /\ TestsStillHold'
      BY <1>2, <2>1, <3>5 DEF AccountInv, ModeIsChosen, TestsStillHold
    <3>7. LiveOnlyWhenChosen'
      BY <1>2, <2>1, <3>2, <3>5
      DEF AccountInv, ModeIsChosen, ClientIsChosen, LiveOnlyWhenChosen
    <3> QED
      BY <1>1, <2>1, <3>5, <3>6, <3>7, OthersKeep DEF AccountInv
  <2> QED
    BY <2>2, <2>3
<1>7. CASE Return
  BY <1>0, <1>1, <1>7, UnsentKeeps DEF Return
<1> QED
  BY <1>3, <1>4, <1>5, <1>6, <1>7 DEF SubmissionStep

\* The synchronisation files a wallet it took through the client.
LEMMA SyncKeeps ==
  ASSUME AccountInv, FetchWallet \/ PersistAccount, row' = row
  PROVE  AccountInv'
<1>1. UNCHANGED <<settingsVars, up, worker, client, refresh, submission>>
  BY DEF FetchWallet, PersistAccount
<1>2. /\ failures' \in 0 .. MaxFailures
      /\ sync' \in [at : {"idle", "row"}, wallet : Profile \cup {None}]
      /\ balance' \in [Profile -> Profile \cup {None}]
  <2>1. CASE FetchWallet
    <3>1. Account(client) \in Profile
      BY <2>1 DEF FetchWallet, Account, AccountInv, AccountTypeOK
    <3> QED
      BY <2>1, <3>1 DEF FetchWallet, AccountInv, AccountTypeOK
  <2>2. CASE PersistAccount
    <3>1. PICK p \in Values("profile") : Reads("profile", p) /\ Files(p, sync.wallet)
      BY <2>2 DEF PersistAccount
    <3>2. failures' \in 0 .. MaxFailures
      BY <3>1, ReadGives, Keys DEF AccountInv
    <3>3. balance' \in [Profile -> Profile \cup {None}]
      BY <3>1 DEF Files, AccountInv, AccountTypeOK
    <3> QED
      BY <2>2, <3>2, <3>3 DEF PersistAccount, Unsynced
  <2> QED
    BY <2>1, <2>2
<1>3. AccountTypeOK' /\ SavesProfile'
  BY <1>1, <1>2 DEF AccountInv, AccountTypeOK, SavesProfile, settingsVars
<1>4. ChangesAreNoted' /\ ClientIsChosen' /\ ReadsAreChosen' /\ ClientKeepsKeys'
  BY <1>1
  DEF AccountInv, ChangesAreNoted, ClientIsChosen, ReadsAreChosen, ClientKeepsKeys,
      Changed, settingsVars
<1>5. ModeIsChosen' /\ TestsStillHold' /\ LiveOnlyWhenChosen'
  BY <1>1 DEF AccountInv, ModeIsChosen, TestsStillHold, LiveOnlyWhenChosen, settingsVars
<1> QED
  BY <1>3, <1>4, <1>5 DEF AccountInv

\* A change of the row leaves no submission settled.
LEMMA SetRowKeeps ==
  ASSUME AccountInv, NEW r, SetRow(r)
  PROVE  AccountInv'
<1>1. /\ UNCHANGED <<settingsVars, up, worker, client, refresh, sync, balance>>
      /\ failures' \in 0 .. MaxFailures
      /\ submission' = [submission EXCEPT !.settled = FALSE]
  BY DEF SetRow, AccountInv, AccountTypeOK
<1>2. /\ submission' \in Submissions /\ ~submission'.settled
      /\ submission'.at = submission.at /\ submission'.mode = submission.mode
      /\ submission'.account = submission.account
  BY <1>1 DEF AccountInv, AccountTypeOK, Submissions
<1>3. ModeIsChosen' /\ TestsStillHold' /\ LiveOnlyWhenChosen'
  BY <1>1, <1>2
  DEF AccountInv, ModeIsChosen, TestsStillHold, LiveOnlyWhenChosen, settingsVars
<1> QED
  BY <1>1, <1>2, <1>3, OthersKeep DEF AccountInv

\* What the server does for itself.
LEMMA ServerKeeps ==
  ASSUME AccountInv, Server, row' = row
  PROVE  AccountInv'
<1>1. CASE SaveSettings \/ SwitchProfile \/ SaveKey
  BY <1>1, StoreSettingKeeps, Keys DEF SaveSettings, SwitchProfile, SaveKey
<1>2. CASE BeginSave \/ EndSave
  BY <1>2, SaveKeeps
<1>3. CASE StartServer \/ StopServer
  BY <1>3, StartServerKeeps, StopServerKeeps
<1>4. CASE \E r \in Refresher : RefreshStep(r)
  BY <1>4, RefreshKeeps
<1>5. CASE JobSubmits
  BY <1>5, BeginSubmissionKeeps DEF JobSubmits
<1>6. CASE SubmissionStep
  BY <1>6, SubmissionKeeps
<1>7. CASE SyncStep
  BY <1>7, SyncKeeps DEF SyncStep
<1> QED
  BY <1>1, <1>2, <1>3, <1>4, <1>5, <1>6, <1>7 DEF Server

\* A request changes the server as a job of its own would.
LEMMA RequestKeeps ==
  ASSUME CInv, NEW t \in Thread, RequestTrade(t) \/ RequestSync(t)
  PROVE  AccountInv' /\ ActivityInv' /\ UNCHANGED tickerVars
<1>1. /\ thread[t].at = "working" /\ Becomes(t, "waiting")
      /\ UNCHANGED <<run, held, callbacks, tickerVars>>
  BY DEF RequestTrade, RequestSync, Requests
<1>2. run' \in [Op -> {"none", "running", "success", "error"}]
  BY <1>1 DEF CInv, ActivityInv, ActivityTypeOK
<1>3. ActivityInv'
  BY <1>1, <1>2, OwnerGoesOn DEF CInv
<1>4. UNCHANGED accountVars => AccountInv'
  BY <1>1
  DEF accountVars, tickerVars, CInv, AccountInv, AccountTypeOK, SavesProfile,
      ChangesAreNoted, ClientIsChosen, ReadsAreChosen, ModeIsChosen, TestsStillHold,
      LiveOnlyWhenChosen, ClientKeepsKeys, Changed
<1>5. CASE RequestTrade(t)
  <2>1. UNCHANGED <<settingsVars, up, worker, client, refresh, sync, balance, failures>>
    BY <1>5 DEF RequestTrade
  <2>2. CASE BeginSubmission
    BY <1>1, <1>3, <2>1, <2>2, BeginSubmissionKeeps DEF CInv
  <2>3. CASE UNCHANGED submission
    BY <1>1, <1>3, <1>4, <2>1, <2>3 DEF accountVars, settingsVars
  <2> QED
    BY <1>1, <1>3, <1>5, <2>2, <2>3 DEF RequestTrade
<1>6. CASE RequestSync(t)
  <2>1. row' = row
    BY <1>1 DEF tickerVars
  <2>2. CASE FetchWallet
    BY <1>1, <1>3, <2>1, <2>2, SyncKeeps DEF CInv
  <2> QED
    BY <1>1, <1>3, <1>4, <1>6, <2>2 DEF RequestSync
<1> QED
  BY <1>1, <1>3, <1>5, <1>6

\* An edit of the table changes the row, or what a client has loaded.
LEMMA TickersKeep ==
  ASSUME CInv,
         \/ \E o \in Operator : LoadTickers(o) \/ AddTicker(o) \/ SaveTicker(o)
         \/ DeleteTicker \/ BlockTicker
  PROVE  AccountInv' /\ TickerInv' /\ UNCHANGED activityVars
<1>1. UNCHANGED activityVars
  BY DEF LoadTickers, AddTicker, SaveTicker, DeleteTicker, BlockTicker, Editing
<1>2. TickerInv'
  BY DEF CInv, TickerInv, DeletedTickerStaysOut, LoadTickers, AddTicker, SaveTicker,
         DeleteTicker, BlockTicker, SetRow
<1>3. CASE \E o \in Operator : LoadTickers(o)
  <2>1. UNCHANGED <<accountVars, row>>
    BY <1>3 DEF LoadTickers
  <2> QED
    BY <1>1, <1>2, <2>1
    DEF accountVars, CInv, AccountInv, AccountTypeOK, SavesProfile,
        ChangesAreNoted, ClientIsChosen, ReadsAreChosen, ModeIsChosen, TestsStillHold,
        LiveOnlyWhenChosen, ClientKeepsKeys, Changed
<1>4. CASE \/ \E o \in Operator : AddTicker(o) \/ SaveTicker(o)
          \/ DeleteTicker \/ BlockTicker
  <2>1. \E r \in {"open", "absent", "blocked"} : SetRow(r)
    BY <1>4 DEF AddTicker, SaveTicker, DeleteTicker, BlockTicker
  <2> QED
    BY <1>1, <1>2, <2>1, SetRowKeeps DEF CInv
<1> QED
  BY <1>3, <1>4

LEMMA CInvStep == CInv /\ [Next]_vars => CInv'
<1> SUFFICES ASSUME CInv, [Next]_vars PROVE CInv'
  OBVIOUS
<1>1. UNCHANGED activityVars => ActivityInv'
  BY DEF activityVars, CInv, ActivityInv, ActivityTypeOK, OneOwner, Owns
<1>2. UNCHANGED tickerVars => TickerInv'
  BY DEF tickerVars, CInv, TickerInv, DeletedTickerStaysOut
<1>3. UNCHANGED <<accountVars, row>> => AccountInv'
  BY DEF accountVars, CInv, AccountInv, AccountTypeOK, SavesProfile,
         ChangesAreNoted, ClientIsChosen, ReadsAreChosen, ModeIsChosen, TestsStillHold,
         LiveOnlyWhenChosen, ClientKeepsKeys, Changed
<1>4. CASE Server /\ UNCHANGED <<activityVars, tickerVars>>
  <2>1. row' = row
    BY <1>4 DEF tickerVars
  <2> QED
    BY <1>1, <1>2, <1>4, <2>1, ServerKeeps DEF CInv
<1>5. CASE ClientSteps
  <2>1. UNCHANGED <<accountVars, tickerVars>>
    BY <1>5 DEF ClientSteps
  <2>2. PICK t \in Thread : \/ PlaceTrade(t) \/ SyncAccounts(t)
                            \/ Reports(t) \/ CallsFinished(t) \/ DropsCallbacks(t)
    BY <1>5 DEF ClientSteps, Activity
  <2>3. ActivityInv'
    BY <2>2, ConsoleAssumption, ClickKeeps, ReportsKeeps, FinishedKeeps, DropsKeeps
    DEF CInv, PlaceTrade, SyncAccounts, ConsoleAssumption
  <2> QED
    BY <1>2, <1>3, <2>1, <2>3 DEF CInv, tickerVars
<1>6. CASE \E t \in Thread : RequestTrade(t) \/ RequestSync(t)
  BY <1>2, <1>6, RequestKeeps DEF CInv
<1>7. CASE \/ \E o \in Operator : LoadTickers(o) \/ AddTicker(o) \/ SaveTicker(o)
           \/ DeleteTicker \/ BlockTicker
  BY <1>1, <1>7, TickersKeep DEF CInv
<1>8. CASE UNCHANGED vars
  BY <1>1, <1>2, <1>3, <1>8 DEF vars, tickerVars, CInv
<1> QED
  BY <1>4, <1>5, <1>6, <1>7, <1>8 DEF Next

LEMMA CInvHolds == Spec => []CInv
BY InitCInv, CInvStep, PTL DEF Spec

-----------------------------------------------------------------------------
\* Settings stored one key at a time, reads that fail, a client remade by jobs
\* between two steps of a submission, keys being written, restarts: in every
\* reachable state the order that is placed is one the operator's settings send
\* where it goes, and no client has lost its keys.
THEOREM OrdersAlwaysFollowSettings == Spec => []OrdersFollowSettings
<1>1. CInv => OrdersFollowSettings
  <2> SUFFICES ASSUME CInv PROVE OrdersFollowSettings
    OBVIOUS
  <2>1. TypeOK
    BY DEF CInv, AccountInv, ActivityInv, TickerInv, TypeOK
  <2>2. SettingsObeyed
    BY DEF CInv, AccountInv, ModeIsChosen, TestsStillHold, SettingsObeyed
  <2>3. LiveOnlyWhenChosen /\ ClientKeepsKeys
    BY DEF CInv, AccountInv
  <2> QED
    BY <2>1, <2>2, <2>3 DEF OrdersFollowSettings
<1> QED
  BY <1>1, CInvHolds, PTL

\* With any number of threads and operations, a control is held as long as a task
\* it started is at work, and a ticker that was deleted stays out of the table
\* whatever tables the other clients save.
THEOREM TabsAreAlwaysTrue == Spec => []TabsAreTrue
<1>1. CInv => TabsAreTrue
  BY DEF CInv, ActivityInv, TickerInv, OneOwner, Owns, TabsAreTrue, HeldWhileWorking,
         HeldAtWork
<1> QED
  BY <1>1, CInvHolds, PTL

\* Of all threads of an operation one at most is between its start and its call
\* of on_finished: no operation is run twice at once.
THEOREM OperationsHaveOneOwner == Spec => []OneOwner
BY CInvHolds, PTL DEF CInv, ActivityInv
=============================================================================
