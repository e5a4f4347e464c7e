---------------------------- MODULE SyncScheduler ----------------------------
(***************************************************************************)
(* Who starts a synchronization, and when (SynchronizerNotifier of         *)
(* lib/store.dart): autoSync, which calls itself again by a timer, the     *)
(* Sync buttons and the pages of FROST, all through startSynchronize,      *)
(* which tries again after an error; and the lock SYNCING and the sender   *)
(* CANCEL_SYNC on the side of Rust.                                        *)
(*                                                                         *)
(* Dart runs one piece of code at a time, from one await to the next: a    *)
(* step of the model.  What a run does with the chain and the tables is in *)
(* WarpSync; here it brings its accounts to the height it was given, or    *)
(* fails, or is cancelled, or its stream ends early and it is taken for    *)
(* done.                                                                   *)
(***************************************************************************)
EXTENDS Integers, FiniteSets

CONSTANTS
    Account,     \* the accounts that are enabled
    User,        \* calls of startSynchronize from buttons and pages
    MaxTip,      \* bound: height of the chain
    Scenarios    \* interval, and how often each event occurs

Automatic == "auto"
Caller == User \union {Automatic}
Events == {"fails", "cuts", "presses", "cancels", "types", "frost"}
Frost  == "frost"
Nobody == "nobody"

ASSUME CallerAssumption == User \intersect {Automatic, Frost, Nobody} = {}
ASSUME ScenarioAssumption ==
    /\ MaxTip \in Nat \ {0}
    /\ Scenarios \subseteq [interval : Nat, times : [Events -> Nat]]

VARIABLES
    scenario,
    \* SynchronizerNotifier
    syncInProgress,
    autoAt,        \* where autoSync stands; _autoSyncActive when not "idle"
    known,         \* currentHeight of autoSync
    timers,        \* timers that will call autoSync
    call,          \* the calls of startSynchronize
    field,         \* syncProgressSubscription: the caller whose run it is of
    listening,     \* the callers whose subscription is not cancelled
    \* providers and settings
    shown,         \* getAccountsProvider: heights that were read, or NoHeights
    interval,      \* sync_interval of the settings
    saving,        \* the interval that is being saved, or -1
    \* Rust
    syncing,       \* who holds SYNCING
    run,           \* where synchronize_impl stands, for each caller
    stream,        \* what a run has sent to its stream at its end
    height, tip,
    left

autoVars == <<autoAt, known, timers>>
loopVars == <<syncInProgress, call, field, listening>>
runVars  == <<syncing, run, stream, height>>
userVars == <<interval, saving, tip, left>>
vars     == <<scenario, autoVars, loopVars, shown, runVars, userVars>>

NoHeights == [a \in Account |-> -1]
NoCall    == [at |-> "idle", accounts |-> {}, target |-> 0]
Phases    == {"none", "called", "scan", "between", "stream", "end"}

Spend(event) == left[event] > 0 /\ left' = [left EXCEPT ![event] = @ - 1]

----------------------------------------------------------------------------
(* autoSync.  A call while another one is active does nothing, and sets no *)
(* timer.                                                                  *)
CallAutoSync == autoAt' = IF autoAt = "idle" THEN "settings" ELSE autoAt

Timer ==
    /\ timers > 0
    /\ timers' = timers - 1
    /\ CallAutoSync
    /\ UNCHANGED <<known, loopVars, shown, runVars, userVars>>

(* An interval of 0 ends it, without a timer.                              *)
ReadInterval ==
    /\ autoAt = "settings"
    /\ autoAt' = IF interval = 0 THEN "idle" ELSE "height"
    /\ UNCHANGED <<known, timers, loopVars, shown, runVars, userVars>>

(* Mutant: no timer is set when the height cannot be read.                 *)
EndWithoutTimer == autoAt' = "idle" /\ UNCHANGED timers

(* finally: a timer for the next call.                                     *)
EndAutoSync == autoAt' = "idle" /\ timers' = timers + 1

ReadHeight ==
    /\ autoAt = "height"
    /\ autoAt' = "accounts" /\ known' = tip
    /\ UNCHANGED <<timers, loopVars, shown, runVars, userVars>>

ReadHeightFails ==
    /\ autoAt = "height" /\ Spend("fails")
    /\ EndAutoSync
    /\ UNCHANGED <<known, loopVars, shown, runVars, interval, saving, tip>>

(* Mutant: a call does not look whether there is one in progress.          *)
StartAnyway(c, accounts) ==
    /\ syncInProgress' = TRUE
    /\ call' = [call EXCEPT ![c] = [at |-> "height", accounts |-> accounts, target |-> 0]]
    /\ UNCHANGED <<field, listening>>

(* startSynchronize, up to its first await.                                *)
Start(c, accounts) ==
    /\ ~syncInProgress
    /\ syncInProgress' = TRUE
    /\ call' = [call EXCEPT ![c] = [at |-> "height", accounts |-> accounts, target |-> 0]]
    /\ UNCHANGED <<field, listening>>

(* syncIfNeeded: the accounts that are behind, by the heights that were    *)
(* read last or, when no page shows them, are read now.                    *)
Heights == IF shown = NoHeights THEN {height} ELSE {shown, height}
Behind(heights) == {a \in Account : known - heights[a] >= interval}

SyncIfNeeded ==
    /\ autoAt = "accounts"
    /\ shown' \in Heights
    /\ IF Behind(shown') # {} /\ ~syncInProgress
       THEN Start(Automatic, Behind(shown')) /\ autoAt' = "sync" /\ UNCHANGED timers
       ELSE EndAutoSync /\ UNCHANGED loopVars
    /\ UNCHANGED <<known, runVars, userVars>>

----------------------------------------------------------------------------
(* The loop of startSynchronize.  The run is called, and the subscription  *)
(* that is in the field cancelled, whosever it is.                         *)
Cancelled == listening \ {field}

Synchronize(c) ==
    /\ call[c].at = "height"
    /\ call' = [call EXCEPT ![c].at = "listen", ![c].target = tip]
    /\ run' = [run EXCEPT ![c] = "called"]
    /\ stream' = [stream EXCEPT ![c] = "open"]
    /\ listening' = Cancelled
    /\ UNCHANGED <<syncInProgress, field, autoVars, shown, syncing, height, userVars>>

SynchronizeFails(c) ==
    /\ call[c].at = "height" /\ Spend("fails")
    /\ call' = [call EXCEPT ![c].at = "dialog"]
    /\ UNCHANGED <<syncInProgress, field, listening, autoVars, shown, runVars, interval, saving, tip>>

Listen(c) ==
    /\ call[c].at = "listen"
    /\ call' = [call EXCEPT ![c].at = "run"]
    /\ field' = c
    /\ listening' = listening \union {c}
    /\ UNCHANGED <<syncInProgress, autoVars, shown, runVars, userVars>>

(* onDone: "Synchronization Completed".                                    *)
Completed(c) ==
    /\ call[c].at = "run" /\ c \in listening /\ stream[c] = "done"
    /\ call' = [call EXCEPT ![c] = NoCall]
    /\ syncInProgress' = FALSE
    /\ listening' = Cancelled \ {c}
    /\ field' = Nobody
    /\ shown' = NoHeights
    /\ stream' = [stream EXCEPT ![c] = "none"]
    /\ IF c = Automatic THEN EndAutoSync ELSE UNCHANGED <<autoAt, timers>>
    /\ UNCHANGED <<known, syncing, run, height, userVars>>

(* onError: the dialog, and the delay after it.                            *)
Failed(c) ==
    /\ call[c].at = "run" /\ c \in listening /\ stream[c] = "error"
    /\ call' = [call EXCEPT ![c].at = "dialog"]
    /\ listening' = listening \ {c}
    /\ stream' = [stream EXCEPT ![c] = "none"]
    /\ UNCHANGED <<syncInProgress, field, autoVars, shown, syncing, run, height, userVars>>

(* finally clears the flag, and the loop goes on.                          *)
Retry(c) ==
    /\ call[c].at = "dialog"
    /\ call' = [call EXCEPT ![c].at = "height"]
    /\ syncInProgress' = FALSE
    /\ UNCHANGED <<field, listening, autoVars, shown, runVars, userVars>>

----------------------------------------------------------------------------
(* synchronize_impl.  When the lock is taken it returns without an error.  *)
RunStarts(c) ==
    /\ run[c] = "called"
    /\ IF syncing = Nobody
       THEN syncing' = c /\ run' = [run EXCEPT ![c] = "scan"] /\ UNCHANGED stream
       ELSE run' = [run EXCEPT ![c] = "none"] /\ stream' = [stream EXCEPT ![c] = "done"]
            /\ UNCHANGED syncing
    /\ UNCHANGED <<autoVars, loopVars, shown, height, userVars>>

(* transparent_sync and shielded_sync, each with a receiver of its own.    *)
RunGoesOn(c) ==
    /\ run[c] \in {"scan", "between"}
    /\ run' = [run EXCEPT ![c] = IF @ = "scan" THEN "between" ELSE "stream"]
    /\ UNCHANGED <<syncing, stream, height, autoVars, loopVars, shown, userVars>>

RunEnds(c, result) ==
    /\ run' = [run EXCEPT ![c] = "none"]
    /\ stream' = [stream EXCEPT ![c] = result]
    /\ syncing' = Nobody

Larger(a, b) == IF a > b THEN a ELSE b

(* Mutant: the height recorded is that of the next block to read.          *)
ReachedNext(c, accounts) ==
    [a \in Account |-> IF a \in accounts THEN call[c].target + 1 ELSE height[a]]

Reached(c, accounts) ==
    [a \in Account |-> IF a \in accounts THEN Larger(height[a], call[c].target) ELSE height[a]]

RunSucceeds(c) ==
    /\ run[c] = "stream"
    /\ RunEnds(c, "done")
    /\ height' = Reached(c, call[c].accounts)
    /\ UNCHANGED <<autoVars, loopVars, shown, userVars>>

(* What a run that does not get to its end leaves: heights that were       *)
(* committed, or those that a reorganization has taken accounts back to.   *)
PartWay(c) ==
    {h \in [Account -> 0 .. MaxTip] : \A a \in Account :
        h[a] # height[a] => a \in call[c].accounts /\ h[a] <= call[c].target}

RunFails(c) ==
    /\ run[c] \in {"scan", "between", "stream"} /\ Spend("fails")
    /\ RunEnds(c, "error")
    /\ height' \in PartWay(c)
    /\ UNCHANGED <<autoVars, loopVars, shown, interval, saving, tip>>

(* A reorganization, StallAbort or a lost connection ends the stream       *)
(* without an error, and shielded_sync returns Ok.                         *)
RunIsCut(c) ==
    /\ run[c] = "stream" /\ Spend("cuts")
    /\ RunEnds(c, "done")
    /\ height' \in PartWay(c)
    /\ UNCHANGED <<autoVars, loopVars, shown, interval, saving, tip>>

(* cancel_sync reaches the receivers there are: the scan fails, the stream *)
(* ends early and the run is taken for done, and in between nobody hears.  *)
CancelRun ==
    IF \E c \in Caller : run[c] \in {"scan", "stream"}
    THEN \E c \in Caller :
            /\ run[c] \in {"scan", "stream"}
            /\ RunEnds(c, IF run[c] = "scan" THEN "error" ELSE "done")
            /\ height' \in PartWay(c)
    ELSE UNCHANGED runVars

(* do_dkg_impl and do_sign_impl take the lock too.                         *)
FrostTakes ==
    /\ syncing = Nobody /\ Spend("frost")
    /\ syncing' = Frost
    /\ UNCHANGED <<autoVars, loopVars, shown, run, stream, height, interval, saving, tip>>

FrostReleases ==
    /\ syncing = Frost
    /\ syncing' = Nobody
    /\ UNCHANGED <<autoVars, loopVars, shown, run, stream, height, userVars>>

----------------------------------------------------------------------------
(* The user, and the chain.                                                *)
Press(c, accounts) ==
    /\ call[c].at = "idle" /\ run[c] = "none" /\ Spend("presses")
    /\ Start(c, accounts)
    /\ UNCHANGED <<autoVars, shown, runVars, interval, saving, tip>>

(* onChangedSyncInterval: the settings are saved in the background, and    *)
(* autoSync is called at once if the interval is not 0.                    *)
TypeInterval(n) ==
    /\ saving = -1 /\ Spend("types")
    /\ saving' = n
    /\ IF n > 0 THEN CallAutoSync ELSE UNCHANGED autoAt
    /\ UNCHANGED <<known, timers, loopVars, shown, runVars, interval, tip>>

SaveInterval ==
    /\ saving # -1
    /\ interval' = saving /\ saving' = -1
    /\ UNCHANGED <<autoVars, loopVars, shown, runVars, tip, left>>

(* onCancelSync sets the interval to 0, and cancels the run.               *)
CancelSync ==
    /\ saving = -1 /\ Spend("cancels")
    /\ saving' = 0
    /\ CancelRun
    /\ UNCHANGED <<autoVars, loopVars, shown, interval, tip>>

Mine ==
    /\ tip < MaxTip
    /\ tip' = tip + 1
    /\ UNCHANGED <<autoVars, loopVars, shown, runVars, interval, saving, left>>

----------------------------------------------------------------------------
(* The application has started: splash.dart calls autoSync.                *)
Init ==
    /\ scenario \in Scenarios
    /\ syncInProgress = FALSE
    /\ autoAt = "settings" /\ known = 0 /\ timers = 0
    /\ call = [c \in Caller |-> NoCall]
    /\ field = Nobody /\ listening = {}
    /\ shown = NoHeights
    /\ interval = scenario.interval /\ saving = -1
    /\ syncing = Nobody
    /\ run = [c \in Caller |-> "none"]
    /\ stream = [c \in Caller |-> "none"]
    /\ height = [a \in Account |-> 0]
    /\ tip = 1
    /\ left = scenario.times

AutoSync == Timer \/ ReadInterval \/ ReadHeight \/ SyncIfNeeded
Loop(c)  == Synchronize(c) \/ Listen(c) \/ Completed(c) \/ Failed(c) \/ Retry(c)
Run(c)   == RunStarts(c) \/ RunGoesOn(c) \/ RunSucceeds(c)
Fault    == ReadHeightFails \/ \E c \in Caller : SynchronizeFails(c) \/ RunFails(c) \/ RunIsCut(c)
Users    ==
    \/ \E c \in User, accounts \in SUBSET Account \ {{}} : Press(c, accounts)
    \/ \E n \in 0 .. MaxTip : TypeInterval(n)
    \/ CancelSync

Next ==
    /\ UNCHANGED scenario
    /\ \/ AutoSync \/ Fault \/ Users \/ Mine
       \/ \E c \in Caller : Loop(c) \/ Run(c)
       \/ SaveInterval \/ FrostTakes \/ FrostReleases

Spec == Init /\ [][Next]_vars

(* The event loop comes to every timer and every answer, the user closes   *)
(* the dialogs, a run goes on as long as it can.                           *)
FairSpec ==
    /\ Spec
    /\ WF_vars(AutoSync /\ UNCHANGED scenario)
    /\ \A c \in Caller :
        WF_vars(Loop(c) /\ UNCHANGED scenario) /\ WF_vars(Run(c) /\ UNCHANGED scenario)
    /\ WF_vars(SaveInterval /\ UNCHANGED scenario)
    /\ WF_vars(FrostReleases /\ UNCHANGED scenario)

----------------------------------------------------------------------------
TypeOK ==
    /\ scenario \in Scenarios
    /\ syncInProgress \in BOOLEAN
    /\ autoAt \in {"idle", "settings", "height", "accounts", "sync"}
    /\ known \in 0 .. MaxTip /\ timers \in Nat
    /\ call \in [Caller -> [at : {"idle", "height", "listen", "run", "dialog"},
                            accounts : SUBSET Account, target : 0 .. MaxTip]]
    /\ field \in Caller \union {Nobody} /\ listening \subseteq Caller
    /\ shown \in [Account -> -1 .. MaxTip]
    /\ interval \in Nat /\ saving \in Nat \union {-1}
    /\ syncing \in Caller \union {Frost, Nobody}
    /\ run \in [Caller -> Phases]
    /\ stream \in [Caller -> {"none", "open", "done", "error"}]
    /\ height \in [Account -> 0 .. MaxTip] /\ tip \in 0 .. MaxTip

(* No call is made while another one tries again after an error.           *)
OneLoop ==
    scenario.times["presses"] = 0 \/ scenario.times["fails"] + scenario.times["cancels"] = 0

(* Calls do not get in the way of each other: nobody waits for a           *)
(* subscription that another call has cancelled, and no run is turned away *)
(* because another call holds the lock, which would be reported as         *)
(* "Synchronization Completed".  startSynchronize cancels whatever         *)
(* subscription is in the field, and synchronize_impl returns without an   *)
(* error when the lock is taken; only syncInProgress, and autoSync waiting *)
(* for its own call, keep calls apart.                                     *)
CallsDoNotCollide ==
    OneLoop => \A c \in Caller :
        /\ call[c].at = "run" => c \in listening
        /\ run[c] = "called" => syncing \notin Caller

(* The accounts that are behind by the interval are synchronized in the    *)
(* end, and every call has returned, whatever failed and whoever held the  *)
(* lock: autoSync goes on.                                                 *)
Synced == interval > 0 => \A a \in Account : tip - height[a] < interval

EventuallySynced ==
    OneLoop /\ scenario.times["types"] = 0 /\ scenario.times["cancels"] = 0 =>
        <>[](Synced /\ \A c \in Caller : call[c].at = "idle")

(* What the settings page says of autoSync: accounts that are behind by    *)
(* the interval start to synchronize.  The code breaks it when a call is   *)
(* made while another one tries again: the subscription of one of them is  *)
(* cancelled, it waits for ever, and when it is that of autoSync no timer  *)
(* is set any more.                                                        *)
AutoSyncs == <>[]Synced
=============================================================================
