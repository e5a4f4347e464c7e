------------------------ MODULE SyncScheduler_proofs -------------------------
(***************************************************************************)
(* Proofs about the scheduling of synchronizations: types, and that calls  *)
(* of startSynchronize do not get in the way of each other, for any        *)
(* accounts, callers, heights and scenarios.                               *)
(*                                                                         *)
(* A call that waits has its own subscription in the field, and another    *)
(* call would cancel it; a run that finds the lock taken ends like one     *)
(* that has done its work.  Neither happens as long as one call is on its  *)
(* way at a time.  There is one because the flag syncInProgress is set     *)
(* during a call, or, after an error has cleared it, because only autoSync *)
(* makes calls, and it waits for the one it made.                          *)
(***************************************************************************)
EXTENDS SyncScheduler, TLAPS

(* The budgets of the scenario: what may not happen never will.            *)
Budget ==
    /\ left \in [Events -> Nat]
    /\ \A e \in Events : scenario.times[e] = 0 => left[e] = 0

Active(c)  == call[c].at # "idle"
Holding(c) == run[c] \in {"scan", "between", "stream"}

(* A run belongs to a call that waits for it, and the lock to a run; the   *)
(* stream has a result when the run is over.                               *)
Calls ==
    \A c \in Caller :
        /\ stream[c] # "none" <=> call[c].at \in {"listen", "run"}
        /\ run[c] # "none" => stream[c] = "open"
        /\ Holding(c) <=> syncing = c

(* autoSync waits for its own call.                                        *)
AutoWaits == Active(Automatic) <=> autoAt = "sync"

(* Either errors happen, and then only autoSync makes calls; or they do    *)
(* not, and then the flag is set as long as a call is on its way.          *)
OneCall ==
    /\ \A c, d \in Caller : Active(c) /\ Active(d) => c = d
    /\ scenario.times["presses"] = 0 => \A c \in User : ~Active(c)
    /\ scenario.times["presses"] # 0 =>
         \A c \in Caller : /\ Active(c) => syncInProgress /\ call[c].at # "dialog"
                           /\ stream[c] # "error"

(* Who waits for a run is subscribed to its stream.                        *)
Heard == \A c \in Caller : call[c].at = "run" => c \in listening

SchedInv ==
    /\ TypeOK
    /\ Budget
    /\ Calls
    /\ AutoWaits
    /\ OneLoop => OneCall /\ Heard

-------------------------------------------------------------------------------
(* Helpers.                                                                *)
LEMMA Callers ==
    /\ Automatic \in Caller /\ User \subseteq Caller
    /\ Frost \notin Caller /\ Nobody \notin Caller /\ Automatic \notin User /\ Frost # Nobody
    /\ MaxTip \in Nat /\ 0 \in 0 .. MaxTip /\ 1 \in 0 .. MaxTip
    /\ \A s \in Scenarios : s.interval \in Nat /\ s.times \in [Events -> Nat]
<1>1. Automatic # Frost /\ Automatic # Nobody /\ Frost # Nobody
  BY DEF Automatic, Frost, Nobody
<1>2. MaxTip \in Nat /\ 0 \in 0 .. MaxTip /\ 1 \in 0 .. MaxTip
  BY ScenarioAssumption
<1>3. \A s \in Scenarios : s.interval \in Nat /\ s.times \in [Events -> Nat]
  BY ScenarioAssumption
<1> QED
  BY <1>1, <1>2, <1>3, CallerAssumption DEF Caller

LEMMA BudgetKept ==
    ASSUME Budget, UNCHANGED scenario
    PROVE  /\ UNCHANGED left => Budget'
           /\ \A e \in Events : Spend(e) => Budget' /\ scenario.times[e] # 0
<1>1. UNCHANGED left => Budget'
  BY DEF Budget
<1>2. ASSUME NEW e \in Events, Spend(e) PROVE Budget' /\ scenario.times[e] # 0
  <2>1. left[e] \in Nat /\ left[e] > 0 /\ scenario.times[e] # 0
    BY <1>2 DEF Spend, Budget
  <2>2. left' \in [Events -> Nat]
    BY <1>2, <2>1 DEF Spend, Budget
  <2>3. \A f \in Events : scenario'.times[f] = 0 => left'[f] = 0
    BY <1>2, <2>1 DEF Spend, Budget
  <2> QED
    BY <2>1, <2>2, <2>3 DEF Budget
<1> QED
  BY <1>1, <1>2

LEMMA EventNames ==
    "fails" \in Events /\ "cuts" \in Events /\ "presses" \in Events /\ "cancels" \in Events
    /\ "types" \in Events /\ "frost" \in Events
BY DEF Events

(* What a step does not change when it is not about calls and runs.        *)
LEMMA Aside ==
    ASSUME SchedInv, UNCHANGED <<scenario, call, run, stream, syncing, syncInProgress, listening>>,
           TypeOK', Budget', autoAt' = "sync" <=> autoAt = "sync"
    PROVE  SchedInv'
<1>1. Calls' /\ AutoWaits'
  BY DEF SchedInv, Calls, AutoWaits, Active, Holding
<1>2. OneLoop' => OneCall' /\ Heard'
  BY DEF SchedInv, OneLoop, OneCall, Heard, Active
<1> QED
  BY <1>1, <1>2 DEF SchedInv

LEMMA StepTimer ==
    ASSUME SchedInv, UNCHANGED scenario, Timer \/ ReadInterval \/ ReadHeight
    PROVE  SchedInv'
<1>1. TypeOK'
  BY DEF SchedInv, TypeOK, Timer, CallAutoSync, ReadInterval, ReadHeight, loopVars, runVars, userVars
<1>2. Budget'
  BY BudgetKept DEF SchedInv, Timer, ReadInterval, ReadHeight, userVars
<1>3. autoAt' = "sync" <=> autoAt = "sync"
  BY DEF Timer, CallAutoSync, ReadInterval, ReadHeight
<1>4. UNCHANGED <<scenario, call, run, stream, syncing, syncInProgress, listening>>
  BY DEF Timer, ReadInterval, ReadHeight, loopVars, runVars
<1> QED
  BY <1>1, <1>2, <1>3, <1>4, Aside

LEMMA StepReadHeightFails ==
    ASSUME SchedInv, UNCHANGED scenario, ReadHeightFails
    PROVE  SchedInv'
<1>1. TypeOK'
  BY DEF SchedInv, TypeOK, ReadHeightFails, EndAutoSync, loopVars, runVars
<1>2. Budget'
  BY BudgetKept, EventNames DEF SchedInv, ReadHeightFails
<1>3. autoAt' = "sync" <=> autoAt = "sync"
  BY DEF ReadHeightFails, EndAutoSync
<1>4. UNCHANGED <<scenario, call, run, stream, syncing, syncInProgress, listening>>
  BY DEF ReadHeightFails, loopVars, runVars
<1> QED
  BY <1>1, <1>2, <1>3, <1>4, Aside

LEMMA StepUser ==
    ASSUME SchedInv, UNCHANGED scenario,
           (\E n \in 0 .. MaxTip : TypeInterval(n)) \/ SaveInterval \/ Mine
    PROVE  SchedInv'
<1>1. TypeOK'
  BY Callers DEF SchedInv, TypeOK, TypeInterval, CallAutoSync, SaveInterval, Mine,
     autoVars, loopVars, runVars
<1>2. Budget'
  BY BudgetKept, EventNames DEF SchedInv, TypeInterval, SaveInterval, Mine
<1>3. autoAt' = "sync" <=> autoAt = "sync"
  BY DEF TypeInterval, CallAutoSync, SaveInterval, Mine, autoVars
<1>4. UNCHANGED <<scenario, call, run, stream, syncing, syncInProgress, listening>>
  BY DEF TypeInterval, SaveInterval, Mine, loopVars, runVars
<1> QED
  BY <1>1, <1>2, <1>3, <1>4, Aside

LEMMA StepSynchronize ==
    ASSUME SchedInv, UNCHANGED scenario, NEW c \in Caller, Synchronize(c)
    PROVE  SchedInv'
<1>1. TypeOK'
  <2>1. /\ call' \in [Caller -> [at : {"idle", "height", "listen", "run", "dialog"},
                                accounts : SUBSET Account, target : 0 .. MaxTip]]
        /\ listening' \subseteq Caller
    BY DEF SchedInv, TypeOK, Synchronize, Cancelled
  <2>2. run' \in [Caller -> Phases] /\ stream' \in [Caller -> {"none", "open", "done", "error"}]
    BY DEF SchedInv, TypeOK, Synchronize, Phases
  <2> QED
    BY <2>1, <2>2 DEF SchedInv, TypeOK, Synchronize, autoVars, userVars
<1>2. Budget'
  BY BudgetKept, EventNames DEF SchedInv, Synchronize, userVars
<1>3. Calls'
  BY Callers DEF SchedInv, TypeOK, Calls, Holding, Synchronize, autoVars
<1>4. AutoWaits'
  BY Callers DEF SchedInv, TypeOK, AutoWaits, Active, Synchronize, autoVars
<1>5. ASSUME OneLoop PROVE OneCall' /\ Heard'
  <2>1. OneCall'
    BY <1>5, Callers DEF SchedInv, TypeOK, OneCall, Active, Calls, Holding, AutoWaits, OneLoop, Synchronize, autoVars
  <2>2. Heard'
    BY <1>5, Callers DEF SchedInv, TypeOK, Heard, OneCall, Active, Calls, Holding, Synchronize, autoVars
  <2> QED
    BY <2>1, <2>2
<1>6. OneLoop' <=> OneLoop
  BY DEF OneLoop
<1> QED
  BY <1>1, <1>2, <1>3, <1>4, <1>5, <1>6 DEF SchedInv

LEMMA StepSynchronizeFails ==
    ASSUME SchedInv, UNCHANGED scenario, NEW c \in Caller, SynchronizeFails(c)
    PROVE  SchedInv'
<1>1. TypeOK'
  BY Callers DEF SchedInv, TypeOK, SynchronizeFails, autoVars, runVars
<1>2. Budget'
  BY BudgetKept, EventNames DEF SchedInv, SynchronizeFails, runVars
<1>3. Calls'
  BY Callers DEF SchedInv, TypeOK, Calls, Holding, SynchronizeFails, autoVars, runVars
<1>4. AutoWaits'
  BY Callers DEF SchedInv, TypeOK, AutoWaits, Active, SynchronizeFails, autoVars, runVars
<1>5. ASSUME OneLoop PROVE OneCall' /\ Heard'
  <2>1. OneCall'
    BY <1>5, Callers, BudgetKept, EventNames DEF SchedInv, TypeOK, OneCall, Active, Calls, Holding, AutoWaits, OneLoop, SynchronizeFails, autoVars, runVars
  <2>2. Heard'
    BY <1>5, Callers DEF SchedInv, TypeOK, Heard, OneCall, Active, Calls, Holding, SynchronizeFails, autoVars, runVars
  <2> QED
    BY <2>1, <2>2
<1>6. OneLoop' <=> OneLoop
  BY DEF OneLoop
<1> QED
  BY <1>1, <1>2, <1>3, <1>4, <1>5, <1>6 DEF SchedInv

LEMMA StepListen ==
    ASSUME SchedInv, UNCHANGED scenario, NEW c \in Caller, Listen(c)
    PROVE  SchedInv'
<1>1. TypeOK'
  BY Callers DEF SchedInv, TypeOK, Listen, autoVars, runVars, userVars
<1>2. Budget'
  BY BudgetKept, EventNames DEF SchedInv, Listen, userVars
<1>3. Calls'
  BY Callers DEF SchedInv, TypeOK, Calls, Holding, Listen, autoVars, runVars
<1>4. AutoWaits'
  BY Callers DEF SchedInv, TypeOK, AutoWaits, Active, Listen, autoVars, runVars
<1>5. ASSUME OneLoop PROVE OneCall' /\ Heard'
  <2>1. OneCall'
    BY <1>5, Callers DEF SchedInv, TypeOK, OneCall, Active, Calls, Holding, AutoWaits, OneLoop, Listen, autoVars, runVars
  <2>2. Heard'
    BY <1>5, Callers DEF SchedInv, TypeOK, Heard, OneCall, Active, Calls, Holding, Listen, autoVars, runVars
  <2> QED
    BY <2>1, <2>2
<1>6. OneLoop' <=> OneLoop
  BY DEF OneLoop
<1> QED
  BY <1>1, <1>2, <1>3, <1>4, <1>5, <1>6 DEF SchedInv

LEMMA StepCompleted ==
    ASSUME SchedInv, UNCHANGED scenario, NEW c \in Caller, Completed(c)
    PROVE  SchedInv'
<1>1. TypeOK'
  <2>1. NoCall \in [at : {"idle", "height", "listen", "run", "dialog"},
                   accounts : SUBSET Account, target : 0 .. MaxTip]
    BY Callers DEF NoCall
  <2>2. call' \in [Caller -> [at : {"idle", "height", "listen", "run", "dialog"},
                             accounts : SUBSET Account, target : 0 .. MaxTip]]
    BY <2>1 DEF SchedInv, TypeOK, Completed
  <2>3. shown' \in [Account -> -1 .. MaxTip]
    BY Callers DEF Completed, NoHeights
  <2>4. stream' \in [Caller -> {"none", "open", "done", "error"}] /\ listening' \subseteq Caller
    BY DEF SchedInv, TypeOK, Completed, Cancelled
  <2>5. autoAt' \in {"idle", "settings", "height", "accounts", "sync"} /\ timers' \in Nat
    BY DEF SchedInv, TypeOK, Completed, EndAutoSync
  <2> QED
    BY <2>2, <2>3, <2>4, <2>5 DEF SchedInv, TypeOK, Completed, userVars
<1>2. Budget'
  BY BudgetKept, EventNames DEF SchedInv, Completed, userVars
<1>3. Calls'
  BY Callers DEF SchedInv, TypeOK, Calls, Holding, Completed, EndAutoSync, NoCall
<1>4. AutoWaits'
  BY Callers DEF SchedInv, TypeOK, AutoWaits, Active, Completed, EndAutoSync, NoCall
<1>5. ASSUME OneLoop PROVE OneCall' /\ Heard'
  <2>1. OneCall'
    BY <1>5, Callers DEF SchedInv, TypeOK, OneCall, Active, Calls, Holding, AutoWaits, OneLoop, Completed, EndAutoSync, NoCall
  <2>2. Heard'
    BY <1>5, Callers DEF SchedInv, TypeOK, Heard, OneCall, Active, Calls, Holding, Completed, EndAutoSync, NoCall
  <2> QED
    BY <2>1, <2>2
<1>6. OneLoop' <=> OneLoop
  BY DEF OneLoop
<1> QED
  BY <1>1, <1>2, <1>3, <1>4, <1>5, <1>6 DEF SchedInv

LEMMA StepFailed ==
    ASSUME SchedInv, UNCHANGED scenario, NEW c \in Caller, Failed(c)
    PROVE  SchedInv'
<1>1. TypeOK'
  BY Callers DEF SchedInv, TypeOK, Failed, autoVars, userVars
<1>2. Budget'
  BY BudgetKept, EventNames DEF SchedInv, Failed, userVars
<1>3. Calls'
  BY Callers DEF SchedInv, TypeOK, Calls, Holding, Failed, autoVars
<1>4. AutoWaits'
  BY Callers DEF SchedInv, TypeOK, AutoWaits, Active, Failed, autoVars
<1>5. ASSUME OneLoop PROVE OneCall' /\ Heard'
  <2>1. OneCall'
    BY <1>5, Callers DEF SchedInv, TypeOK, OneCall, Active, Calls, Holding, AutoWaits, OneLoop, Failed, autoVars
  <2>2. Heard'
    BY <1>5, Callers DEF SchedInv, TypeOK, Heard, OneCall, Active, Calls, Holding, Failed, autoVars
  <2> QED
    BY <2>1, <2>2
<1>6. OneLoop' <=> OneLoop
  BY DEF OneLoop
<1> QED
  BY <1>1, <1>2, <1>3, <1>4, <1>5, <1>6 DEF SchedInv

LEMMA StepRetry ==
    ASSUME SchedInv, UNCHANGED scenario, NEW c \in Caller, Retry(c)
    PROVE  SchedInv'
<1>1. TypeOK'
  BY Callers DEF SchedInv, TypeOK, Retry, autoVars, runVars, userVars
<1>2. Budget'
  BY BudgetKept, EventNames DEF SchedInv, Retry, userVars
<1>3. Calls'
  BY Callers DEF SchedInv, TypeOK, Calls, Holding, Retry, autoVars, runVars
<1>4. AutoWaits'
  BY Callers DEF SchedInv, TypeOK, AutoWaits, Active, Retry, autoVars, runVars
<1>5. ASSUME OneLoop PROVE OneCall' /\ Heard'
  <2>1. OneCall'
    BY <1>5, Callers DEF SchedInv, TypeOK, OneCall, Active, Calls, Holding, AutoWaits, OneLoop, Retry, autoVars, runVars
  <2>2. Heard'
    BY <1>5, Callers DEF SchedInv, TypeOK, Heard, OneCall, Active, Calls, Holding, Retry, autoVars, runVars
  <2> QED
    BY <2>1, <2>2
<1>6. OneLoop' <=> OneLoop
  BY DEF OneLoop
<1> QED
  BY <1>1, <1>2, <1>3, <1>4, <1>5, <1>6 DEF SchedInv

LEMMA StepRunStarts ==
    ASSUME SchedInv, UNCHANGED scenario, NEW c \in Caller, RunStarts(c)
    PROVE  SchedInv'
<1>1. TypeOK'
  BY Callers DEF SchedInv, TypeOK, RunStarts, Phases, autoVars, loopVars, userVars
<1>2. Budget'
  BY BudgetKept, EventNames DEF SchedInv, RunStarts, userVars
<1>3. Calls'
  BY Callers DEF SchedInv, TypeOK, Calls, Holding, RunStarts, autoVars, loopVars
<1>4. AutoWaits'
  BY Callers DEF SchedInv, TypeOK, AutoWaits, Active, RunStarts, autoVars, loopVars
<1>5. ASSUME OneLoop PROVE OneCall' /\ Heard'
  <2>1. OneCall'
    BY <1>5, Callers DEF SchedInv, TypeOK, OneCall, Active, Calls, Holding, AutoWaits, OneLoop, RunStarts, autoVars, loopVars
  <2>2. Heard'
    BY <1>5, Callers DEF SchedInv, TypeOK, Heard, OneCall, Active, Calls, Holding, RunStarts, autoVars, loopVars
  <2> QED
    BY <2>1, <2>2
<1>6. OneLoop' <=> OneLoop
  BY DEF OneLoop
<1> QED
  BY <1>1, <1>2, <1>3, <1>4, <1>5, <1>6 DEF SchedInv

LEMMA StepRunGoesOn ==
    ASSUME SchedInv, UNCHANGED scenario, NEW c \in Caller, RunGoesOn(c)
    PROVE  SchedInv'
<1>1. TypeOK'
  BY Callers DEF SchedInv, TypeOK, RunGoesOn, Phases, autoVars, loopVars, userVars
<1>2. Budget'
  BY BudgetKept, EventNames DEF SchedInv, RunGoesOn, userVars
<1>3. Calls'
  BY Callers DEF SchedInv, TypeOK, Calls, Holding, RunGoesOn, autoVars, loopVars
<1>4. AutoWaits'
  BY Callers DEF SchedInv, TypeOK, AutoWaits, Active, RunGoesOn, autoVars, loopVars
<1>5. ASSUME OneLoop PROVE OneCall' /\ Heard'
  <2>1. OneCall'
    BY <1>5, Callers DEF SchedInv, TypeOK, OneCall, Active, Calls, Holding, AutoWaits, OneLoop, RunGoesOn, autoVars, loopVars
  <2>2. Heard'
    BY <1>5, Callers DEF SchedInv, TypeOK, Heard, OneCall, Active, Calls, Holding, RunGoesOn, autoVars, loopVars
  <2> QED
    BY <2>1, <2>2
<1>6. OneLoop' <=> OneLoop
  BY DEF OneLoop
<1> QED
  BY <1>1, <1>2, <1>3, <1>4, <1>5, <1>6 DEF SchedInv

LEMMA StepRunSucceeds ==
    ASSUME SchedInv, UNCHANGED scenario, NEW c \in Caller, RunSucceeds(c)
    PROVE  SchedInv'
<1>1. TypeOK'
  BY Callers DEF SchedInv, TypeOK, RunSucceeds, RunEnds, Reached, Larger, Phases, autoVars, loopVars, userVars
<1>2. Budget'
  BY BudgetKept, EventNames DEF SchedInv, RunSucceeds, userVars
<1>3. Calls'
  BY Callers DEF SchedInv, TypeOK, Calls, Holding, RunSucceeds, RunEnds, Reached, Larger, autoVars, loopVars
<1>4. AutoWaits'
  BY Callers DEF SchedInv, TypeOK, AutoWaits, Active, RunSucceeds, RunEnds, Reached, Larger, autoVars, loopVars
<1>5. ASSUME OneLoop PROVE OneCall' /\ Heard'
  <2>1. OneCall'
    BY <1>5, Callers DEF SchedInv, TypeOK, OneCall, Active, Calls, Holding, AutoWaits, OneLoop, RunSucceeds, RunEnds, Reached, Larger, autoVars, loopVars
  <2>2. Heard'
    BY <1>5, Callers DEF SchedInv, TypeOK, Heard, OneCall, Active, Calls, Holding, RunSucceeds, RunEnds, Reached, Larger, autoVars, loopVars
  <2> QED
    BY <2>1, <2>2
<1>6. OneLoop' <=> OneLoop
  BY DEF OneLoop
<1> QED
  BY <1>1, <1>2, <1>3, <1>4, <1>5, <1>6 DEF SchedInv

LEMMA StepRunFails ==
    ASSUME SchedInv, UNCHANGED scenario, NEW c \in Caller, RunFails(c)
    PROVE  SchedInv'
<1>1. TypeOK'
  BY Callers DEF SchedInv, TypeOK, RunFails, RunEnds, PartWay, Phases, autoVars, loopVars
<1>2. Budget'
  BY BudgetKept, EventNames DEF SchedInv, RunFails, loopVars
<1>3. Calls'
  BY Callers DEF SchedInv, TypeOK, Calls, Holding, RunFails, RunEnds, PartWay, autoVars, loopVars
<1>4. AutoWaits'
  BY Callers DEF SchedInv, TypeOK, AutoWaits, Active, RunFails, RunEnds, PartWay, autoVars, loopVars
<1>5. ASSUME OneLoop PROVE OneCall' /\ Heard'
  <2>1. OneCall'
    BY <1>5, Callers, BudgetKept, EventNames DEF SchedInv, TypeOK, OneCall, Active, Calls, Holding, AutoWaits, OneLoop, RunFails, RunEnds, PartWay, autoVars, loopVars
  <2>2. Heard'
    BY <1>5, Callers DEF SchedInv, TypeOK, Heard, OneCall, Active, Calls, Holding, RunFails, RunEnds, PartWay, autoVars, loopVars
  <2> QED
    BY <2>1, <2>2
<1>6. OneLoop' <=> OneLoop
  BY DEF OneLoop
<1> QED
  BY <1>1, <1>2, <1>3, <1>4, <1>5, <1>6 DEF SchedInv

LEMMA StepRunIsCut ==
    ASSUME SchedInv, UNCHANGED scenario, NEW c \in Caller, RunIsCut(c)
    PROVE  SchedInv'
<1>1. TypeOK'
  BY Callers DEF SchedInv, TypeOK, RunIsCut, RunEnds, PartWay, Phases, autoVars, loopVars
<1>2. Budget'
  BY BudgetKept, EventNames DEF SchedInv, RunIsCut, loopVars
<1>3. Calls'
  BY Callers DEF SchedInv, TypeOK, Calls, Holding, RunIsCut, RunEnds, PartWay, autoVars, loopVars
<1>4. AutoWaits'
  BY Callers DEF SchedInv, TypeOK, AutoWaits, Active, RunIsCut, RunEnds, PartWay, autoVars, loopVars
<1>5. ASSUME OneLoop PROVE OneCall' /\ Heard'
  <2>1. OneCall'
    BY <1>5, Callers, BudgetKept, EventNames DEF SchedInv, TypeOK, OneCall, Active, Calls, Holding, AutoWaits, OneLoop, RunIsCut, RunEnds, PartWay, autoVars, loopVars
  <2>2. Heard'
    BY <1>5, Callers DEF SchedInv, TypeOK, Heard, OneCall, Active, Calls, Holding, RunIsCut, RunEnds, PartWay, autoVars, loopVars
  <2> QED
    BY <2>1, <2>2
<1>6. OneLoop' <=> OneLoop
  BY DEF OneLoop
<1> QED
  BY <1>1, <1>2, <1>3, <1>4, <1>5, <1>6 DEF SchedInv

LEMMA StepFrost ==
    ASSUME SchedInv, UNCHANGED scenario, FrostTakes \/ FrostReleases
    PROVE  SchedInv'
<1>1. TypeOK'
  BY Callers DEF SchedInv, TypeOK, FrostTakes, FrostReleases, autoVars, loopVars, userVars
<1>2. Budget'
  BY BudgetKept, EventNames DEF SchedInv, FrostTakes, FrostReleases, userVars
<1>3. Calls'
  BY Callers DEF SchedInv, TypeOK, Calls, Holding, FrostTakes, FrostReleases, autoVars, loopVars
<1>4. AutoWaits'
  BY Callers DEF SchedInv, TypeOK, AutoWaits, Active, FrostTakes, FrostReleases, autoVars, loopVars
<1>5. ASSUME OneLoop PROVE OneCall' /\ Heard'
  <2>1. OneCall'
    BY <1>5, Callers, BudgetKept, EventNames DEF SchedInv, TypeOK, OneCall, Active, Calls, Holding, AutoWaits, OneLoop, FrostTakes, FrostReleases, autoVars, loopVars
  <2>2. Heard'
    BY <1>5, Callers DEF SchedInv, TypeOK, Heard, OneCall, Active, Calls, Holding, FrostTakes, FrostReleases, autoVars, loopVars
  <2> QED
    BY <2>1, <2>2
<1>6. OneLoop' <=> OneLoop
  BY DEF OneLoop
<1> QED
  BY <1>1, <1>2, <1>3, <1>4, <1>5, <1>6 DEF SchedInv

LEMMA StepCancelSync ==
    ASSUME SchedInv, UNCHANGED scenario, CancelSync
    PROVE  SchedInv'
<1>1. TypeOK'
  BY Callers DEF SchedInv, TypeOK, CancelSync, CancelRun, RunEnds, PartWay, Phases, autoVars, loopVars, runVars
<1>2. Budget'
  BY BudgetKept, EventNames DEF SchedInv, CancelSync, CancelRun, loopVars, runVars
<1>3. Calls'
  BY Callers DEF SchedInv, TypeOK, Calls, Holding, CancelSync, CancelRun, RunEnds, autoVars, loopVars, runVars
<1>4. AutoWaits'
  BY Callers DEF SchedInv, TypeOK, AutoWaits, Active, CancelSync, CancelRun, RunEnds, autoVars, loopVars, runVars
<1>5. ASSUME OneLoop PROVE OneCall' /\ Heard'
  <2>1. OneCall'
    BY <1>5, Callers, BudgetKept, EventNames DEF SchedInv, TypeOK, OneCall, Active, Calls, Holding, AutoWaits, OneLoop, CancelSync, CancelRun, RunEnds, autoVars, loopVars, runVars
  <2>2. Heard'
    BY <1>5 DEF SchedInv, Heard, CancelSync, CancelRun, RunEnds, autoVars, loopVars, runVars
  <2> QED
    BY <2>1, <2>2
<1>6. OneLoop' <=> OneLoop
  BY DEF OneLoop
<1> QED
  BY <1>1, <1>2, <1>3, <1>4, <1>5, <1>6 DEF SchedInv

LEMMA StepSyncIfNeeded ==
    ASSUME SchedInv, UNCHANGED scenario, SyncIfNeeded
    PROVE  SchedInv'
<1>1. shown' \in [Account -> -1 .. MaxTip]
  <2>1. shown \in [Account -> -1 .. MaxTip] /\ height \in [Account -> -1 .. MaxTip]
    BY Callers DEF SchedInv, TypeOK
  <2> QED
    BY <2>1 DEF SyncIfNeeded, Heights
<1>2. Budget'
  BY BudgetKept DEF SchedInv, SyncIfNeeded, userVars
<1>3. CASE Behind(shown') # {} /\ ~syncInProgress
  <2> DEFINE new == [at |-> "height", accounts |-> Behind(shown'), target |-> 0]
  <2>1. /\ autoAt = "accounts" /\ autoAt' = "sync"
        /\ UNCHANGED <<timers, known, field, listening, runVars, userVars>>
        /\ ~syncInProgress /\ syncInProgress' = TRUE
        /\ call' = [call EXCEPT ![Automatic] = new]
    BY <1>3 DEF SyncIfNeeded, Start
  <2>2. new \in [at : {"idle", "height", "listen", "run", "dialog"},
                accounts : SUBSET Account, target : 0 .. MaxTip]
    BY Callers DEF Behind
  <2>3. ~Active(Automatic) /\ new.at = "height"
    BY <2>1 DEF SchedInv, AutoWaits
  <2> HIDE DEF new
  <2>4. TypeOK'
    BY <1>1, <2>1, <2>2, Callers DEF SchedInv, TypeOK, runVars, userVars
  <2>5. /\ call'[Automatic].at = "height"
        /\ \A c \in Caller : c # Automatic => call'[c] = call[c]
    BY <2>1, <2>3, Callers DEF SchedInv, TypeOK
  <2>6. Calls'
    BY <2>1, <2>3, <2>5 DEF SchedInv, TypeOK, Calls, Holding, Active, runVars
  <2>7. AutoWaits'
    BY <2>1, <2>5 DEF AutoWaits, Active
  <2>8. ASSUME OneLoop PROVE OneCall' /\ Heard'
    <3>1. \A c \in Caller : ~Active(c)
      BY <2>1, <2>3, <2>8 DEF SchedInv, OneCall, Caller
    <3>2. OneCall'
      BY <2>1, <2>5, <2>8, <3>1, Callers DEF SchedInv, OneCall, Active, runVars
    <3>3. Heard'
      BY <2>1, <2>3, <2>5, <2>8 DEF SchedInv, Heard, Calls, Active, runVars
    <3> QED
      BY <3>2, <3>3
  <2> QED
    BY <1>2, <2>4, <2>6, <2>7, <2>8 DEF SchedInv, OneLoop
<1>4. CASE ~(Behind(shown') # {} /\ ~syncInProgress)
  <2>1. /\ autoAt = "accounts" /\ EndAutoSync
        /\ UNCHANGED <<known, loopVars, runVars, userVars>>
    BY <1>4 DEF SyncIfNeeded
  <2>2. TypeOK'
    BY <1>1, <2>1 DEF SchedInv, TypeOK, EndAutoSync, loopVars, runVars, userVars
  <2> QED
    BY <1>2, <2>1, <2>2, Aside DEF EndAutoSync, loopVars, runVars
<1> QED
  BY <1>3, <1>4

LEMMA StepPress ==
    ASSUME SchedInv, UNCHANGED scenario, NEW c \in User, NEW accounts \in SUBSET Account, Press(c, accounts)
    PROVE  SchedInv'
<1>1. TypeOK'
  BY Callers DEF SchedInv, TypeOK, Press, Start, autoVars, runVars
<1>2. Budget'
  BY BudgetKept, EventNames DEF SchedInv, Press, Start, runVars
<1>3. Calls'
  BY Callers DEF SchedInv, TypeOK, Calls, Holding, Press, Start, autoVars, runVars
<1>4. AutoWaits'
  BY Callers DEF SchedInv, TypeOK, AutoWaits, Active, Press, Start, autoVars, runVars
<1>5. ASSUME OneLoop PROVE OneCall' /\ Heard'
  <2>1. OneCall'
    BY <1>5, Callers, BudgetKept, EventNames DEF SchedInv, TypeOK, OneCall, Active, Calls, Holding, AutoWaits, OneLoop, Press, Start, autoVars, runVars
  <2>2. Heard'
    BY <1>5, Callers DEF SchedInv, TypeOK, Heard, OneCall, Active, Calls, Holding, Press, Start, autoVars, runVars
  <2> QED
    BY <2>1, <2>2
<1>6. OneLoop' <=> OneLoop
  BY DEF OneLoop
<1> QED
  BY <1>1, <1>2, <1>3, <1>4, <1>5, <1>6 DEF SchedInv

-------------------------------------------------------------------------------
LEMMA InitSched == Init => SchedInv
<1> SUFFICES ASSUME Init PROVE SchedInv
  OBVIOUS
<1>1. scenario.interval \in Nat /\ left \in [Events -> Nat] /\ left = scenario.times
  BY Callers DEF Init
<1>2. TypeOK
  <2>1. NoCall \in [at : {"idle", "height", "listen", "run", "dialog"},
                   accounts : SUBSET Account, target : 0 .. MaxTip]
    BY Callers DEF NoCall
  <2>2. NoHeights \in [Account -> -1 .. MaxTip] /\ [a \in Account |-> 0] \in [Account -> 0 .. MaxTip]
    BY Callers DEF NoHeights
  <2>3. [c \in Caller |-> NoCall] \in [Caller -> [at : {"idle", "height", "listen", "run", "dialog"},
                                                accounts : SUBSET Account, target : 0 .. MaxTip]]
    BY <2>1
  <2> QED
    BY <1>1, <2>2, <2>3, Callers DEF Init, TypeOK, Phases
<1>3. Budget
  BY <1>1 DEF Budget
<1>4. Calls /\ AutoWaits
  BY Callers DEF Init, Calls, AutoWaits, Active, Holding, NoCall
<1>5. OneCall /\ Heard
  BY Callers DEF Init, OneCall, Heard, Active, NoCall
<1> QED
  BY <1>2, <1>3, <1>4, <1>5 DEF SchedInv

LEMMA StepSched == SchedInv /\ [Next]_vars => SchedInv'
<1> SUFFICES ASSUME SchedInv, [Next]_vars PROVE SchedInv'
  OBVIOUS
<1>1. CASE UNCHANGED vars
  <2>1. TypeOK'
    BY <1>1 DEF SchedInv, TypeOK, vars, autoVars, loopVars, runVars, userVars
  <2> QED
    BY <1>1, <2>1, BudgetKept, Aside DEF SchedInv, vars, autoVars, loopVars, runVars, userVars
<1>2. CASE UNCHANGED scenario /\ (AutoSync \/ Fault)
  BY <1>2, StepTimer, StepSyncIfNeeded, StepReadHeightFails, StepSynchronizeFails, StepRunFails, StepRunIsCut
  DEF AutoSync, Fault
<1>3. CASE UNCHANGED scenario /\ (Users \/ Mine \/ SaveInterval)
  <2>1. CASE \E c \in User, accounts \in SUBSET Account \ {{}} : Press(c, accounts)
    BY <1>3, <2>1, StepPress
  <2> QED
    BY <1>3, <2>1, StepUser, StepCancelSync DEF Users
<1>4. CASE UNCHANGED scenario /\ \E c \in Caller : Loop(c) \/ Run(c)
  BY <1>4, StepSynchronize, StepListen, StepCompleted, StepFailed, StepRetry,
     StepRunStarts, StepRunGoesOn, StepRunSucceeds DEF Loop, Run
<1>5. CASE UNCHANGED scenario /\ (FrostTakes \/ FrostReleases)
  BY <1>5, StepFrost
<1> QED
  BY <1>1, <1>2, <1>3, <1>4, <1>5 DEF Next

LEMMA AlwaysSched == Spec => []SchedInv
BY InitSched, StepSched, PTL DEF Spec

-------------------------------------------------------------------------------
(* Whatever fails, is pressed or changed, and however many calls overlap,  *)
(* the variables keep their types: a subscription is that of a caller, the *)
(* count of timers never goes below 0, the lock is free or somebody's.     *)
THEOREM TypeCorrect == Spec => []TypeOK
<1>1. SchedInv => TypeOK
  BY DEF SchedInv
<1> QED
  BY <1>1, AlwaysSched, PTL

(* As long as no call is made while another one tries again after an       *)
(* error, no call waits for a subscription that was cancelled, and no run  *)
(* finds that of another caller at work: syncInProgress, and autoSync      *)
(* waiting for its own call, keep them apart, whoever else holds the lock, *)
(* whatever is cut short, and whenever timers and buttons call.            *)
THEOREM NobodyWaitsInVain == Spec => []CallsDoNotCollide
<1>1. SchedInv => CallsDoNotCollide
  <2> SUFFICES ASSUME SchedInv, OneLoop, NEW c \in Caller
               PROVE  /\ call[c].at = "run" => c \in listening
                      /\ run[c] = "called" => syncing \notin Caller
    BY DEF CallsDoNotCollide
  <2>1. call[c].at = "run" => c \in listening
    BY DEF SchedInv, Heard
  <2>2. ASSUME run[c] = "called", syncing \in Caller PROVE FALSE
    <3>1. PICK d \in Caller : d = syncing
      BY <2>2
    <3>2. run[d] # "none" /\ run[d] # "called"
      BY <3>1 DEF SchedInv, Calls, Holding
    <3>3. Active(c) /\ Active(d)
      BY <2>2, <3>2 DEF SchedInv, Calls, Active
    <3> QED
      BY <2>2, <3>2, <3>3 DEF SchedInv, OneCall
  <2> QED
    BY <2>1, <2>2
<1> QED
  BY <1>1, AlwaysSched, PTL
=============================================================================
