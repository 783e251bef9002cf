----------------------------- MODULE WorkerTick -----------------------------
(***************************************************************************)
(* The worker (apps/worker): a timer that runs seven jobs one after the    *)
(* other inside one try block, so that a job that throws takes the rest of *)
(* its tick with it.  A behaviour watches one of the jobs: that job is its *)
(* component's run by `Worker`, started only when a tick gets there, among *)
(* its component's other actors (shoppers, the merchant's own runs, time); *)
(* the others just end or throw.  The jobs share no state that matters     *)
(* here, so nothing is lost by watching one at a time.                     *)
(***************************************************************************)
EXTENDS CartRecovery, OwnerAlerts, Cohorts, Subscriptions, Engagement

CONSTANTS
    Watched,        \* the jobs an instance watches
    AdvisoryEvery,  \* ADVISORY_INTERVAL_MS, in hours
    MaxThrows       \* bound: ticks that are cut short, and restarts

JobOrder == <<"recovery", "alerts", "reservations", "cohorts", "subscriptions",
              "engagement", "advisories">>

ASSUME WorkerAssumption ==
    /\ Worker \in Jobs /\ Worker \in Scans /\ Worker \in Runners /\ Worker = Scheduled
    /\ Watched \subseteq {JobOrder[i] : i \in DOMAIN JobOrder} \ {"reservations"}
    /\ AdvisoryEvery \in Nat /\ MaxThrows \in Nat

VARIABLES
    watched,        \* the job this behaviour watches
    tick,           \* has the running tick reached it, or started it?
    sinceAdvisory,  \* hours since lastAdvisoryAt, up to AdvisoryEvery; in memory
    throws          \* ticks cut short so far

tickVars == <<watched, tick, sinceAdvisory, throws>>
workerVars == <<recoveryVars, alertVars, cohortVars, vars, engagementVars, tickVars>>

TickTypeOK ==
    /\ watched \in Watched
    /\ tick \in {"waiting", "reached", "running"}
    /\ sinceAdvisory \in 0..AdvisoryEvery
    /\ throws \in 0..MaxThrows
    /\ CartTypeOK /\ AlertTypeOK /\ CohortTypeOK /\ SubscriptionTypeOK /\ EngagementTypeOK

(* A new process has lastAdvisoryAt = 0: the advisor is due at once.  What is not
   watched starts in one state. *)
WorkerInit ==
    /\ RecoveryInit /\ AlertInit /\ CohortInit /\ Init /\ EngagementInit
    /\ watched \in Watched
    /\ tick = "waiting" /\ sinceAdvisory = AdvisoryEvery /\ throws = 0
    /\ watched # "alerts" => \A v \in Variants : shelf[v] = [units |-> 0, sold |-> 0]
    /\ watched # "cohorts" => features = {}
    /\ watched # "subscriptions" => \A s \in Subs : subscription[s].interval = CHOOSE i \in Intervals : TRUE
    /\ watched # "engagement" => \A c \in Customers : consent[c] = "never"

Unwatched == UNCHANGED <<recoveryVars, alertVars, cohortVars, vars, engagementVars>>
----------------------------------------------------------------------------
(* tick(): `running` keeps two ticks apart; the jobs before the watched one. *)

HasEarlierJob == watched # JobOrder[1]

TickReaches ==
    /\ HasEarlierJob
    /\ tick = "waiting" /\ tick' = "reached"
    /\ Unwatched /\ UNCHANGED <<watched, sinceAdvisory, throws>>

(* One of them throws, or the process dies and is started again. *)
TickIsCutShort ==
    /\ HasEarlierJob /\ tick \in {"waiting", "reached"}
    /\ throws < MaxThrows /\ throws' = throws + 1
    /\ \/ tick = "waiting" /\ UNCHANGED sinceAdvisory
       \/ sinceAdvisory' = AdvisoryEvery
    /\ tick' = "waiting"
    /\ Unwatched /\ UNCHANGED watched

(* The watched job is started, goes on, or has nothing to do; the jobs after it
   make no difference to it. *)
Begins == tick = (IF HasEarlierJob THEN "reached" ELSE "waiting") /\ UNCHANGED <<watched, throws>>
GoesThrough == tick = "running" /\ UNCHANGED <<watched, throws, sinceAdvisory>>
Tick(busy) == tick' = IF busy THEN "running" ELSE "waiting"
NothingDue(j) == watched = j /\ Begins /\ Tick(FALSE) /\ Unwatched

(* It throws, or the process dies. *)
BreaksOff ==
    /\ tick = "running" /\ tick' = "waiting"
    /\ sinceAdvisory' \in {sinceAdvisory, AdvisoryEvery}
    /\ UNCHANGED watched
----------------------------------------------------------------------------
WatchRecovery ==
    watched = "recovery" /\ UNCHANGED <<alertVars, cohortVars, vars, engagementVars>>

RecoveryAround ==
    /\ WatchRecovery /\ UNCHANGED tickVars
    /\ \/ PassMinute \/ ShopperSteps
       \/ \E j \in Jobs \ {Worker} : StartRecovery(j) \/ RecoverySteps(j) \/ RecoveryStops(j)

RecoveryInTick ==
    \/ WatchRecovery /\ Begins /\ StartRecovery(Worker) /\ Tick(TRUE) /\ UNCHANGED sinceAdvisory
    \/ WatchRecovery /\ GoesThrough /\ RecoverySteps(Worker) /\ Tick(job'[Worker].at # "idle")
    \/ ~recovery /\ NothingDue("recovery") /\ UNCHANGED sinceAdvisory

RecoveryBreaksOff == WatchRecovery /\ BreaksOff /\ RecoveryStops(Worker) /\ UNCHANGED throws
----------------------------------------------------------------------------
WatchAlerts == watched = "alerts" /\ UNCHANGED <<recoveryVars, cohortVars, vars, engagementVars>>

AlertsAround ==
    /\ WatchAlerts /\ UNCHANGED tickVars
    /\ \/ ShelfMoves
       \/ \E r \in Scans \ {Worker} : TakeStock(r) \/ Scanning(r) \/ ScanStops(r)

AlertsInTick ==
    \/ WatchAlerts /\ Begins /\ TakeStock(Worker) /\ Tick(TRUE) /\ UNCHANGED sinceAdvisory
    \/ WatchAlerts /\ GoesThrough /\ Scanning(Worker) /\ Tick(scan'[Worker].at # "idle")
    \/ /\ \A v \in Variants : Rating(v) = lastStatus[v]
       /\ NothingDue("alerts") /\ UNCHANGED sinceAdvisory

AlertsBreakOff == WatchAlerts /\ BreaksOff /\ ScanStops(Worker) /\ UNCHANGED throws
----------------------------------------------------------------------------
WatchCohorts == watched = "cohorts" /\ UNCHANGED <<recoveryVars, alertVars, vars, engagementVars>>

CohortsAround ==
    /\ WatchCohorts /\ UNCHANGED tickVars
    /\ \/ CohortDayPasses \/ CohortsDrift
       \/ \E r \in Recomputes \ {Worker} : ReadFeatures(r) \/ Recomputing(r) \/ LoseRecompute(r)

CohortsInTick ==
    \/ /\ WatchCohorts /\ Begins /\ Tick(TRUE) /\ UNCHANGED sinceAdvisory
       /\ \E visitors \in Traffic : StartsRecompute(Worker, visitors)
    \/ WatchCohorts /\ GoesThrough /\ Recomputing(Worker) /\ Tick(recompute'[Worker].at # "idle")
    \/ /\ features = {} \/ \E visitors \in Traffic : ~RecomputeDue(visitors)
       /\ NothingDue("cohorts") /\ UNCHANGED sinceAdvisory

CohortsBreakOff == WatchCohorts /\ BreaksOff /\ LoseRecompute(Worker) /\ UNCHANGED throws
----------------------------------------------------------------------------
WatchSubscriptions ==
    watched = "subscriptions" /\ UNCHANGED <<recoveryVars, alertVars, cohortVars, engagementVars>>

SubscriptionsAround ==
    /\ WatchSubscriptions /\ UNCHANGED tickVars
    /\ \/ PassDay
       \/ \E s \in Subs, i \in Intervals : \E t \in Days \cup {now + i} : Create(s, i, t)
       \/ \E m \in Managers : WriteChange(m) \/ \E c \in Change : BeginChange(m, c)
       \/ \E r \in Runners \ {Worker} : Bills(r) \/ CheckoutFails(r) \/ RecordFails(r) \/ Crash(r)

(* A checkout or a write that fails is caught inside the job, which goes on. *)
SubscriptionsInTick ==
    \/ WatchSubscriptions /\ Begins /\ ListDue(Worker) /\ Tick(TRUE) /\ UNCHANGED sinceAdvisory
    \/ /\ WatchSubscriptions /\ GoesThrough
       /\ Bills(Worker) \/ CheckoutFails(Worker) \/ RecordFails(Worker)
       /\ Tick(runner'[Worker].at # "idle")
    \/ /\ \A s \in Subs : ~(subscription[s].status = "ACTIVE" /\ IsDue(subscription[s]))
       /\ NothingDue("subscriptions") /\ UNCHANGED sinceAdvisory

SubscriptionsBreakOff ==
    /\ WatchSubscriptions /\ BreaksOff /\ Crash(Worker)
    /\ throws < MaxThrows /\ throws' = throws + 1
----------------------------------------------------------------------------
WatchEngagement ==
    watched = "engagement" /\ UNCHANGED <<recoveryVars, alertVars, cohortVars, vars>>

EngagementAround ==
    /\ WatchEngagement /\ UNCHANGED tickVars
    /\ \/ PassHour \/ EngagementEnvironment
       \/ \E r \in Runs \ {Worker} : StartsEngagement(r) \/ Engages(r) \/ RunThrows(r) \/ RunDies(r)

(* A run that throws is caught inside the job, which then records it. *)
EngagementInTick ==
    \/ /\ WatchEngagement /\ Begins /\ UNCHANGED sinceAdvisory
       /\ StartsEngagement(Worker) /\ Tick(run'[Worker].at # "idle")
    \/ /\ WatchEngagement /\ GoesThrough
       /\ Engages(Worker) \/ RunThrows(Worker)
       /\ Tick(run'[Worker].at # "idle")
    \/ ~EngagementDue /\ NothingDue("engagement") /\ UNCHANGED sinceAdvisory

EngagementBreaksOff == WatchEngagement /\ BreaksOff /\ RunDies(Worker) /\ UNCHANGED throws
----------------------------------------------------------------------------
WatchAdvice ==
    watched = "advisories" /\ UNCHANGED <<recoveryVars, cohortVars, vars, engagementVars>>

AdviceHour ==
    /\ WatchAdvice /\ UNCHANGED <<watched, tick, throws>>
    /\ HourPasses \/ (sinceAdvisory < AdvisoryEvery /\ ~CodesAge /\ UNCHANGED alertVars)
    /\ sinceAdvisory' = IF sinceAdvisory < AdvisoryEvery THEN sinceAdvisory + 1 ELSE sinceAdvisory

AdviceAround ==
    /\ WatchAdvice /\ UNCHANGED tickVars
    /\ \E f \in SUBSET Codes : FindingsChange(f)

(* lastAdvisoryAt is set before the run, whatever becomes of it. *)
AdvisorDue == sinceAdvisory = AdvisoryEvery

AdviceInTick ==
    \/ WatchAdvice /\ Begins /\ AdvisorDue /\ Evaluate /\ Tick(TRUE) /\ sinceAdvisory' = 0
    \/ WatchAdvice /\ GoesThrough /\ Advising /\ Tick(advice'.at # "idle")
    \/ AdvisorDue /\ findings = {} /\ NothingDue("advisories") /\ sinceAdvisory' = 0
    \/ ~AdvisorDue /\ NothingDue("advisories") /\ UNCHANGED sinceAdvisory

AdviceBreaksOff == WatchAdvice /\ BreaksOff /\ AdviceStops /\ UNCHANGED throws
----------------------------------------------------------------------------
WorkerWorks ==
    \/ TickReaches
    \/ RecoveryInTick \/ AlertsInTick \/ CohortsInTick
    \/ SubscriptionsInTick \/ EngagementInTick \/ AdviceInTick

BreakOffs ==
    \/ TickIsCutShort
    \/ RecoveryBreaksOff \/ AlertsBreakOff \/ CohortsBreakOff
    \/ SubscriptionsBreakOff \/ EngagementBreaksOff \/ AdviceBreaksOff

Surroundings ==
    \/ RecoveryAround \/ AlertsAround \/ CohortsAround
    \/ SubscriptionsAround \/ EngagementAround \/ AdviceAround \/ AdviceHour

WorkerNext == WorkerWorks \/ BreakOffs \/ Surroundings
WorkerSpec == WorkerInit /\ [][WorkerNext]_workerVars

(* The timer fires for ever, ticks get through or throw, time passes, and what
   the API has started it carries through. *)
ApiWorks ==
    \/ \E r \in Scans \ {Worker} : WatchAlerts /\ Scanning(r) /\ UNCHANGED tickVars
    \/ \E r \in Recomputes \ {Worker} : WatchCohorts /\ Recomputing(r) /\ UNCHANGED tickVars
    \/ \E r \in Runners \ {Worker} : WatchSubscriptions /\ Bills(r) /\ UNCHANGED tickVars
    \/ \E m \in Managers : WatchSubscriptions /\ WriteChange(m) /\ UNCHANGED tickVars

TimePasses == AdviceHour \/ (WatchCohorts /\ CohortDayPasses /\ UNCHANGED tickVars)

WorkerFairSpec ==
    /\ WorkerSpec
    /\ WF_workerVars(WorkerWorks) /\ WF_workerVars(ApiWorks) /\ WF_workerVars(TimePasses)
----------------------------------------------------------------------------
(* Something the watched job has to do: idle carts to mark and remind, a rating to
   record, missing cohorts, due subscriptions, the daily engagement run, a critical
   finding to tell. *)
WorkWaits ==
    CASE watched = "recovery" -> RecoveryWaits
      [] watched = "alerts" -> RatingWaits
      [] watched = "cohorts" -> CohortsWait
      [] watched = "subscriptions" -> BillingWaits
      [] watched = "engagement" -> EngagementDue
      [] watched = "advisories" -> FindingWaits

(* It gets done, although ticks are cut short, runs break off and the merchant runs
   the same jobs by hand. *)
WaitingWorkIsDone == WorkWaits ~> ~WorkWaits
============================================================================
