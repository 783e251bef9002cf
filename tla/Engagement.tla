----------------------------- MODULE Engagement -----------------------------
(***************************************************************************)
(* Engagement messages of one store (EngagementService).  The worker's     *)
(* daily run and the merchant's "run now" request work through a list of   *)
(* customers loaded at their start, while customers opt in and out.  What  *)
(* a customer may receive is limited per rolling week, per calendar day    *)
(* and by a minimum gap, each counted in the log of sent messages, which   *)
(* is written after the delivery.                                          *)
(***************************************************************************)
EXTENDS Integers, Sequences, FiniteSets

CONSTANTS
    Customers,
    Runs,              \* executions of run() that may overlap
    Worker,            \* the one of them that the worker starts
    Temperatures,      \* HOT, WARM, COLD
    WeeklyCap,         \* per temperature: messages per rolling 7 days
    HighestCap,        \* the largest of them
    DailyCap,          \* perCustomerDailyCap
    MinGap,            \* minHoursBetween
    Day, Week,         \* their lengths, in hours
    QuietFrom, QuietTo,\* quietStartHour, quietEndHour
    EngagementOps,     \* what an instance lets happen besides running
    LastHour,          \* bound: the last hour of the clock
    MaxStops,          \* bound: runs that fail or die
    MaxChanges         \* bound: changes of consent and of the policy

Hours == 0..LastHour
AllEngagementOps == {"consent", "policy", "fail", "crash"}

ASSUME EngagementAssumption ==
    /\ IsFiniteSet(Runs) /\ Worker \in Runs
    /\ WeeklyCap \in [Temperatures -> Nat] /\ HighestCap \in Nat
    /\ \A t \in Temperatures : WeeklyCap[t] <= HighestCap
    /\ DailyCap \in Nat /\ MinGap \in Nat
    /\ Day \in Nat \ {0} /\ Week \in Nat
    /\ QuietFrom \in 0..(Day - 1) /\ QuietTo \in 0..(Day - 1)
    /\ EngagementOps \subseteq AllEngagementOps
    /\ LastHour \in Nat /\ MaxStops \in Nat /\ MaxChanges \in Nat

VARIABLES
    hour,        \* the clock
    consent,     \* per customer: marketingConsent and unsubscribedAt
    policy,      \* the store's policy row: enabled, lastRunAt
    messages,    \* the log of messages sent, oldest first
    run,         \* per execution: where it stands and what it has read
    today,       \* deliveries to a customer in the current day
    late,        \* deliveries to a customer since it last opted out
    stops,       \* runs that failed or died so far
    changes      \* changes of consent and of the policy so far

engagementVars == <<hour, consent, policy, messages, run, today, late, stops, changes>>

NeverRun == -1
Message == [to : Customers, at : Hours]

(* A run knows when it began, the customers it has yet to process, those of
   them whose row allowed marketing when it was loaded, and whom it serves. *)
EngagementRun == [at : {"idle", "next", "deliver", "log", "stamp"}, began : Hours,
                  todo : SUBSET Customers, consented : SUBSET Customers,
                  serves : SUBSET Customers]

NotRunning == [at |-> "idle", began |-> 0, todo |-> {}, consented |-> {}, serves |-> {}]

EngagementTypeOK ==
    /\ hour \in Hours
    /\ consent \in [Customers -> {"never", "given", "withdrawn"}]
    /\ policy \in [enabled : BOOLEAN, last : Hours \cup {NeverRun}]
    /\ messages \in Seq(Message)
    /\ run \in [Runs -> EngagementRun]
    /\ today \in [Customers -> Nat] /\ late \in [Customers -> Nat]
    /\ stops \in Nat /\ changes \in Nat

EngagementInit ==
    /\ hour = 0
    /\ consent \in [Customers -> {"never", "given"}]
    /\ policy = [enabled |-> TRUE, last |-> NeverRun]
    /\ messages = << >>
    /\ run = [r \in Runs |-> NotRunning]
    /\ today = [c \in Customers |-> 0] /\ late = [c \in Customers |-> 0]
    /\ stops = 0 /\ changes = 0

DayOf(h) == h \div Day

PassHour ==
    /\ hour < LastHour
    /\ hour' = hour + 1
    /\ today' = IF DayOf(hour') = DayOf(hour) THEN today ELSE [c \in Customers |-> 0]
    /\ UNCHANGED <<consent, policy, messages, run, late, stops, changes>>
----------------------------------------------------------------------------
(* Customers and the merchant. *)

(* optIn and an opted-in checkout; unsubscribe and setMarketingConsent. *)
SetConsent(c, v) ==
    /\ "consent" \in EngagementOps
    /\ v \in {"given", "withdrawn"} /\ consent[c] # v
    /\ consent' = [consent EXCEPT ![c] = v]
    /\ late' = [late EXCEPT ![c] = 0]
    /\ changes < MaxChanges /\ changes' = changes + 1
    /\ UNCHANGED <<hour, policy, messages, run, today, stops>>

SetEngagementPolicy(b) ==
    /\ "policy" \in EngagementOps
    /\ policy.enabled # b
    /\ policy' = [policy EXCEPT !.enabled = b]
    /\ UNCHANGED <<hour, consent, messages, run, today, late, stops, changes>>
----------------------------------------------------------------------------
(* run(): load, then one customer after the other. *)

EngagementDue == policy.enabled /\ (policy.last = NeverRun \/ hour - policy.last >= Day)

(* With the next customer of `todo`, or at the end of the list. *)
Goes(r, began, consented, todo) ==
    IF todo # {} THEN [at |-> "next", began |-> began, todo |-> todo,
                       consented |-> consented \cap todo, serves |-> {}]
    ELSE IF r = Worker THEN [NotRunning EXCEPT !.at = "stamp", !.began = began]
    ELSE NotRunning

Continues(r, todo) == Goes(r, run[r].began, run[r].consented, todo)

(* Consent is read once, for the whole run; `audience` is who matches an
   enabled campaign, once each however many match. *)
Reachable(c) == consent[c] = "given"

BeginEngagement(r, audience) ==
    /\ run[r].at = "idle"
    /\ r = Worker => EngagementDue
    /\ run' = [run EXCEPT ![r] = Goes(r, hour, {c \in Customers : Reachable(c)}, audience)]
    /\ UNCHANGED <<hour, consent, policy, messages, today, late, stops, changes>>

(* inQuietWindow; only the worker's run respects it. *)
InQuietWindow(h) ==
    IF QuietFrom > QuietTo THEN h % Day >= QuietFrom \/ h % Day < QuietTo
    ELSE h % Day >= QuietFrom /\ h % Day < QuietTo

Limits == {"week", "day", "gap"}

(* The first hour whose messages count, for a run that began at h. *)
Since(limit, h) ==
    CASE limit = "week" -> h - Week
      [] limit = "day"  -> h - (h % Day)
      [] limit = "gap"  -> h - MinGap + 1

LoggedSince(c, h) == {i \in 1..Len(messages) : messages[i].to = c /\ messages[i].at >= h}

(* frequencyFor and the other two limits. *)
Cap(limit, t) ==
    CASE limit = "week" -> WeeklyCap[t]
      [] limit = "day"  -> DailyCap
      [] limit = "gap"  -> 1

WithinCapsLoose(c, t, h) ==
    \A limit \in Limits : Cardinality(LoggedSince(c, Since(limit, h))) <= Cap(limit, t)
WithinCaps(c, t, h) ==
    \A limit \in Limits : Cardinality(LoggedSince(c, Since(limit, h))) < Cap(limit, t)

(* One customer is sent to or passed over: no address (`reached`), no consent,
   quiet hours, or a limit.  The temperature was read when the run began; it is
   the only thing read of it. *)
Serve(r, c, t, reached) ==
    LET quiet == r = Worker /\ InQuietWindow(run[r].began)
        sends == reached /\ c \in run[r].consented /\ ~quiet /\ WithinCaps(c, t, run[r].began)
    IN  /\ run[r].at = "next" /\ c \in run[r].todo
        /\ run' = [run EXCEPT ![r] =
              IF sends
              THEN [run[r] EXCEPT !.at = "deliver", !.serves = {c},
                                  !.todo = @ \ {c}, !.consented = @ \ {c}]
              ELSE Continues(r, run[r].todo \ {c})]
        /\ UNCHANGED <<hour, consent, policy, messages, today, late, stops, changes>>

(* deliver(): the provider takes the message. *)
Deliver(r, c) ==
    /\ run[r].at = "deliver" /\ c \in run[r].serves
    /\ run' = [run EXCEPT ![r].at = "log"]
    /\ today' = [today EXCEPT ![c] = @ + 1]
    /\ late' = IF consent[c] = "withdrawn" THEN [late EXCEPT ![c] = @ + 1] ELSE late
    /\ UNCHANGED <<hour, consent, policy, messages, stops, changes>>

(* It refuses, or the channel is not set up: the run goes on. *)
NotDelivered(r) ==
    /\ run[r].at = "deliver"
    /\ run' = [run EXCEPT ![r] = Continues(r, run[r].todo)]
    /\ UNCHANGED <<hour, consent, policy, messages, today, late, stops, changes>>

LogMessage(r, c) ==
    /\ run[r].at = "log" /\ c \in run[r].serves
    /\ messages' = Append(messages, [to |-> c, at |-> hour])
    /\ run' = [run EXCEPT ![r] = Continues(r, run[r].todo)]
    /\ UNCHANGED <<hour, consent, policy, today, late, stops, changes>>

(* runDueEngagement records the hour the run began, when it ended or threw. *)
StampRun(r) ==
    /\ run[r].at = "stamp"
    /\ policy' = [policy EXCEPT !.last = run[r].began]
    /\ run' = [run EXCEPT ![r] = NotRunning]
    /\ UNCHANGED <<hour, consent, messages, today, late, stops, changes>>

(* A statement of the run throws: the worker gives this run up for the day. *)
RunThrows(r) ==
    /\ "fail" \in EngagementOps /\ stops < MaxStops /\ stops' = stops + 1
    /\ run[r].at \in {"next", "log"}
    /\ run' = [run EXCEPT ![r] = Continues(r, {})]
    /\ UNCHANGED <<hour, consent, policy, messages, today, late, changes>>

(* The process dies, or a statement outside the run's own catch throws. *)
RunDies(r) ==
    /\ "crash" \in EngagementOps /\ stops < MaxStops /\ stops' = stops + 1
    /\ run[r].at # "idle"
    /\ run' = [run EXCEPT ![r] = NotRunning]
    /\ UNCHANGED <<hour, consent, policy, messages, today, late, changes>>
----------------------------------------------------------------------------
Engages(r) ==
    \/ NotDelivered(r) \/ StampRun(r)
    \/ \E c \in Customers :
          \/ Deliver(r, c) \/ LogMessage(r, c)
          \/ \E t \in Temperatures, reached \in BOOLEAN : Serve(r, c, t, reached)

StartsEngagement(r) == \E audience \in SUBSET Customers : BeginEngagement(r, audience)

EngagementEnvironment ==
    \/ \E c \in Customers, v \in {"given", "withdrawn"} : SetConsent(c, v)
    \/ \E b \in BOOLEAN : SetEngagementPolicy(b)

EngagementNext ==
    \/ PassHour
    \/ EngagementEnvironment
    \/ \E r \in Runs : StartsEngagement(r) \/ Engages(r) \/ RunThrows(r) \/ RunDies(r)

EngagementSpec == EngagementInit /\ [][EngagementNext]_engagementVars
----------------------------------------------------------------------------
HighestOf(limit) ==
    CASE limit = "week" -> HighestCap
      [] limit = "day"  -> DailyCap
      [] limit = "gap"  -> 1

(* "A per-day cap + minimum gap stop over-messaging across runs": in no rolling
   week, calendar day or gap does a customer get more than the limit, plus one
   for each other run that overlaps, whatever that run had counted. *)
FatigueGuard ==
    \A c \in Customers, limit \in Limits :
       Cardinality(LoggedSince(c, Since(limit, hour))) <= HighestOf(limit) + Cardinality(Runs) - 1

(* Counting deliveries instead of log rows, a run that stops after delivering and
   before logging adds one more, and nothing else does. *)
DeliveriesPerDay ==
    \A c \in Customers : today[c] <= DailyCap + Cardinality(Runs) - 1 + stops

(* A customer who opts out gets at most one more message from every run that had
   already loaded its list. *)
OptOutIsHeeded == \A c \in Customers : late[c] <= Cardinality(Runs)

(* The hours from QuietFrom up to QuietTo, around midnight if need be. *)
AtNight(h) == (h + Day - QuietFrom) % Day < (QuietTo + Day - QuietFrom) % Day

(* The worker's run sends nothing when it began at night. *)
QuietNights == run[Worker].at \in {"deliver", "log"} => ~AtNight(run[Worker].began)

(* Messages stay within the caps, the consent and the quiet hours of the policy. *)
MessagesWithinLimits == FatigueGuard /\ DeliveriesPerDay /\ OptOutIsHeeded /\ QuietNights
============================================================================
