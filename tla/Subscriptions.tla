--------------------------- MODULE Subscriptions ---------------------------
(***************************************************************************)
(* Recurring orders (SubscriptionService).  The worker and the merchant's  *)
(* "bill now" request both run runDueSubscriptions over one table, while   *)
(* merchants and customers pause, resume, cancel and reschedule.  A due    *)
(* date is claimed by a conditional update of nextBillingAt, then billed,  *)
(* then recorded; every database statement is an action.                   *)
(***************************************************************************)
EXTENDS Naturals, FiniteSets

CONSTANTS
    Subs,         \* subscriptions
    Runners,      \* executions of runDueSubscriptions that may overlap
    Managers,     \* merchant and customer request handlers
    Intervals,    \* lengths of the billing intervals, in days
    Ops,          \* what an instance lets happen besides billing and managing
    MaxTime,      \* bound: the last day
    MaxRequests   \* bound: management requests

AllOps == {"reschedule", "declined", "unsaved", "crash"}

ASSUME SubscriptionAssumption ==
    /\ Intervals \subseteq Nat \ {0}
    /\ MaxTime \in Nat /\ MaxRequests \in Nat
    /\ IsFiniteSet(Runners)
    /\ Ops \subseteq AllOps

VARIABLES
    subscription, \* per subscription its row; status "NONE" before it exists
    start,        \* the first billing date it was created with
    forgone,      \* per subscription: claims that died with their run
    billed,       \* per subscription and due date: the orders billed for it
    runner,       \* per run: where it stands, the rows it listed, its claim
    manager,      \* per request handler: the write it is about to make
    now,          \* the day
    requests      \* management requests so far

vars == <<subscription, start, forgone, billed, runner, manager, now, requests>>

Days == 0..MaxTime
Status == {"ACTIVE", "PAUSED", "CANCELLED"}
Row == [status : Status \cup {"NONE"}, next : Nat, interval : Intervals, cycles : Nat]

(* What a run has read of a due row. *)
Due == [sub : Subs, next : Days, interval : Intervals]

(* Where a run stands, what it has listed, and the row it has claimed. *)
Run == [at : {"idle", "run", "order", "record", "revert"}, due : SUBSET Due, claim : SUBSET Due]

NotManaging == [at |-> "idle"]
Change == [at : {"status"}, sub : Subs, status : Status]
             \cup [at : {"schedule"}, sub : Subs, patch : SUBSET {"next", "interval"},
                   next : Days, interval : Intervals]

SubscriptionTypeOK ==
    /\ subscription \in [Subs -> Row]
    /\ start \in [Subs -> Nat] /\ forgone \in [Subs -> Nat]
    /\ billed \in [Subs -> [Days -> Nat]]
    /\ runner \in [Runners -> Run]
    /\ manager \in [Managers -> {NotManaging} \cup Change]
    /\ now \in Days
    /\ requests \in Nat

Resting == [at |-> "idle", due |-> {}, claim |-> {}]

Init ==
    /\ \E i \in Intervals :
          subscription = [s \in Subs |-> [status |-> "NONE", next |-> 0, interval |-> i, cycles |-> 0]]
    /\ start = [s \in Subs |-> 0] /\ forgone = [s \in Subs |-> 0]
    /\ billed = [s \in Subs |-> [t \in Days |-> 0]]
    /\ runner = [r \in Runners |-> Resting]
    /\ manager = [m \in Managers |-> NotManaging]
    /\ now = 0
    /\ requests = 0

PassDay ==
    /\ now < MaxTime
    /\ now' = now + 1
    /\ UNCHANGED <<subscription, start, forgone, billed, runner, manager, requests>>
----------------------------------------------------------------------------
(* create, setStatus (also through manageByEmail) and update. *)

(* The first date is given (startAt, any day) or one interval from now. *)
Create(s, i, t) ==
    /\ subscription[s].status = "NONE"
    /\ subscription' = [subscription EXCEPT ![s] =
                          [status |-> "ACTIVE", next |-> t, interval |-> i, cycles |-> 0]]
    /\ start' = [start EXCEPT ![s] = t]
    /\ UNCHANGED <<forgone, billed, runner, manager, now, requests>>

(* A handler loads the row, refuses a cancelled one, and writes by id later. *)
Manageable(s) == subscription[s].status \notin {"NONE", "CANCELLED"}

BeginChange(m, c) ==
    /\ manager[m] = NotManaging /\ Manageable(c.sub)
    /\ c.at = "schedule" => "reschedule" \in Ops
    /\ requests < MaxRequests /\ requests' = requests + 1
    /\ manager' = [manager EXCEPT ![m] = c]
    /\ UNCHANGED <<subscription, start, forgone, billed, runner, now>>

(* update() sets the fields the request gave. *)
Patched(row, c) ==
    [row EXCEPT !.next = IF "next" \in c.patch THEN c.next ELSE @,
                !.interval = IF "interval" \in c.patch THEN c.interval ELSE @]

WriteChange(m) ==
    LET c == manager[m] IN
    /\ c # NotManaging
    /\ subscription' =
          IF c.at = "status" THEN [subscription EXCEPT ![c.sub].status = c.status]
          ELSE [subscription EXCEPT ![c.sub] = Patched(@, c)]
    /\ manager' = [manager EXCEPT ![m] = NotManaging]
    /\ UNCHANGED <<start, forgone, billed, runner, now, requests>>
----------------------------------------------------------------------------
(* runDueSubscriptions. *)

IsDueSoon(row) == row.next <= now + row.interval
IsDue(row) == row.next <= now

ListDue(r) ==
    LET rows == {s \in Subs : subscription[s].status = "ACTIVE" /\ IsDue(subscription[s])}
    IN  /\ runner[r].at = "idle" /\ rows # {}
        /\ runner' = [runner EXCEPT ![r] =
              [at |-> "run", claim |-> {},
               due |-> {[sub |-> s, next |-> subscription[s].next,
                         interval |-> subscription[s].interval] : s \in rows}]]
        /\ UNCHANGED <<subscription, start, forgone, billed, manager, now, requests>>

(* The claim is valid while the row is as it was listed. *)
ClaimAny(d) == TRUE
ClaimInactive(d) == subscription[d.sub].next = d.next
ClaimValid(d) == subscription[d.sub].status = "ACTIVE" /\ subscription[d.sub].next = d.next

NextDate(d) == d.next + d.interval

(* With the next listed row, or at rest after the last. *)
GoesOn(r, due) ==
    runner' = [runner EXCEPT ![r] =
                 IF due = {} THEN Resting ELSE [at |-> "run", due |-> due, claim |-> {}]]

Claim(r, d) ==
    /\ runner[r].at = "run" /\ d \in runner[r].due
    /\ IF ClaimValid(d)
       THEN /\ subscription' = [subscription EXCEPT ![d.sub].next = NextDate(d)]
            /\ runner' = [runner EXCEPT ![r] =
                            [at |-> "order", due |-> @.due \ {d}, claim |-> {d}]]
       ELSE /\ GoesOn(r, runner[r].due \ {d})
            /\ UNCHANGED subscription
    /\ UNCHANGED <<start, forgone, billed, manager, now, requests>>

(* payments.checkout: the order is placed with the payment provider, or the
   checkout throws. *)
PlaceOrder(r, d) ==
    /\ runner[r].at = "order" /\ d \in runner[r].claim
    /\ billed' = [billed EXCEPT ![d.sub][d.next] = @ + 1]
    /\ runner' = [runner EXCEPT ![r].at = "record"]
    /\ UNCHANGED <<subscription, start, forgone, manager, now, requests>>

CheckoutFails(r) ==
    /\ "declined" \in Ops /\ runner[r].at = "order"
    /\ runner' = [runner EXCEPT ![r].at = "revert"]
    /\ UNCHANGED <<subscription, start, forgone, billed, manager, now, requests>>

RecordCycle(r, d) ==
    /\ runner[r].at = "record" /\ d \in runner[r].claim
    /\ subscription' = [subscription EXCEPT ![d.sub].cycles = @ + 1]
    /\ GoesOn(r, runner[r].due)
    /\ UNCHANGED <<start, forgone, billed, manager, now, requests>>

(* The write after the checkout fails, inside the same try. *)
RecordFails(r) ==
    /\ "unsaved" \in Ops /\ runner[r].at = "record"
    /\ runner' = [runner EXCEPT ![r].at = "revert"]
    /\ UNCHANGED <<subscription, start, forgone, billed, manager, now, requests>>

(* The catch block gives the date back and pauses, whatever the row says now. *)
Reverted(row, d) == [row EXCEPT !.status = "PAUSED", !.next = d.next]

Revert(r, d) ==
    /\ runner[r].at = "revert" /\ d \in runner[r].claim
    /\ subscription' = [subscription EXCEPT ![d.sub] = Reverted(@, d)]
    /\ GoesOn(r, runner[r].due)
    /\ UNCHANGED <<start, forgone, billed, manager, now, requests>>

Claims(s) == {r \in Runners : \E d \in runner[r].claim : d.sub = s}

(* A run stops between two statements and is not resumed. *)
Crash(r) ==
    /\ "crash" \in Ops /\ runner[r] # Resting
    /\ runner' = [runner EXCEPT ![r] = Resting]
    /\ forgone' = [s \in Subs |-> IF r \in Claims(s) THEN forgone[s] + 1 ELSE forgone[s]]
    /\ UNCHANGED <<subscription, start, billed, manager, now, requests>>
----------------------------------------------------------------------------
Bills(r) ==
    \/ ListDue(r)
    \/ \E d \in runner[r].due : Claim(r, d)
    \/ \E d \in runner[r].claim : PlaceOrder(r, d) \/ RecordCycle(r, d) \/ Revert(r, d)

Next ==
    \/ PassDay
    \/ \E s \in Subs, i \in Intervals : \E t \in Days \cup {now + i} : Create(s, i, t)
    \/ \E m \in Managers : WriteChange(m) \/ \E c \in Change : BeginChange(m, c)
    \/ \E r \in Runners : Bills(r) \/ CheckoutFails(r) \/ RecordFails(r) \/ Crash(r)

Spec == Init /\ [][Next]_vars
----------------------------------------------------------------------------
(* The claim is a promise: what BillingPromise says of dates holds of the rows, the
   claims that await their order, and the orders. *)
Promise ==
    INSTANCE BillingPromise
    WITH ahead <- [s \in Subs |-> subscription[s].next],
         taken <- [s \in Subs |-> {t \in Days : \E r \in Runners :
                      runner[r].at = "order" /\ \E d \in runner[r].claim : d.sub = s /\ d.next = t}],
         orders <- billed

BillingPromised == Promise!PromiseSpec

(* No due date is billed twice ("a concurrent run or retry can't double-bill
   the same period"). *)
BilledAtMostOnce == \A s \in Subs, t \in Days : billed[s][t] <= 1

(* The schedule has advanced by one interval for every cycle completed, every
   claim being billed and every claim that died with its run, no more and no less:
   no period is skipped or given twice ("Each due subscription produces one
   discounted order ..., then its schedule advances by one interval"). *)
ScheduleMatchesCycles ==
    \A s \in Subs :
       LET row == subscription[s]
       IN  row.status # "NONE" =>
              row.next = start[s] + row.interval * (row.cycles + Cardinality(Claims(s)) + forgone[s])

(* A subscription that is not active and that no run has claimed gets no order,
   although a run may have listed it while it was still active. *)
InactiveIsNotBilled ==
    [][\A s \in Subs :
         (subscription[s].status # "ACTIVE" /\ Claims(s) = {}) =>
            (billed'[s] = billed[s] /\ Claims(s)' = {})]_vars

(* A date is due, and no run has claimed it. *)
BillingWaits == \E s \in Subs : subscription[s].status = "ACTIVE" /\ IsDue(subscription[s])
============================================================================
