---------------------------- MODULE CartRecovery ----------------------------
(***************************************************************************)
(* Carts and their abandonment (CartService).  Shoppers' requests change   *)
(* items and then "touch" the cart, a captured payment settles it, and the *)
(* recovery job, run by the worker's tick and on request (POST             *)
(* carts/run-recovery), marks idle carts abandoned and sends reminders.    *)
(* None of these writes is conditional: each follows a read of the cart's  *)
(* row, and every database statement is an action.                         *)
(***************************************************************************)
EXTENDS Naturals, Sequences, FiniteSets

CONSTANTS
    Carts,
    Requests,       \* request and webhook handlers
    Jobs,           \* executions of runRecoveryJobs that may overlap
    AbandonAfter,   \* the policy's abandonAfterMinutes
    StepDelays,     \* the policy's stepDelaysMinutes
    LineCap,        \* the largest quantity of a line (99)
    Quantities,     \* quantities a shopper asks for
    RecoveryOps,    \* what an instance lets happen besides shopping
    LastMinute,     \* bound: the last minute of the clock
    MaxCalls,       \* bound: requests of shoppers and the merchant
    MaxFaults       \* bound: handlers and jobs that stop half-way

Minutes == 0..LastMinute
AllRecoveryOps == {"pay", "consent", "policy", "fail"}

ASSUME RecoveryAssumption ==
    /\ IsFiniteSet(Jobs) /\ AbandonAfter \in Nat
    /\ StepDelays \in Seq(Nat)
    /\ LineCap \in Nat /\ Quantities \subseteq Nat
    /\ RecoveryOps \subseteq AllRecoveryOps
    /\ LastMinute \in Nat /\ MaxCalls \in Nat /\ MaxFaults \in Nat

VARIABLES
    minute,      \* the clock
    cart,        \* per cart its row
    units,       \* per cart the quantity of its line, 0 without one
    ordered,     \* carts with an order that waits for its payment
    paid,        \* carts whose captured payment has been attributed
    optedOut,    \* carts whose customer has unsubscribed
    recovery,    \* is the store's recovery policy enabled?
    request,     \* per handler: where it stands, its cart, the status it has read
    job,         \* per execution of the job: where it stands and what it has listed
    reminders,   \* per cart: reminders since it was found idle and marked
    slipped,     \* carts with a write that overwrote what its handler had not read
    calls,       \* requests so far
    faults       \* handlers and jobs stopped so far

recoveryVars == <<minute, cart, units, ordered, paid, optedOut, recovery, request, job,
                  reminders, slipped, calls, faults>>

CartStatus == {"ACTIVE", "ABANDONED", "CONVERTED", "RECOVERED"}
Settled == {"CONVERTED", "RECOVERED"}
CartRow == [status : CartStatus, activity : Minutes, since : Minutes, steps : Nat]

Free == [at |-> "free"]
Handling == [at : {"clamp", "touch"}, c : Carts]
            \cup [at : {"wake", "settle"}, c : Carts, saw : CartStatus]

(* A job has the idle carts it listed, with the activity it read, and later those
   to remind and the one reminded last. *)
Listed == [c : Carts, activity : Minutes]
RecoveryJob == [at : {"idle", "mark", "remind", "count"}, began : Minutes,
                rows : SUBSET Listed, todo : SUBSET Carts, sent : SUBSET Carts]
NoJob == [at |-> "idle", began |-> 0, rows |-> {}, todo |-> {}, sent |-> {}]

CartTypeOK ==
    /\ minute \in Minutes
    /\ cart \in [Carts -> CartRow] /\ units \in [Carts -> Nat]
    /\ ordered \subseteq Carts /\ paid \subseteq Carts /\ optedOut \subseteq Carts
    /\ recovery \in BOOLEAN
    /\ request \in [Requests -> {Free} \cup Handling]
    /\ job \in [Jobs -> RecoveryJob]
    /\ reminders \in [Carts -> Nat] /\ slipped \subseteq Carts
    /\ calls \in Nat /\ faults \in Nat

(* createCart. *)
RecoveryInit ==
    /\ minute = 0
    /\ cart = [c \in Carts |-> [status |-> "ACTIVE", activity |-> 0, since |-> 0, steps |-> 0]]
    /\ units = [c \in Carts |-> 1]
    /\ ordered = {} /\ paid = {} /\ optedOut = {} /\ recovery = TRUE
    /\ request = [r \in Requests |-> Free]
    /\ job = [j \in Jobs |-> NoJob]
    /\ reminders = [c \in Carts |-> 0] /\ slipped = {}
    /\ calls = 0 /\ faults = 0

PassMinute ==
    /\ minute < LastMinute
    /\ minute' = minute + 1
    /\ UNCHANGED <<cart, units, ordered, paid, optedOut, recovery, request, job, reminders,
                   slipped, calls, faults>>
----------------------------------------------------------------------------
(* Shoppers: addItem, setItemQuantity, removeItem and removeVariant. *)

Requested(r, h) ==
    /\ request[r] = Free /\ calls < MaxCalls /\ calls' = calls + 1
    /\ request' = [request EXCEPT ![r] = h]

(* addItem increments the line first. *)
AddItem(r, c, n) ==
    /\ n > 0
    /\ Requested(r, [at |-> "clamp", c |-> c])
    /\ units' = [units EXCEPT ![c] = @ + n]
    /\ UNCHANGED <<minute, cart, ordered, paid, optedOut, recovery, job, reminders, slipped, faults>>

(* ... and then brings it down to the ceiling. *)
Clamped(n) == IF n > LineCap THEN LineCap ELSE n

ClampLine(r) ==
    /\ request[r].at = "clamp"
    /\ units' = [units EXCEPT ![request[r].c] = Clamped(@)]
    /\ request' = [request EXCEPT ![r].at = "touch"]
    /\ UNCHANGED <<minute, cart, ordered, paid, optedOut, recovery, job, reminders, slipped, calls, faults>>

(* Quantity 0 deletes the line; another one needs a line to change. *)
SetItemQuantity(r, c, n) ==
    /\ n = 0 \/ units[c] > 0
    /\ Requested(r, [at |-> "touch", c |-> c])
    /\ units' = [units EXCEPT ![c] = IF n > LineCap THEN LineCap ELSE n]
    /\ UNCHANGED <<minute, cart, ordered, paid, optedOut, recovery, job, reminders, slipped, faults>>

(* touch() reads the status, and writes the activity later. *)
ReadCart(r) ==
    LET c == request[r].c IN
    /\ request[r].at = "touch"
    /\ request' = [request EXCEPT ![r] = [at |-> "wake", c |-> c, saw |-> cart[c].status]]
    /\ UNCHANGED <<minute, cart, units, ordered, paid, optedOut, recovery, job, reminders, slipped, calls, faults>>

Slips(c, saw) == IF cart[c].status = saw THEN slipped ELSE slipped \cup {c}

(* An abandoned cart comes back to life. *)
WokenAlways(status, saw) == "ACTIVE"
Woken(status, saw) == IF saw = "ABANDONED" THEN "ACTIVE" ELSE status

TouchCart(r) ==
    LET c == request[r].c IN
    /\ request[r].at = "wake"
    /\ cart' = [cart EXCEPT ![c].status = Woken(@, request[r].saw), ![c].activity = minute]
    /\ slipped' = Slips(c, request[r].saw)
    /\ request' = [request EXCEPT ![r] = Free]
    /\ UNCHANGED <<minute, units, ordered, paid, optedOut, recovery, job, reminders, calls, faults>>
----------------------------------------------------------------------------
(* checkoutCart leaves the cart's status alone; the capture of the order's
   payment reads it (applyPaymentStatus) and settles the cart. *)

CheckOut(c) ==
    /\ "pay" \in RecoveryOps /\ units[c] > 0
    /\ calls < MaxCalls /\ calls' = calls + 1
    /\ ordered' = ordered \cup {c}
    /\ UNCHANGED <<minute, cart, units, paid, optedOut, recovery, request, job, reminders, slipped, faults>>

Capture(r, c) ==
    /\ request[r] = Free /\ c \in ordered
    /\ ordered' = ordered \ {c}
    /\ IF cart[c].status \in Settled THEN UNCHANGED request
       ELSE request' = [request EXCEPT ![r] = [at |-> "settle", c |-> c, saw |-> cart[c].status]]
    /\ UNCHANGED <<minute, cart, units, paid, optedOut, recovery, job, reminders, slipped, calls, faults>>

SettledAsOrder(saw) == "PAID"
SettledAs(saw) == IF saw = "ABANDONED" THEN "RECOVERED" ELSE "CONVERTED"

SettleCart(r) ==
    LET c == request[r].c IN
    /\ request[r].at = "settle"
    /\ cart' = [cart EXCEPT ![c].status = SettledAs(request[r].saw)]
    /\ paid' = paid \cup {c}
    /\ slipped' = Slips(c, request[r].saw)
    /\ request' = [request EXCEPT ![r] = Free]
    /\ UNCHANGED <<minute, units, ordered, optedOut, recovery, job, reminders, calls, faults>>

Unsubscribe(c) ==
    /\ "consent" \in RecoveryOps /\ c \notin optedOut
    /\ calls < MaxCalls /\ calls' = calls + 1
    /\ optedOut' = optedOut \cup {c}
    /\ UNCHANGED <<minute, cart, units, ordered, paid, recovery, request, job, reminders, slipped, faults>>

SetRecoveryPolicy ==
    /\ "policy" \in RecoveryOps
    /\ calls < MaxCalls /\ calls' = calls + 1
    /\ recovery' = ~recovery
    /\ UNCHANGED <<minute, cart, units, ordered, paid, optedOut, request, job, reminders, slipped, faults>>

(* A handler stops between two statements. *)
RequestFails(r) ==
    /\ "fail" \in RecoveryOps /\ faults < MaxFaults /\ faults' = faults + 1
    /\ request[r] # Free
    /\ request' = [request EXCEPT ![r] = Free]
    /\ UNCHANGED <<minute, cart, units, ordered, paid, optedOut, recovery, job, reminders, slipped, calls>>
----------------------------------------------------------------------------
(* runRecoveryJobs.  The policy is read first (a disabled one leaves nothing to
   do), then the carts to mark, later those to remind. *)

RowOf(c) == [c |-> c, activity |-> cart[c].activity]

IsIdle(activity, t) == t - activity >= AbandonAfter

StartRecovery(j) ==
    /\ job[j].at = "idle" /\ recovery
    /\ job' = [job EXCEPT ![j] =
                 [NoJob EXCEPT !.at = "mark", !.began = minute,
                  !.rows = {RowOf(c) : c \in {x \in Carts : /\ cart[x].status = "ACTIVE" /\ units[x] > 0
                                                          /\ IsIdle(cart[x].activity, minute)}}]]
    /\ UNCHANGED <<minute, cart, units, ordered, paid, optedOut, recovery, request, reminders, slipped, calls, faults>>

(* The write of an idle cart is by id, whatever happened to it since. *)
MarkAbandoned(j, l) ==
    /\ job[j].at = "mark" /\ l \in job[j].rows
    /\ cart' = [cart EXCEPT ![l.c] = [@ EXCEPT !.status = "ABANDONED", !.since = job[j].began, !.steps = 0]]
    /\ reminders' = IF cart[l.c].status = "ACTIVE" THEN [reminders EXCEPT ![l.c] = 0] ELSE reminders
    /\ slipped' = IF cart[l.c].status = "ACTIVE" /\ cart[l.c].activity = l.activity THEN slipped
                  ELSE slipped \cup {l.c}
    /\ job' = [job EXCEPT ![j].rows = @ \ {l}]
    /\ UNCHANGED <<minute, units, ordered, paid, optedOut, recovery, request, calls, faults>>

StepsLeft(steps) == steps < Len(StepDelays)
StepDueAgain(c, t) == \E k \in 1..Len(StepDelays) : t >= cart[c].since + StepDelays[k]
StepDue(c, t) == StepsLeft(cart[c].steps) /\ t >= cart[c].since + StepDelays[cart[c].steps + 1]

(* With the carts still to remind, or at an end. *)
RemindsOn(j, todo) ==
    job' = [job EXCEPT ![j] = IF todo = {} THEN NoJob
                              ELSE [NoJob EXCEPT !.at = "remind", !.todo = todo]]

ListAbandoned(j) ==
    /\ job[j].at = "mark" /\ job[j].rows = {}
    /\ RemindsOn(j, {c \in Carts : cart[c].status = "ABANDONED" /\ StepDue(c, job[j].began)})
    /\ UNCHANGED <<minute, cart, units, ordered, paid, optedOut, recovery, request, reminders, slipped, calls, faults>>

(* sendRecovery: an opted-out customer is not messaged, but the step counts as
   taken.  notify() never throws; it sends if a channel is configured. *)
SendReminder(j, c) ==
    /\ job[j].at = "remind" /\ c \in job[j].todo
    /\ reminders' = IF c \in optedOut THEN reminders ELSE [reminders EXCEPT ![c] = @ + 1]
    /\ job' = [job EXCEPT ![j].at = "count", ![j].todo = @ \ {c}, ![j].sent = {c}]
    /\ UNCHANGED <<minute, cart, units, ordered, paid, optedOut, recovery, request, slipped, calls, faults>>

(* The step is counted on the row as it is now, reminder or not. *)
CountedIfSent(c) == IF c \in optedOut THEN cart[c].steps ELSE cart[c].steps + 1
Counted(c) == cart[c].steps + 1

CountStep(j, c) ==
    /\ job[j].at = "count" /\ c \in job[j].sent
    /\ cart' = [cart EXCEPT ![c].steps = Counted(c)]
    /\ RemindsOn(j, job[j].todo)
    /\ UNCHANGED <<minute, units, ordered, paid, optedOut, recovery, request, reminders, slipped, calls, faults>>

(* A statement of the job throws, or its process dies. *)
RecoveryStops(j) ==
    /\ "fail" \in RecoveryOps /\ faults < MaxFaults /\ faults' = faults + 1
    /\ job[j].at # "idle"
    /\ job' = [job EXCEPT ![j] = NoJob]
    /\ UNCHANGED <<minute, cart, units, ordered, paid, optedOut, recovery, request, reminders, slipped, calls>>
----------------------------------------------------------------------------
RecoverySteps(j) ==
    \/ ListAbandoned(j)
    \/ \E l \in job[j].rows : MarkAbandoned(j, l)
    \/ \E c \in Carts : SendReminder(j, c) \/ CountStep(j, c)

Handles(r) == ClampLine(r) \/ ReadCart(r) \/ TouchCart(r) \/ SettleCart(r)

ShopperSteps ==
    \/ \E r \in Requests :
          \/ Handles(r) \/ RequestFails(r)
          \/ \E c \in Carts :
                \/ Capture(r, c)
                \/ \E n \in Quantities : AddItem(r, c, n) \/ SetItemQuantity(r, c, n)
    \/ \E c \in Carts : CheckOut(c) \/ Unsubscribe(c)
    \/ SetRecoveryPolicy

RecoveryNext ==
    \/ PassMinute \/ ShopperSteps
    \/ \E j \in Jobs : StartRecovery(j) \/ RecoverySteps(j) \/ RecoveryStops(j)

RecoverySpec == RecoveryInit /\ [][RecoveryNext]_recoveryVars
----------------------------------------------------------------------------
(* "The cart is converted when payment is captured": once its payment is
   attributed a cart stays settled, and so gets no reminder, except after a write
   that slipped in between another handler's read and write. *)
PaidCartsStaySettled == \A c \in paid \ slipped : cart[c].status \in Settled

(* "Carts idle longer than this are considered abandoned": a reminder only goes to
   a cart that had been idle for that long when it was marked, unless a write
   slipped, or the shopper came back after the job had listed the cart.  While it
   stays abandoned a cart gets each step once, and one reminder more for every
   other job that overlaps (it may have listed the same step) and every one that
   stops after sending and before counting. *)
RemindersAreDue ==
    [][\A c \in Carts \ slipped :
         (reminders'[c] > reminders[c] /\ c \notin slipped') =>
            /\ cart[c].status = "ABANDONED" => cart[c].activity + AbandonAfter <= cart[c].since
            /\ reminders'[c] <= Len(StepDelays) + Cardinality(Jobs) - 1 + faults']_recoveryVars

(* What a recovery job that started now would do something about. *)
RecoveryWaits ==
    \E c \in Carts :
       /\ recovery
       /\ \/ cart[c].status = "ACTIVE" /\ units[c] > 0 /\ IsIdle(cart[c].activity, minute)
          \/ cart[c].status = "ABANDONED" /\ StepDue(c, minute)
============================================================================
