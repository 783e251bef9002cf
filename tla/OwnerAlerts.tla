---------------------------- MODULE OwnerAlerts ----------------------------
(***************************************************************************)
(* What the owner of an active store is told unasked.  A stock scan        *)
(* (StockService.recomputeAndAlert, run by the worker and by POST          *)
(* stock/recompute) rates every variant, compares the rating with the one  *)
(* recorded, records the new one and then alerts.  The advisor's run       *)
(* (AdvisorService.runDueAdvisories, the worker only) reports critical     *)
(* findings, once per code and day, and records each after reporting it.   *)
(***************************************************************************)
EXTENDS Naturals, FiniteSets

CONSTANTS
    Variants,
    Scans,         \* executions of recomputeAndAlert that may overlap
    Codes,         \* codes of critical recommendations
    MaxUnits,      \* bound: the inventory of a variant
    MaxSold,       \* bound: its units sold in the trailing window
    ReorderPoint, AmberDays, GreenDays, WindowDays,   \* the stock policy
    DedupeHours,   \* hours for which a code is not reported again
    AlertOps,      \* what an instance lets happen besides alerting
    MaxMoves,      \* bound: changes of stock and sales
    MaxMishaps     \* bound: scans and advisor runs that stop half-way

AllAlertOps == {"stop"}

ASSUME AlertAssumption ==
    /\ IsFiniteSet(Scans)
    /\ MaxUnits \in Nat /\ MaxSold \in Nat
    /\ ReorderPoint \in Nat /\ AmberDays \in Nat /\ GreenDays \in Nat
    /\ WindowDays \in Nat /\ DedupeHours \in Nat
    /\ AlertOps \subseteq AllAlertOps
    /\ MaxMoves \in Nat /\ MaxMishaps \in Nat

VARIABLES
    shelf,        \* per variant: units on hand and units sold in the window
    lastStatus,   \* the rating recorded with it (lastStockStatus)
    scan,         \* per scan: the variants whose rating differs, and its alert
    alerted,      \* alerts about a variant since its rating last changed
    heard,        \* the ratings its owner was told of since it was last GREEN
    findings,     \* the critical codes an evaluation would find now
    advice,       \* the advisor's run: codes it has to go through, code it reports
    sentAge,      \* hours since a code was recorded as sent, up to DedupeHours
    toldAge,      \* hours since the owner was told of it, up to DedupeHours
    early,        \* reports of a code sooner than DedupeHours after the last one
    moves, mishaps

stockAlertVars == <<shelf, lastStatus, scan, alerted, heard, moves>>
adviceVars == <<findings, advice, sentAge, toldAge, early>>
alertVars == <<stockAlertVars, adviceVars, mishaps>>

Ratings == {"RED", "AMBER", "GREEN"}
Shelf == [units : 0..MaxUnits, sold : 0..MaxSold]
Rated == [v : Variants, status : Ratings]
Scan == [at : {"idle", "compare", "notify"}, rows : SUBSET Rated, alert : SUBSET Rated]
NoScan == [at |-> "idle", rows |-> {}, alert |-> {}]
Advice == [at : {"idle", "check", "record"}, codes : SUBSET Codes, told : SUBSET Codes]
NoAdvice == [at |-> "idle", codes |-> {}, told |-> {}]

AlertTypeOK ==
    /\ shelf \in [Variants -> Shelf]
    /\ lastStatus \in [Variants -> Ratings \cup {"NONE"}]
    /\ scan \in [Scans -> Scan]
    /\ alerted \in [Variants -> Nat] /\ heard \in [Variants -> SUBSET Ratings]
    /\ findings \subseteq Codes /\ advice \in Advice
    /\ sentAge \in [Codes -> 0..DedupeHours] /\ toldAge \in [Codes -> 0..DedupeHours]
    /\ early \in Nat /\ moves \in Nat /\ mishaps \in Nat

(* A code never sent is as old as one that may be sent again. *)
AlertInit ==
    /\ \E s \in Shelf : shelf = [v \in Variants |-> s]
    /\ lastStatus = [v \in Variants |-> "NONE"]
    /\ scan = [r \in Scans |-> NoScan]
    /\ alerted = [v \in Variants |-> 0] /\ heard = [v \in Variants |-> {}]
    /\ findings = {} /\ advice = NoAdvice
    /\ sentAge = [c \in Codes |-> DedupeHours] /\ toldAge = [c \in Codes |-> DedupeHours]
    /\ early = 0 /\ moves = 0 /\ mishaps = 0
----------------------------------------------------------------------------
(* The scorer.  The days of cover are units / (sold / WindowDays). *)
CoverBelow(units, sold, days) == units * WindowDays < days * sold

Score(units, sold) ==
    IF units <= ReorderPoint THEN "RED"
    ELSE IF sold = 0 THEN "GREEN"
    ELSE IF CoverBelow(units, sold, AmberDays) THEN "RED"
    ELSE IF CoverBelow(units, sold, GreenDays) THEN "AMBER"
    ELSE "GREEN"

Rating(v) == Score(shelf[v].units, shelf[v].sold)

(* Sales, receipts and adjustments, and the window moving on. *)
MoveShelf(v, s) ==
    /\ s # shelf[v] /\ moves < MaxMoves /\ moves' = moves + 1
    /\ shelf' = [shelf EXCEPT ![v] = s]
    /\ alerted' = IF Score(s.units, s.sold) = Rating(v) THEN alerted ELSE [alerted EXCEPT ![v] = 0]
    /\ UNCHANGED <<lastStatus, scan, heard, adviceVars, mishaps>>

(* A scan rates all variants and reads what is recorded of them. *)
Differs(v) == Rating(v) # lastStatus[v]

TakeStock(r) ==
    LET rows == {[v |-> v, status |-> Rating(v)] : v \in {x \in Variants : Differs(x)}}
    IN  /\ scan[r].at = "idle" /\ rows # {}
        /\ scan' = [scan EXCEPT ![r] = [at |-> "compare", rows |-> rows, alert |-> {}]]
        /\ UNCHANGED <<shelf, lastStatus, alerted, heard, adviceVars, moves, mishaps>>

ScansOn(r, rows) ==
    scan' = [scan EXCEPT ![r] =
               IF rows = {} THEN NoScan ELSE [at |-> "compare", rows |-> rows, alert |-> {}]]

(* The rating is recorded first; AMBER and RED are alerts. *)
AlertingRed(status) == status = "RED"
Alerting(status) == status # "GREEN"

SaveRating(r, l) ==
    /\ scan[r].at = "compare" /\ l \in scan[r].rows
    /\ lastStatus' = [lastStatus EXCEPT ![l.v] = l.status]
    /\ heard' = IF l.status = "GREEN" THEN [heard EXCEPT ![l.v] = {}] ELSE heard
    /\ IF Alerting(l.status)
       THEN scan' = [scan EXCEPT ![r] = [at |-> "notify", rows |-> @.rows \ {l}, alert |-> {l}]]
       ELSE ScansOn(r, scan[r].rows \ {l})
    /\ UNCHANGED <<shelf, alerted, adviceVars, moves, mishaps>>

(* notify() never throws. *)
AlertOwner(r, l) ==
    /\ scan[r].at = "notify" /\ l \in scan[r].alert
    /\ alerted' = [alerted EXCEPT ![l.v] = @ + 1]
    /\ heard' = [heard EXCEPT ![l.v] = @ \cup {l.status}]
    /\ ScansOn(r, scan[r].rows)
    /\ UNCHANGED <<shelf, lastStatus, adviceVars, moves, mishaps>>

(* The store's part of the scan throws, or its process dies. *)
ScanStops(r) ==
    /\ "stop" \in AlertOps /\ mishaps < MaxMishaps /\ mishaps' = mishaps + 1
    /\ scan[r].at # "idle"
    /\ scan' = [scan EXCEPT ![r] = NoScan]
    /\ UNCHANGED <<shelf, lastStatus, alerted, heard, adviceVars, moves>>
----------------------------------------------------------------------------
(* The advisor. *)

CodesAge == \E c \in Codes : sentAge[c] < DedupeHours \/ toldAge[c] < DedupeHours

HourPasses ==
    /\ CodesAge
    /\ sentAge' = [c \in Codes |-> IF sentAge[c] < DedupeHours THEN sentAge[c] + 1 ELSE sentAge[c]]
    /\ toldAge' = [c \in Codes |-> IF toldAge[c] < DedupeHours THEN toldAge[c] + 1 ELSE toldAge[c]]
    /\ UNCHANGED <<stockAlertVars, findings, advice, early, mishaps>>

FindingsChange(f) ==
    /\ f # findings /\ findings' = f
    /\ UNCHANGED <<stockAlertVars, advice, sentAge, toldAge, early, mishaps>>

(* evaluate(); an evaluation that throws finds nothing. *)
Evaluate ==
    /\ advice.at = "idle" /\ findings # {}
    /\ advice' = [at |-> "check", codes |-> findings, told |-> {}]
    /\ UNCHANGED <<stockAlertVars, findings, sentAge, toldAge, early, mishaps>>

AdvisesOn(codes) ==
    advice' = IF codes = {} THEN NoAdvice ELSE [at |-> "check", codes |-> codes, told |-> {}]

MayReport(c) == sentAge[c] >= DedupeHours

SkipCode(c) ==
    /\ advice.at = "check" /\ c \in advice.codes /\ ~MayReport(c)
    /\ AdvisesOn(advice.codes \ {c})
    /\ UNCHANGED <<stockAlertVars, findings, sentAge, toldAge, early, mishaps>>

ReportCode(c) ==
    /\ advice.at = "check" /\ c \in advice.codes /\ MayReport(c)
    /\ early' = IF toldAge[c] < DedupeHours THEN early + 1 ELSE early
    /\ toldAge' = [toldAge EXCEPT ![c] = 0]
    /\ advice' = [at |-> "record", codes |-> advice.codes \ {c}, told |-> {c}]
    /\ UNCHANGED <<stockAlertVars, findings, sentAge, mishaps>>

RecordCode(c) ==
    /\ advice.at = "record" /\ c \in advice.told
    /\ sentAge' = [sentAge EXCEPT ![c] = 0]
    /\ AdvisesOn(advice.codes)
    /\ UNCHANGED <<stockAlertVars, findings, toldAge, early, mishaps>>

AdviceStops ==
    /\ "stop" \in AlertOps /\ mishaps < MaxMishaps /\ mishaps' = mishaps + 1
    /\ advice.at # "idle"
    /\ advice' = NoAdvice
    /\ UNCHANGED <<stockAlertVars, findings, sentAge, toldAge, early>>
----------------------------------------------------------------------------
Scanning(r) ==
    \/ \E l \in scan[r].rows : SaveRating(r, l)
    \/ \E l \in scan[r].alert : AlertOwner(r, l)

Advising == \E c \in Codes : SkipCode(c) \/ ReportCode(c) \/ RecordCode(c)

ShelfMoves == \E v \in Variants, s \in Shelf : MoveShelf(v, s)
FindingsMove == HourPasses \/ \E f \in SUBSET Codes : FindingsChange(f)

AlertNext ==
    \/ ShelfMoves \/ FindingsMove
    \/ \E r \in Scans : TakeStock(r) \/ Scanning(r) \/ ScanStops(r)
    \/ Evaluate \/ Advising \/ AdviceStops

AlertSpec == AlertInit /\ [][AlertNext]_alertVars
----------------------------------------------------------------------------
(* No degradation is recorded in silence: the owner has been told of the recorded
   rating since the variant was last GREEN, or a scan is about to tell, whatever
   other scans have recorded in between.  A scan that stops between the two is
   the exception. *)
RecordedIsTold ==
    mishaps = 0 =>
       \A v \in Variants :
          lastStatus[v] \in {"RED", "AMBER"} =>
             \/ lastStatus[v] \in heard[v]
             \/ \E r \in Scans : [v |-> v, status |-> lastStatus[v]] \in scan[r].alert

(* A rating that does not change is not alerted again and again.  Of n scans at most
   n hold a rating read before the change: the k-th of them to record it sends its
   alert, and each of the k scans with nothing left may then read the variant anew
   and correct what was recorded: n alerts and 1 + ... + n corrections. *)
AlertsPerChange ==
    \A v \in Variants : 2 * alerted[v] <= Cardinality(Scans) * (Cardinality(Scans) + 3)

(* Units received never make the rating worse, units sold never better. *)
Worse(a, b) == a = b \/ a = "RED" \/ b = "GREEN"
RatingFollowsStock ==
    \A v \in Variants, s \in Shelf :
       (s.units >= shelf[v].units /\ s.sold <= shelf[v].sold) =>
          Worse(Rating(v), Score(s.units, s.sold))

(* "The same alert isn't re-sent within dedupeHours", but for runs that stop
   between reporting and recording. *)
DedupedPerCode == early <= mishaps

(* The owner hears of what went wrong, of what it is, and not again and again. *)
OwnerIsTold == RecordedIsTold /\ AlertsPerChange /\ RatingFollowsStock /\ DedupedPerCode

(* A rating has moved on from the one recorded. *)
RatingWaits == \E v \in Variants : lastStatus[v] # Rating(v)

(* A critical finding has not been told for a day. *)
FindingWaits == \E c \in findings : toldAge[c] >= DedupeHours
============================================================================
