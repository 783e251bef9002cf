---------------------------- MODULE HistoryImport ----------------------------
(***************************************************************************)
(* Importing an export of historical orders into a store                   *)
(* (StoreImportService.createOrders) while its storefront takes new ones   *)
(* (PaymentService.checkout).  An import reads once which references and   *)
(* which number the store has, and then keeps count on its own; both       *)
(* insert under a unique [storeId, number].  References are not unique.    *)
(***************************************************************************)
EXTENDS Naturals, Sequences, FiniteSets

CONSTANTS
    Importers,       \* import jobs that may overlap
    Buyers,          \* checkouts that may overlap
    Rows,            \* the references of the export's rows, in order
    MaxImports,      \* bound: imports
    MaxCheckouts,    \* bound: checkouts
    MaxRowErrors     \* bound: inserts that fail for another reason, and jobs that die

ASSUME ImportAssumption ==
    /\ Rows \in Seq(STRING)
    /\ \A i \in DOMAIN Rows : Rows[i] # "storefront"      \* a reference, not the mark of its absence
    /\ IsFiniteSet(Importers)
    /\ MaxImports \in Nat /\ MaxCheckouts \in Nat /\ MaxRowErrors \in Nat

VARIABLES
    orders,          \* the store's orders: number and reference
    import,          \* per job: where it stands, what it has read and counted
    buyer,           \* per checkout: the number it will insert, 0 before
    foreign,         \* per job: orders that others have inserted since it read the number
    overlapped,      \* have two jobs been running at once?
    imports, checkouts, rowErrors   \* how many so far

importVars == <<orders, import, buyer, foreign, overlapped, imports, checkouts, rowErrors>>

Refs == {Rows[i] : i \in DOMAIN Rows}
Storefront == "storefront"         \* orders without a reference
Order == [number : Nat, ref : Refs \cup {Storefront}]
ImportJob == [at : {"none", "number", "rows", "completed"}, dry : BOOLEAN, seen : SUBSET Refs,
              next : Nat, row : Nat, created : Nat, skipped : Nat, failed : Nat, errors : Nat]
NoImport == [at |-> "none", dry |-> FALSE, seen |-> {}, next |-> 0, row |-> 1,
             created |-> 0, skipped |-> 0, failed |-> 0, errors |-> 0]

ImportTypeOK ==
    /\ orders \subseteq Order
    /\ import \in [Importers -> ImportJob]
    /\ buyer \in [Buyers -> Nat]
    /\ foreign \in [Importers -> Nat]
    /\ overlapped \in BOOLEAN
    /\ imports \in Nat /\ checkouts \in Nat /\ rowErrors \in Nat

ImportInit ==
    /\ orders = {} /\ overlapped = FALSE
    /\ import = [j \in Importers |-> NoImport] /\ foreign = [j \in Importers |-> 0]
    /\ buyer = [b \in Buyers |-> 0]
    /\ imports = 0 /\ checkouts = 0 /\ rowErrors = 0

LastOrder == IF orders = {} THEN 0
             ELSE CHOOSE n \in {o.number : o \in orders} : \A o \in orders : o.number <= n
Taken(n) == \E o \in orders : o.number = n
Running(j) == import[j].at \in {"number", "rows"}
----------------------------------------------------------------------------
(* execute() creates the job; createOrders reads what has been imported, *)
StartImport(j, dry) ==
    /\ ~Running(j)
    /\ imports < MaxImports /\ imports' = imports + 1
    /\ import' = [import EXCEPT ![j] =
                    [NoImport EXCEPT !.at = "number", !.dry = dry,
                                     !.seen = {o.ref : o \in orders} \cap Refs]]
    /\ overlapped' = (overlapped \/ \E i \in Importers \ {j} : Running(i))
    /\ UNCHANGED <<orders, buyer, foreign, checkouts, rowErrors>>

(* then the highest number, *)
ReadNumber(j) ==
    /\ import[j].at = "number"
    /\ import' = [import EXCEPT ![j].at = "rows", ![j].next = LastOrder + 1]
    /\ foreign' = [foreign EXCEPT ![j] = 0]
    /\ UNCHANGED <<orders, buyer, overlapped, imports, checkouts, rowErrors>>

(* and goes through the rows.  `number: nextNumber++` counts on whether or not the
   insert succeeds. *)
Skipped(r) == [r EXCEPT !.row = @ + 1, !.skipped = @ + 1]
Previewed(r) == [r EXCEPT !.row = @ + 1, !.created = @ + 1, !.seen = @ \cup {Rows[r.row]}]
Created(r) == [r EXCEPT !.row = @ + 1, !.created = @ + 1, !.seen = @ \cup {Rows[r.row]}, !.next = @ + 1]
FailedAsSkipped(r) == [r EXCEPT !.row = @ + 1, !.skipped = @ + 1, !.next = @ + 1]
Failed(r) == [r EXCEPT !.row = @ + 1, !.failed = @ + 1, !.next = @ + 1]
FailedItself(r) == [r EXCEPT !.row = @ + 1, !.failed = @ + 1, !.next = @ + 1, !.errors = @ + 1]

IsNew(r) == Rows[r.row] \notin r.seen

AtRow(j) == import[j].at = "rows" /\ import[j].row <= Len(Rows)

ImportRow(j) ==
    LET r == import[j] IN
    /\ AtRow(j)
    /\ LET inserts == IsNew(r) /\ ~r.dry /\ ~Taken(r.next)
       IN  /\ import' = [import EXCEPT ![j] =
                 IF ~IsNew(r) THEN Skipped(r) ELSE IF r.dry THEN Previewed(r)
                 ELSE IF inserts THEN Created(r) ELSE Failed(r)]
           /\ orders' = IF inserts THEN orders \cup {[number |-> r.next, ref |-> Rows[r.row]]}
                        ELSE orders
           /\ foreign' = [i \in Importers |-> IF inserts /\ i # j THEN foreign[i] + 1 ELSE foreign[i]]
    /\ UNCHANGED <<buyer, overlapped, imports, checkouts, rowErrors>>

(* The insert fails for a reason of its own. *)
RowFails(j) ==
    /\ AtRow(j) /\ IsNew(import[j]) /\ ~import[j].dry
    /\ rowErrors < MaxRowErrors /\ rowErrors' = rowErrors + 1
    /\ import' = [import EXCEPT ![j] = FailedItself(@)]
    /\ UNCHANGED <<orders, buyer, foreign, overlapped, imports, checkouts>>

ImportCompletes(j) ==
    /\ import[j].at = "rows" /\ import[j].row > Len(Rows)
    /\ import' = [import EXCEPT ![j].at = "completed"]
    /\ UNCHANGED <<orders, buyer, foreign, overlapped, imports, checkouts, rowErrors>>

(* The process dies: the job's row stays RUNNING, and nothing resumes it. *)
ImportDies(j) ==
    /\ Running(j)
    /\ rowErrors < MaxRowErrors /\ rowErrors' = rowErrors + 1
    /\ import' = [import EXCEPT ![j] = NoImport]
    /\ UNCHANGED <<orders, buyer, foreign, overlapped, imports, checkouts>>
----------------------------------------------------------------------------
(* checkout's transaction: the highest number, then the insert, which throws if
   somebody else was faster. *)
CheckoutReads(b) ==
    /\ buyer[b] = 0
    /\ checkouts < MaxCheckouts /\ checkouts' = checkouts + 1
    /\ buyer' = [buyer EXCEPT ![b] = LastOrder + 1]
    /\ UNCHANGED <<orders, import, foreign, overlapped, imports, rowErrors>>

CheckoutInserts(b) ==
    /\ buyer[b] > 0
    /\ IF Taken(buyer[b]) THEN UNCHANGED <<orders, foreign>>
       ELSE /\ orders' = orders \cup {[number |-> buyer[b], ref |-> Storefront]}
            /\ foreign' = [j \in Importers |-> foreign[j] + 1]
    /\ buyer' = [buyer EXCEPT ![b] = 0]
    /\ UNCHANGED <<import, overlapped, imports, checkouts, rowErrors>>
----------------------------------------------------------------------------
ImportNext ==
    \/ \E j \in Importers :
          \/ ReadNumber(j) \/ ImportRow(j) \/ RowFails(j) \/ ImportCompletes(j) \/ ImportDies(j)
          \/ \E dry \in BOOLEAN : StartImport(j, dry)
    \/ \E b \in Buyers : CheckoutReads(b) \/ CheckoutInserts(b)

ImportSpec == ImportInit /\ [][ImportNext]_importVars
----------------------------------------------------------------------------
CopiesOf(ref) == Cardinality({o \in orders : o.ref = ref})

(* "Idempotent": however often an export is imported, and wherever an import died,
   each of its orders is there at most once, unless two imports ran at once, and
   then once for each of them. *)
ImportedOnce ==
    \A ref \in Refs : CopiesOf(ref) <= IF overlapped THEN Cardinality(Importers) ELSE 1

(* "Resumable": what a completed import did not bring in, it reports as failed. *)
MissingAreReported ==
    \A j \in Importers :
       (import[j].at = "completed" /\ ~import[j].dry) =>
          Cardinality({ref \in Refs : CopiesOf(ref) = 0}) <= import[j].failed

(* Every order that somebody else inserts meanwhile costs an import at most one
   row: after a collision it finds its way back to free numbers. *)
FailuresAreCollisions ==
    \A j \in Importers : import[j].failed <= foreign[j] + import[j].errors

(* An import brings in what is missing, once, and reports the rest. *)
ImportsAreComplete == ImportedOnce /\ MissingAreReported /\ FailuresAreCollisions
============================================================================
