--------------------------- MODULE BillingPromise ---------------------------
(***************************************************************************)
(* What recurring billing promises, whatever runs it: a subscription's     *)
(* dates are taken in order, each at most once; a date that has been taken *)
(* gets its one order or is given up, and never comes back.                *)
(***************************************************************************)
EXTENDS Naturals

CONSTANTS Subs, Days

VARIABLES
    ahead,    \* per subscription: the first date nobody has taken
    taken,    \* per subscription: dates that have been taken and await their order
    orders    \* per subscription and date: orders placed for it

promiseVars == <<ahead, taken, orders>>

PromiseInit ==
    /\ ahead = [s \in Subs |-> 0]
    /\ taken = [s \in Subs |-> {}]
    /\ orders = [s \in Subs |-> [t \in Days |-> 0]]

(* Some date of s moves; the others stay. *)
Moves(s) == ahead'[s] \in Nat /\ ahead' = [ahead EXCEPT ![s] = ahead'[s]]

Subscribe(s) ==
    /\ taken[s] = {} /\ \A d \in Days : orders[s][d] = 0
    /\ Moves(s)
    /\ UNCHANGED <<taken, orders>>

Take(s) ==
    /\ ahead[s] \in Days
    /\ Moves(s) /\ ahead'[s] > ahead[s]
    /\ taken' = [taken EXCEPT ![s] = @ \cup {ahead[s]}]
    /\ UNCHANGED orders

Order(s, t) ==
    /\ t \in taken[s]
    /\ taken' = [taken EXCEPT ![s] = @ \ {t}]
    /\ orders' = [orders EXCEPT ![s][t] = @ + 1]
    /\ UNCHANGED ahead

GiveUp(s, t) ==
    /\ t \in taken[s]
    /\ taken' = [taken EXCEPT ![s] = @ \ {t}]
    /\ UNCHANGED <<ahead, orders>>

PromiseNext ==
    \E s \in Subs :
       \/ Subscribe(s) \/ Take(s)
       \/ \E t \in Days : Order(s, t) \/ GiveUp(s, t)

PromiseSpec == PromiseInit /\ [][PromiseNext]_promiseVars
============================================================================
