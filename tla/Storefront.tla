----------------------------- MODULE Storefront -----------------------------
(***************************************************************************)
(* A shopper's browser (src/storefront): tabs that share one cart id in    *)
(* localStorage, each with its own copy of the cart and, on the cart page, *)
(* of the quoted total.  Every operation is a request whose answer is the  *)
(* cart, and answers arrive in any order.  What the server does inside a   *)
(* request is CartRecovery's and Redemptions' subject; here it is a step.  *)
(***************************************************************************)
EXTENDS Naturals, Sequences, FiniteSets

CONSTANTS
    Tabs,
    Products,      \* the variants on sale
    Bundle,        \* the items of a "buy together" offer, in order
    MaxCarts,      \* bound: carts created
    MaxActs,       \* bound: things the shopper does
    MaxTrouble     \* bound: things done while a request is in flight, and calls lost

ASSUME StorefrontAssumption ==
    /\ IsFiniteSet(Tabs) /\ IsFiniteSet(Products)
    /\ Bundle \in Seq(Products) /\ Bundle # << >>
    /\ MaxCarts \in Nat /\ MaxActs \in Nat /\ MaxTrouble \in Nat

NoCart == 0
CartIds == 1..MaxCarts

VARIABLES
    carts,      \* the server's carts, by id
    created,    \* how many there are
    orders,     \* orders placed, per cart
    stored,     \* the cart id in localStorage
    tab,        \* per tab: cart id and cart held, page, quote, bundle being added
    calls,      \* requests in flight, and their answers
    charged,    \* per order: the cart and the quote that were shown, the cart ordered
    acts, faults,
    acted,      \* tabs the shopper has used
    rushed,     \* things the shopper did while a request was in flight
    walkouts    \* times the shopper left the page that was checking out

server == <<carts, created, orders, charged>>
shopper == <<acts, acted, rushed, walkouts>>
storefrontVars == <<server, stored, tab, calls, shopper, faults>>

Contents == [Products -> Nat]
Empty == [p \in Products |-> 0]
Lines(x) == {p \in Products : x[p] > 0}

Tab == [cart : CartIds \cup {NoCart}, shown : Contents, page : {"shop", "cart"},
        busy : SUBSET Nat, quote : SUBSET Contents,
        adding : BOOLEAN, left : Seq(Products), into : CartIds \cup {NoCart}]
Blank == [cart |-> NoCart, shown |-> Empty, page |-> "shop", busy |-> {}, quote |-> {},
          adding |-> FALSE, left |-> << >>, into |-> NoCart]

Reading(c) == [what : {"load", "quote"}, t : Tabs, c : c, at : {"sent", "answered", "failed"}, got : Contents]
Edit == [what : {"create", "add", "set", "remove"}, t : Tabs, c : CartIds \cup {NoCart},
         p : Products, n : Nat, no : Nat, bundle : BOOLEAN,
         at : {"sent", "answered", "failed"}, got : Contents]
Checkout == [what : {"checkout"}, t : Tabs, c : CartIds \cup {NoCart}, no : Nat, saw : Contents,
             quote : SUBSET Contents, at : {"sent", "answered", "failed"}, got : Contents]

StorefrontTypeOK ==
    /\ carts \in [CartIds -> Contents] /\ created \in 0..MaxCarts
    /\ orders \in [CartIds -> Nat] /\ stored \in 0..created
    /\ tab \in [Tabs -> Tab]
    /\ \A k \in calls : k \in Reading(CartIds) \cup Edit \cup Checkout
    /\ \A o \in charged : o.saw \in Contents /\ o.got \in Contents
    /\ acts \in 0..MaxActs /\ rushed \in Nat
    /\ acted \subseteq Tabs /\ faults \in Nat /\ rushed + faults \in 0..MaxTrouble /\ walkouts \in 0..MaxActs

StorefrontInit ==
    /\ carts = [c \in CartIds |-> Empty] /\ created = 0
    /\ orders = [c \in CartIds |-> 0] /\ charged = {}
    /\ stored = NoCart /\ tab = [t \in Tabs |-> Blank] /\ calls = {}
    /\ acts = 0 /\ faults = 0 /\ acted = {} /\ rushed = 0 /\ walkouts = 0
----------------------------------------------------------------------------
(* Requests. *)

ReadAlways(what, t, c) == {[what |-> what, t |-> t, c |-> c, at |-> "sent", got |-> Empty]}
Read(what, t, c) ==
    IF c = NoCart THEN {}
    ELSE {[what |-> what, t |-> t, c |-> c, at |-> "sent", got |-> Empty]}

Change(what, t, c, p, n, no, bundle) ==
    [what |-> what, t |-> t, c |-> c, p |-> p, n |-> n, no |-> no, bundle |-> bundle,
     at |-> "sent", got |-> Empty]

(* addToCart creates a cart unless the closure it is called from has one. *)
AddTo(t, c, p, no, bundle) ==
    Change(IF c = NoCart THEN "create" ELSE "add", t, c, p, 1, no, bundle)

(* The shopper does something in a tab.  Adding a bundle to no cart is itself doing
   several things at a time. *)
ActsAs(t, several) ==
    /\ acts < MaxActs /\ acts' = acts + 1
    /\ acted' = acted \cup {t}
    /\ rushed' = rushed + (IF calls # {} \/ several THEN 1 ELSE 0) /\ rushed' + faults <= MaxTrouble
    /\ UNCHANGED <<server, stored, faults>>

Acts(t) == ActsAs(t, FALSE) /\ UNCHANGED walkouts

(* The "Add" buttons of every page. *)
AddToCart(t, p) ==
    /\ Acts(t)
    /\ calls' = calls \cup {AddTo(t, tab[t].cart, p, acts, FALSE)}
    /\ UNCHANGED tab

(* The buttons of the cart page count from the quantity they show. *)
SetQty(t, p, n) ==
    /\ tab[t].page = "cart" /\ tab[t].cart # NoCart
    /\ p \in Lines(tab[t].shown) /\ n \in {tab[t].shown[p] - 1, tab[t].shown[p] + 1}
    /\ Acts(t)
    /\ calls' = calls \cup {Change("set", t, tab[t].cart, p, n, acts, FALSE)}
    /\ UNCHANGED tab

RemoveItem(t, p) ==
    /\ tab[t].page = "cart" /\ tab[t].cart # NoCart /\ p \in Lines(tab[t].shown)
    /\ Acts(t)
    /\ calls' = calls \cup {Change("remove", t, tab[t].cart, p, 0, acts, FALSE)}
    /\ UNCHANGED tab

(* addBundle, on a product's page: one item after the other, all to the cart known at
   the click.  A tab adds one bundle at a time (a bound: a page opened anew has a
   button of its own). *)
AddBundle(t) ==
    /\ tab[t].page = "shop" /\ ~tab[t].adding
    /\ ActsAs(t, tab[t].cart = NoCart /\ Len(Bundle) > 1)
    /\ tab' = [tab EXCEPT ![t].adding = TRUE, ![t].into = tab[t].cart, ![t].left = Tail(Bundle)]
    /\ calls' = calls \cup {AddTo(t, tab[t].cart, Head(Bundle), acts, TRUE)}
    /\ UNCHANGED walkouts

(* The cart page asks for the quote when it opens.  Leaving it forgets what the page
   held, the busy button and the awaited quotes included. *)
OpenCartPage(t) ==
    /\ tab[t].page = "shop" /\ Acts(t)
    /\ tab' = [tab EXCEPT ![t].page = "cart"]
    /\ calls' = calls \cup Read("quote", t, tab[t].cart)

Left(t) == [tab[t] EXCEPT !.page = "shop", !.busy = {}, !.quote = {}]
OnPage(t) == {k \in calls : k.t = t /\ k.what = "quote"}

LeaveCartPage(t) ==
    /\ tab[t].page = "cart" /\ ActsAs(t, FALSE)
    /\ walkouts' = walkouts + Cardinality(tab[t].busy)
    /\ tab' = [tab EXCEPT ![t] = Left(t)]
    /\ calls' = calls \ OnPage(t)

(* A tab that waits for nothing is reloaded. *)
Reload(t) ==
    /\ \A k \in calls : k.t # t
    /\ Acts(t)
    /\ tab' = [tab EXCEPT ![t] = [Blank EXCEPT !.cart = stored, !.page = tab[t].page]]
    /\ calls' = calls \cup Read("load", t, stored)
                 \cup (IF tab[t].page = "cart" THEN Read("quote", t, stored) ELSE {})

MayPressAlways(t) == tab[t].page = "cart" /\ Lines(tab[t].shown) # {}
MayPress(t) == tab[t].page = "cart" /\ Lines(tab[t].shown) # {} /\ tab[t].busy = {}

PressCheckout(t) ==
    /\ MayPress(t) /\ Acts(t)
    /\ tab' = [tab EXCEPT ![t].busy = {acts}]
    /\ calls' = calls \cup
          {[what |-> "checkout", t |-> t, c |-> tab[t].cart, no |-> acts, saw |-> tab[t].shown,
            quote |-> tab[t].quote, at |-> "sent", got |-> Empty]}
----------------------------------------------------------------------------
(* The server. *)

Answers(k, c, x) == calls' = (calls \ {k}) \cup {[k EXCEPT !.at = "answered", !.c = c, !.got = x]}
Waits(k) == k.at = "sent" /\ UNCHANGED <<stored, tab, shopper, faults>>

ServerCreates(k) ==
    /\ Waits(k) /\ k.what = "create" /\ created < MaxCarts
    /\ created' = created + 1
    /\ carts' = [carts EXCEPT ![created'] = [Empty EXCEPT ![k.p] = k.n]]
    /\ Answers(k, created', carts'[created'])
    /\ UNCHANGED <<orders, charged>>

(* addItem increments, setItemQuantity sets a line that is there, and deletes it
   at 0. *)
Refused(k) ==
    \/ k.c = NoCart /\ k.what # "create"
    \/ k.c # NoCart /\ k.what = "set" /\ k.n > 0 /\ carts[k.c][k.p] = 0
    \/ k.c # NoCart /\ k.what = "checkout" /\ Lines(carts[k.c]) = {}

ServerEdits(k) ==
    /\ Waits(k) /\ k.what \in {"add", "set", "remove"} /\ ~Refused(k)
    /\ carts' = [carts EXCEPT ![k.c][k.p] = IF k.what = "add" THEN @ + k.n ELSE k.n]
    /\ Answers(k, k.c, carts'[k.c])
    /\ UNCHANGED <<created, orders, charged>>

ServerReads(k) ==
    /\ Waits(k) /\ k.what \in {"load", "quote"}
    /\ Answers(k, k.c, carts[k.c])
    /\ UNCHANGED server

(* An order leaves the cart as it is. *)
ServerOrders(k) ==
    /\ Waits(k) /\ k.what = "checkout" /\ ~Refused(k)
    /\ orders' = [orders EXCEPT ![k.c] = @ + 1]
    /\ charged' = charged \cup {[saw |-> k.saw, quote |-> k.quote, got |-> carts[k.c]]}
    /\ Answers(k, k.c, carts[k.c])
    /\ UNCHANGED <<carts, created>>

Fails(k) == calls' = (calls \ {k}) \cup {[k EXCEPT !.at = "failed", !.got = Empty]}

ServerRefuses(k) == Waits(k) /\ Refused(k) /\ Fails(k) /\ UNCHANGED server

(* The network loses a request or its answer. *)
LoseCall(k) ==
    /\ k.at \in {"sent", "answered"} /\ rushed + faults < MaxTrouble /\ faults' = faults + 1
    /\ Fails(k)
    /\ UNCHANGED <<server, stored, tab, shopper>>
----------------------------------------------------------------------------
(* Answers reach the tab. *)

Arrives(k) == k.at = "answered" /\ UNCHANGED <<server, shopper, faults>>

(* The cart page quotes again when the cart id or the number of lines changes. *)
Requotes(t, c, x) ==
    IF /\ tab[t].page = "cart"
       /\ c # tab[t].cart \/ Cardinality(Lines(x)) # Cardinality(Lines(tab[t].shown))
    THEN Read("quote", t, c) ELSE {}

(* With the cart that came, or nothing: the next item of a bundle. *)
NextOfBundle(k) ==
    IF k.bundle /\ tab[k.t].left # << >>
    THEN {AddTo(k.t, tab[k.t].into, Head(tab[k.t].left), k.no, TRUE)} ELSE {}

Held(k) ==
    IF ~k.bundle THEN tab[k.t]
    ELSE IF tab[k.t].left = << >> THEN [tab[k.t] EXCEPT !.adding = FALSE]
    ELSE [tab[k.t] EXCEPT !.left = Tail(@)]

(* A new cart is stored, and loaded once more because its id has changed. *)
CartCreated(k) ==
    /\ Arrives(k) /\ k.what = "create"
    /\ stored' = k.c
    /\ tab' = [tab EXCEPT ![k.t] = [Held(k) EXCEPT !.cart = k.c, !.shown = k.got]]
    /\ calls' = (calls \ {k}) \cup Read("load", k.t, k.c) \cup NextOfBundle(k)
                \cup Requotes(k.t, k.c, k.got)

CartChanged(k) ==
    /\ Arrives(k) /\ k.what \in {"add", "set", "remove"}
    /\ tab' = [tab EXCEPT ![k.t] = [Held(k) EXCEPT !.shown = k.got]]
    /\ calls' = (calls \ {k}) \cup NextOfBundle(k) \cup Requotes(k.t, tab[k.t].cart, k.got)
    /\ UNCHANGED stored

CartLoaded(k) ==
    /\ Arrives(k) /\ k.what = "load"
    /\ tab' = [tab EXCEPT ![k.t].shown = k.got]
    /\ calls' = (calls \ {k}) \cup Requotes(k.t, tab[k.t].cart, k.got)
    /\ UNCHANGED stored

Quoted(k) ==
    /\ Arrives(k) /\ k.what = "quote"
    /\ tab' = [tab EXCEPT ![k.t].quote = {k.got}]
    /\ calls' = calls \ {k}
    /\ UNCHANGED stored

(* The confirmation page: the cart is cleared, whichever it is by now. *)
CheckedOut(k) ==
    /\ Arrives(k) /\ k.what = "checkout"
    /\ stored' = NoCart
    /\ tab' = [tab EXCEPT ![k.t] = [Left(k.t) EXCEPT !.cart = NoCart, !.shown = Empty]]
    /\ calls' = calls \ ({k} \cup OnPage(k.t))

(* A cart that cannot be loaded is forgotten, a bundle broken off, the checkout
   button freed, the quote dropped. *)
CallFails(k) ==
    /\ k.at = "failed" /\ calls' = calls \ {k}
    /\ stored' = IF k.what = "load" THEN NoCart ELSE stored
    /\ tab' = [tab EXCEPT ![k.t] =
          CASE k.what = "load" -> [@ EXCEPT !.cart = NoCart, !.shown = Empty]
            [] k.what = "quote" -> [@ EXCEPT !.quote = {}]
            [] k.what = "checkout" -> [@ EXCEPT !.busy = @ \ {k.no}]
            [] OTHER -> IF k.bundle THEN [@ EXCEPT !.adding = FALSE, !.left = << >>] ELSE @]
    /\ UNCHANGED <<server, shopper, faults>>
----------------------------------------------------------------------------
Shops(t) ==
    \/ AddBundle(t) \/ OpenCartPage(t) \/ LeaveCartPage(t) \/ Reload(t) \/ PressCheckout(t)
    \/ \E p \in Products : AddToCart(t, p) \/ RemoveItem(t, p) \/ \E n \in 0..MaxActs : SetQty(t, p, n)

ServerSteps(k) ==
    ServerCreates(k) \/ ServerEdits(k) \/ ServerReads(k) \/ ServerOrders(k) \/ ServerRefuses(k)

TabSteps(k) ==
    CartCreated(k) \/ CartChanged(k) \/ CartLoaded(k) \/ Quoted(k) \/ CheckedOut(k) \/ CallFails(k)

StorefrontNext ==
    \/ \E t \in Tabs : Shops(t)
    \/ \E k \in calls : ServerSteps(k) \/ LoseCall(k) \/ TabSteps(k)

StorefrontSpec == StorefrontInit /\ [][StorefrontNext]_storefrontVars
----------------------------------------------------------------------------
(* The shopper does one thing at a time, in one tab, and nothing is lost. *)
Undisturbed == rushed = 0 /\ faults = 0 /\ Cardinality(acted) <= 1

CartCalls(t) == {k \in calls : k.t = t /\ k.what # "quote"}

(* Then a tab that waits for nothing shows the cart as the server has it, and it is
   the cart that a reload would find. *)
CartIsShown ==
    Undisturbed =>
       \A t \in acted :
          CartCalls(t) = {} =>
             /\ tab[t].cart = stored
             /\ tab[t].shown = IF stored = NoCart THEN Empty ELSE carts[stored]

(* Nothing put into a cart is forgotten before it is ordered. *)
CartsAreNotForgotten ==
    Undisturbed =>
       \A c \in 1..created :
          \/ Lines(carts[c]) = {} \/ orders[c] > 0 \/ c = stored
          \/ \E k \in calls : k.what = "create" /\ k.c = c

(* The order is for the cart that was shown, and the total shown was quoted for the
   same lines.  It need not be the total of the order: a quantity may have changed
   since. *)
OrderedAsShown ==
    Undisturbed =>
       \A o \in charged :
          o.got = o.saw /\ \A q \in o.quote : Lines(q) = Lines(o.got)

(* Whatever else is in flight, a tab orders a cart once, but for orders whose answer
   is lost and for shoppers who leave the page that is checking out. *)
OrderedOnce == \A c \in CartIds : orders[c] <= Cardinality(acted) + faults + walkouts

(* A bundle that is being added to a cart is in it as far as the button has got.  A
   shopper who had no cart gets one for every item instead: that is doing several
   things at a time (see ActsAs). *)
BundleGrows ==
    Undisturbed =>
       \A t \in Tabs : \A i \in DOMAIN Bundle :
          (tab[t].adding /\ i < Len(Bundle) - Len(tab[t].left)) =>
             carts[tab[t].into][Bundle[i]] > 0

(* What the shopper sees is what the shop has and sells. *)
ShownIsSold ==
    CartIsShown /\ CartsAreNotForgotten /\ OrderedAsShown /\ OrderedOnce /\ BundleGrows
============================================================================
