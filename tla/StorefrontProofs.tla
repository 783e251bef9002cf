-------------------------- MODULE StorefrontProofs --------------------------
(***************************************************************************)
(* Theorems of Storefront, for any number of tabs, products and carts and  *)
(* any number of things the shopper does: the shape of its state, and      *)
(* ShownIsSold.                                                            *)
(*                                                                         *)
(* That a tab orders a cart once is a count (OrdersCounted): an order is   *)
(* paid for by the tab that waits for it or can never hold that cart       *)
(* again, by a lost answer or by a shopper who walked out.  It needs that  *)
(* a cart is nobody's before the answer to its creation (HiddenUnused).    *)
(* The rest is about a shopper who does one thing at a time (Calm): what   *)
(* is in flight is one edit, one checkout, or readings of the stored cart. *)
(***************************************************************************)
EXTENDS Storefront, FiniteSetTheorems, SequenceTheorems, TLAPS

Calls == Reading(CartIds) \cup Edit \cup Checkout

(* A page waits for one checkout at most, and leaving it is one thing done. *)
TabOK(T, n) == T.cart <= n /\ T.into <= n /\ \A i, j \in T.busy : i = j
TypeInv ==
    /\ StorefrontTypeOK
    /\ \A k \in calls : k.c <= created
    /\ \A t \in Tabs : TabOK(tab[t], created)
    /\ walkouts <= acts

(* Where cart c is in use, but for the answer to its creation. *)
Used(c) ==
    \/ orders[c] > 0 \/ stored = c
    \/ \E t \in Tabs : tab[t].cart = c \/ tab[t].into = c
    \/ \E k \in calls : k.what # "create" /\ k.c = c

Hidden(c) == c > created \/ \E k \in calls : k.what = "create" /\ k.c = c

HiddenUnused ==
    /\ \A c \in CartIds : Hidden(c) => ~Used(c)
    /\ \A k, l \in calls : k.what = "create" /\ l.what = "create" /\ k.c = l.c /\ k.c # NoCart => k = l

(* Checkouts are told apart by their number. *)
Checkouts == {k \in calls : k.what = "checkout"}
CheckoutsDiffer ==
    /\ \A k \in Checkouts : k.no < acts
    /\ \A k, l \in Checkouts : k.no = l.no => k = l

(* The checkouts that may still order cart c, or whose answer was lost and still is
   awaited; whether tab t waits for one; and the tabs that may yet begin one. *)
Open(k) == k.at = "sent" \/ (k.at = "failed" /\ k.no \in tab[k.t].busy)
Pending(c) == {n \in 0..MaxActs : \E k \in Checkouts : k.no = n /\ k.c = c /\ Open(k)}
Waiting(t, c) == \E k \in Checkouts : k.t = t /\ k.no \in tab[t].busy /\ k.c = c
Free(c) == {t \in Tabs : (tab[t].cart = c \/ stored = c) /\ ~Waiting(t, c)}

OrdersCounted ==
    \A c \in CartIds :
       orders[c] + Cardinality(Pending(c)) <= faults + walkouts + Cardinality(acted \ Free(c))

OnceInv == HiddenUnused /\ CheckoutsDiffer /\ OrdersCounted

(* What a tab shows of a cart, and a quote that was made for the lines it shows. *)
ContentOf(c) == IF c = NoCart THEN Empty ELSE carts[c]
Fits(quote, x) == \A q \in quote : Lines(q) = Lines(x)

Reads(t) ==
    /\ \A k \in calls : /\ k.what \in {"load", "quote"} /\ k.c = stored
                        /\ k.at = "sent" \/ (k.at = "answered" /\ k.got = carts[stored])
                        /\ k.what = "quote" => tab[t].page = "cart"
    /\ tab[t].shown = ContentOf(stored) \/ \E k \in calls : k.what = "load"
    /\ Fits(tab[t].quote, ContentOf(stored)) \/ \E k \in calls : k.what = "quote"
    /\ ~tab[t].adding

Bundling(t, k) ==
    LET done == Len(Bundle) - Len(tab[t].left) IN
    /\ done > 0 /\ \A j \in 1..Len(tab[t].left) : tab[t].left[j] = Bundle[done + j]
    /\ k.p = Bundle[done] /\ k.n = 1 /\ tab[t].page = "shop"
    /\ \/ k.what = "create" /\ Len(Bundle) = 1
       \/ /\ k.what = "add" /\ tab[t].into = stored
          /\ \A i \in 1..done : (i < done \/ k.at = "answered") => carts[stored][Bundle[i]] > 0

Edits(t, k) ==
    /\ k.what \in {"create", "add", "set", "remove"}
    /\ tab[t].shown \in Contents /\ Fits(tab[t].quote, tab[t].shown)
    /\ IF k.what = "create" THEN stored = NoCart ELSE stored # NoCart /\ k.c = stored
    /\ \/ /\ k.at = "sent" /\ tab[t].shown = ContentOf(stored)
          /\ k.what = "create" => k.c = NoCart
          /\ k.what = "set" /\ k.n > 0 => carts[stored][k.p] > 0
       \/ /\ k.at = "answered" /\ k.c # NoCart /\ k.got = carts[k.c]
          /\ k.what # "create" => \A p \in Products \ {k.p} : k.got[p] = tab[t].shown[p]
    /\ k.bundle = tab[t].adding
    /\ k.bundle => Bundling(t, k)

Orders(t, k) ==
    /\ k.what = "checkout" /\ k.c = stored /\ stored # NoCart /\ ~tab[t].adding
    /\ \/ /\ k.at = "sent" /\ k.saw = carts[stored] /\ Lines(carts[stored]) # {}
          /\ Fits(k.quote, carts[stored])
       \/ k.at = "answered" /\ orders[stored] > 0

CalmTab(t) ==
    /\ tab[t].cart = stored
    /\ tab[t].page = "shop" => tab[t].quote = {}
    /\ \A k \in calls : k.t = t
    /\ Reads(t) \/ \E k \in calls : calls = {k} /\ (Edits(t, k) \/ Orders(t, k))

Calm ==
    /\ \A t \in Tabs \ acted : tab[t] = Blank
    /\ acted = {} => stored = NoCart /\ calls = {}
    /\ \A t \in acted : CalmTab(t)

CalmInv ==
    /\ Undisturbed => Calm
    /\ CartsAreNotForgotten /\ OrderedAsShown
----------------------------------------------------------------------------
(* Types. *)

LEMMA NoCartIs == NoCart = 0 /\ NoCart \notin CartIds /\ MaxCarts \in Nat /\ MaxActs \in Nat /\ MaxTrouble \in Nat
                  /\ \A c \in CartIds : c \in Nat /\ c > 0 /\ c <= MaxCarts
  BY StorefrontAssumption DEF NoCart, CartIds

LEMMA EmptyTyped == Empty \in Contents
  BY DEF Empty, Contents

LEMMA BlankTyped == Blank \in Tab /\ Blank.busy = {} /\ Blank.cart = NoCart /\ Blank.into = NoCart /\ Blank.adding = FALSE
                    /\ Blank.quote = {} /\ Blank.shown = Empty /\ Blank.page = "shop" /\ Blank.left = << >>
<1>1. << >> \in Seq(Products) BY EmptySeq
<1> QED BY <1>1, EmptyTyped DEF Blank, Tab

(* What a call is, by what it asks. *)
LEMMA CallIs ==
    ASSUME NEW k \in Calls
    PROVE  /\ k.t \in Tabs /\ k.c \in CartIds \cup {NoCart} /\ k.got \in Contents
           /\ k.at \in {"sent", "answered", "failed"}
           /\ k.what \in {"load", "quote", "create", "add", "set", "remove", "checkout"}
           /\ k.what \in {"load", "quote"} <=> k \in Reading(CartIds)
           /\ k.what \in {"create", "add", "set", "remove"} <=> k \in Edit
           /\ k.what = "checkout" <=> k \in Checkout
  BY DEF Calls, Reading, Edit, Checkout

LEMMA EditIs ==
    ASSUME NEW k \in Edit
    PROVE  k.p \in Products /\ k.n \in Nat /\ k.no \in Nat /\ k.bundle \in BOOLEAN
  BY DEF Edit

LEMMA CheckoutIs ==
    ASSUME NEW k \in Checkout
    PROVE  k.no \in Nat /\ k.saw \in Contents /\ k.quote \in SUBSET Contents
  BY DEF Checkout

(* A call that failed is the same call. *)
LEMMA FailedIs ==
    ASSUME NEW k \in Calls, NEW l, l = [k EXCEPT !.at = "failed", !.got = Empty]
    PROVE  /\ l \in Calls /\ l.what = k.what /\ l.t = k.t /\ l.at = "failed" /\ l.c = k.c /\ l.got = Empty
           /\ k \in Edit => l.p = k.p /\ l.n = k.n /\ l.no = k.no /\ l.bundle = k.bundle
           /\ k \in Checkout => l.no = k.no /\ l.saw = k.saw /\ l.quote = k.quote
<1>1. CASE k \in Reading(CartIds)
  <2>1. k \notin Edit /\ k \notin Checkout BY <1>1, CallIs DEF Edit, Checkout, Reading
  <2> QED BY <1>1, <2>1, EmptyTyped DEF Reading, Calls
<1>2. CASE k \in Edit
  <2>1. k \notin Checkout BY <1>2 DEF Edit, Checkout
  <2> QED BY <1>2, <2>1, EmptyTyped DEF Edit, Calls
<1>3. CASE k \in Checkout
  <2>1. k \notin Edit BY <1>3 DEF Edit, Checkout
  <2> QED BY <1>3, <2>1, EmptyTyped DEF Checkout, Calls
<1> QED BY <1>1, <1>2, <1>3 DEF Calls

(* New calls. *)
LEMMA ReadIs ==
    ASSUME NEW what \in {"load", "quote"}, NEW t \in Tabs, NEW c \in CartIds \cup {NoCart}
    PROVE  \A k \in Read(what, t, c) :
              /\ k \in Calls /\ c # NoCart /\ k.what = what /\ k.t = t /\ k.c = c /\ k.at = "sent"
  BY EmptyTyped DEF Read, Calls, Reading

(* A tab's cart and quotes. *)
LEMMA TabIs ==
    ASSUME NEW T \in Tab
    PROVE  /\ T.cart \in CartIds \cup {NoCart} /\ T.into \in CartIds \cup {NoCart}
           /\ T.shown \in Contents /\ T.page \in {"shop", "cart"} /\ T.busy \in SUBSET Nat
           /\ T.quote \in SUBSET Contents /\ T.adding \in BOOLEAN /\ T.left \in Seq(Products)
  BY DEF Tab

LEMMA StateIs ==
    ASSUME TypeInv
    PROVE  /\ calls \subseteq Calls /\ \A k \in calls : k \in Calls /\ k.c <= created
           /\ \A t \in Tabs : tab[t] \in Tab /\ TabOK(tab[t], created)
           /\ acts \in Nat /\ created \in Nat /\ created <= MaxCarts /\ stored \in Nat /\ stored <= created
           /\ stored \in CartIds \cup {NoCart}
           /\ rushed \in Nat /\ faults \in Nat /\ walkouts \in Nat
           /\ \A c \in CartIds : carts[c] \in Contents /\ orders[c] \in Nat
<1>1. calls \subseteq Calls BY DEF TypeInv, StorefrontTypeOK, Calls
<1>2. stored \in CartIds \cup {NoCart} BY StorefrontAssumption DEF TypeInv, StorefrontTypeOK, CartIds, NoCart
<1>3. /\ acts \in Nat /\ created \in Nat /\ created <= MaxCarts /\ stored \in Nat /\ stored <= created
      /\ rushed \in Nat /\ faults \in Nat /\ walkouts \in Nat
  BY NoCartIs DEF TypeInv, StorefrontTypeOK
<1>4. \A k \in calls : k.c <= created BY DEF TypeInv
<1>5. \A t \in Tabs : tab[t] \in Tab /\ TabOK(tab[t], created) BY DEF TypeInv, StorefrontTypeOK
<1>6. \A c \in CartIds : carts[c] \in Contents /\ orders[c] \in Nat BY DEF TypeInv, StorefrontTypeOK
<1> QED BY <1>1, <1>2, <1>3, <1>4, <1>5, <1>6

LEMMA ContentTyped ==
    ASSUME NEW x \in Contents, NEW p \in Products
    PROVE  /\ x[p] \in Nat
           /\ \A n \in Nat : [x EXCEPT ![p] = n] \in Contents /\ [x EXCEPT ![p] = n][p] = n
           /\ \A n : \A q \in Products \ {p} : [x EXCEPT ![p] = n][q] = x[q]
  BY DEF Contents

(* A browser's step in tab t, but for the arrival of a new cart: it asks only about carts
   that it or the storage knows. *)
Asks(t, new) ==
    \A k \in new : /\ k \in Calls /\ k.t = t /\ k.at = "sent" /\ k.c \in {NoCart, stored, tab[t].cart, tab[t].into}
                   /\ k.what = "create" => k.c = NoCart

Becomes(t, T) ==
    /\ T \in Tab /\ T.cart \in {NoCart, stored, tab[t].cart} /\ T.into \in {NoCart, tab[t].cart, tab[t].into}
    /\ \A i, j \in T.busy : i = j

Browses(t, T, new) ==
    /\ UNCHANGED server /\ stored' \in {stored, NoCart}
    /\ Becomes(t, T) /\ tab' = [tab EXCEPT ![t] = T]
    /\ Asks(t, new) /\ calls' \subseteq calls \cup new

Countable ==
    /\ acts' \in 0..MaxActs /\ rushed' \in Nat /\ acted' \subseteq Tabs /\ faults' \in Nat
    /\ rushed' + faults' \in 0..MaxTrouble /\ walkouts' \in Nat /\ walkouts' <= acts'

LEMMA BrowseTyped ==
    ASSUME TypeInv, NEW t \in Tabs, NEW T, NEW new, Browses(t, T, new), Countable
    PROVE  TypeInv'
<1>1. /\ calls \subseteq Calls /\ \A k \in calls : k.c <= created
      /\ tab \in [Tabs -> Tab] /\ \A u \in Tabs : TabOK(tab[u], created)
      /\ created \in Nat /\ stored \in Nat /\ stored <= created /\ NoCart = 0
  BY StateIs, NoCartIs DEF TypeInv, StorefrontTypeOK
<1>2. created' = created /\ carts' = carts /\ orders' = orders /\ charged' = charged BY DEF Browses, server
<1>3. tab[t].cart <= created /\ tab[t].into <= created BY <1>1 DEF TabOK
<1>4. \A k \in calls' : k \in Calls /\ k.c <= created' BY <1>1, <1>2, <1>3 DEF Browses, Asks
<1>5. T \in Tab /\ TabOK(T, created') BY <1>1, <1>2, <1>3 DEF Browses, Becomes, TabOK
<1>6. tab' \in [Tabs -> Tab] /\ \A u \in Tabs : TabOK(tab'[u], created')
  <2>1. \A u \in Tabs : tab'[u] = IF u = t THEN T ELSE tab[u] BY <1>1 DEF Browses
  <2>2. \A u \in Tabs : tab'[u] \in Tab /\ TabOK(tab'[u], created') BY <1>1, <1>2, <1>5, <2>1
  <2> QED BY <1>1, <1>5, <2>2 DEF Browses
<1>7. stored' \in 0..created' BY <1>1, <1>2 DEF Browses
<1>8. walkouts' \in 0..MaxActs BY NoCartIs DEF Countable
<1> QED BY <1>2, <1>4, <1>6, <1>7, <1>8 DEF TypeInv, StorefrontTypeOK, Countable, Calls

LEMMA CountsAct ==
    ASSUME TypeInv, NEW t \in Tabs, NEW several \in BOOLEAN, ActsAs(t, several), walkouts' \in Nat, walkouts' <= walkouts + 1
    PROVE  Countable
<1>1. acts \in Nat /\ acts < MaxActs /\ rushed \in Nat /\ faults \in Nat /\ walkouts \in Nat /\ acted \subseteq Tabs
      /\ walkouts <= acts
  BY StateIs DEF TypeInv, StorefrontTypeOK, ActsAs
<1>2. acts' = acts + 1 /\ faults' = faults /\ acted' = acted \cup {t} BY DEF ActsAs, server
<1>3. acts' \in 0..MaxActs BY <1>1, <1>2, NoCartIs
<1>4. rushed' \in Nat /\ rushed' + faults' \in 0..MaxTrouble
  <2>1. rushed' = rushed + (IF calls # {} \/ several THEN 1 ELSE 0) /\ rushed' + faults <= MaxTrouble BY DEF ActsAs
  <2>2. rushed' \in Nat BY <1>1, <2>1
  <2> QED BY <1>1, <1>2, <2>1, <2>2, NoCartIs
<1>5. walkouts' <= acts' BY <1>1, <1>2
<1> QED BY <1>1, <1>2, <1>3, <1>4, <1>5 DEF Countable

LEMMA ActAlone ==
    ASSUME TypeInv, NEW t \in Tabs, ActsAs(t, FALSE), walkouts' \in Nat, walkouts' <= walkouts + 1
    PROVE  Countable /\ UNCHANGED server /\ stored' = stored
<1>1. FALSE \in BOOLEAN OBVIOUS
<1>2. Countable BY <1>1, CountsAct
<1> QED BY <1>2 DEF ActsAs

LEMMA ActsPlain ==
    ASSUME TypeInv, NEW t \in Tabs, Acts(t)
    PROVE  Countable /\ UNCHANGED server /\ stored' = stored /\ walkouts' = walkouts
<1>1. ActsAs(t, FALSE) /\ walkouts' = walkouts BY DEF Acts
<1>2. walkouts \in Nat BY StateIs
<1>3. walkouts' \in Nat /\ walkouts' <= walkouts + 1 BY <1>1, <1>2
<1> QED BY <1>1, <1>3, ActAlone

(* The tab as it is. *)
LEMMA Stays ==
    ASSUME TypeInv, NEW t \in Tabs
    PROVE  Becomes(t, tab[t]) /\ tab = [tab EXCEPT ![t] = tab[t]]
<1>1. tab \in [Tabs -> Tab] /\ TabOK(tab[t], created) BY DEF TypeInv, StorefrontTypeOK
<1> QED BY <1>1 DEF Becomes, TabOK

(* Leaving the cart page. *)
LEMMA LeftIs ==
    ASSUME TypeInv, NEW t \in Tabs
    PROVE  /\ Left(t) \in Tab /\ Left(t).busy = {} /\ Left(t).quote = {} /\ Left(t).page = "shop"
           /\ Left(t).cart = tab[t].cart /\ Left(t).into = tab[t].into /\ Left(t).shown = tab[t].shown
           /\ Left(t).adding = tab[t].adding /\ Left(t).left = tab[t].left
  BY StateIs DEF Left, Tab

(* What a shopper does, step by step. *)
Does(t) == \E T, new : Browses(t, T, new) /\ Countable

LEMMA EditsDo ==
    ASSUME TypeInv, NEW t \in Tabs, NEW p \in Products,
           AddToCart(t, p) \/ RemoveItem(t, p) \/ \E n \in 0..MaxActs : SetQty(t, p, n)
    PROVE  Does(t)
<1>0. acts \in Nat /\ walkouts \in Nat /\ tab[t].cart \in CartIds \cup {NoCart} BY StateIs, TabIs
<1>1. Acts(t) /\ tab' = tab BY DEF AddToCart, RemoveItem, SetQty
<1>2. Countable /\ UNCHANGED server /\ stored' = stored
  BY <1>1, ActsPlain
<1>3. ASSUME NEW k, k \in Calls, k.t = t, k.at = "sent", k.c = tab[t].cart, k.what = "create" => k.c = NoCart,
             calls' = calls \cup {k}
      PROVE  Does(t)
  <2>1. Asks(t, {k}) BY <1>3 DEF Asks
  <2> QED BY <1>1, <1>2, <1>3, <2>1, Stays DEF Does, Browses
<1>4. CASE AddToCart(t, p)
  <2> DEFINE k == AddTo(t, tab[t].cart, p, acts, FALSE)
  <2>1. k \in Calls /\ k.t = t /\ k.at = "sent" /\ k.c = tab[t].cart /\ (k.what = "create" => k.c = NoCart)
    BY <1>0, EmptyTyped DEF AddTo, Change, Calls, Edit
  <2>2. calls' = calls \cup {k} BY <1>4 DEF AddToCart
  <2> HIDE DEF k
  <2> QED BY <1>3, <2>1, <2>2
<1>5. CASE RemoveItem(t, p)
  <2> DEFINE k == Change("remove", t, tab[t].cart, p, 0, acts, FALSE)
  <2>1. k \in Calls /\ k.t = t /\ k.at = "sent" /\ k.c = tab[t].cart /\ k.what = "remove" BY <1>0, EmptyTyped DEF Change, Calls, Edit
  <2>2. calls' = calls \cup {k} BY <1>5 DEF RemoveItem
  <2> HIDE DEF k
  <2> QED BY <1>3, <2>1, <2>2
<1>6. ASSUME NEW n \in 0..MaxActs, SetQty(t, p, n) PROVE Does(t)
  <2> DEFINE k == Change("set", t, tab[t].cart, p, n, acts, FALSE)
  <2>0. n \in Nat BY <1>6, NoCartIs
  <2>1. k \in Calls /\ k.t = t /\ k.at = "sent" /\ k.c = tab[t].cart /\ k.what = "set" BY <1>0, <2>0, EmptyTyped DEF Change, Calls, Edit
  <2>2. calls' = calls \cup {k} BY <1>6 DEF SetQty
  <2> HIDE DEF k
  <2> QED BY <1>3, <2>1, <2>2
<1> QED BY <1>4, <1>5, <1>6

LEMMA BundleIs ==
    /\ Bundle \in Seq(Products) /\ Len(Bundle) \in Nat /\ Len(Bundle) > 0
    /\ Head(Bundle) = Bundle[1] /\ Bundle[1] \in Products /\ Tail(Bundle) \in Seq(Products)
    /\ Len(Tail(Bundle)) = Len(Bundle) - 1 /\ \A i \in 1..Len(Tail(Bundle)) : Tail(Bundle)[i] = Bundle[i + 1]
    /\ \A i \in 1..Len(Bundle) : Bundle[i] \in Products
<1>1. Bundle \in Seq(Products) /\ Bundle # << >> BY StorefrontAssumption
<1>2. Len(Bundle) \in Nat /\ Len(Bundle) > 0 /\ \A i \in 1..Len(Bundle) : Bundle[i] \in Products
  BY <1>1, ElementOfSeq, EmptySeq, LenProperties
<1> QED BY <1>1, <1>2, HeadTailProperties

LEMMA BundleDoes ==
    ASSUME TypeInv, NEW t \in Tabs, AddBundle(t)
    PROVE  Does(t)
<1> DEFINE T == [tab[t] EXCEPT !.adding = TRUE, !.into = tab[t].cart, !.left = Tail(Bundle)]
           k == AddTo(t, tab[t].cart, Head(Bundle), acts, TRUE)
<1>0. /\ acts \in Nat /\ walkouts \in Nat /\ tab[t] \in Tab /\ tab[t].cart \in CartIds \cup {NoCart}
      /\ TabOK(tab[t], created) /\ Head(Bundle) \in Products
  BY StateIs, TabIs, BundleIs
<1>1. Countable /\ UNCHANGED server /\ stored' = stored
  <2>1. \E b \in BOOLEAN : ActsAs(t, b) BY DEF AddBundle
  <2>2. walkouts' = walkouts BY DEF AddBundle
  <2> QED BY <1>0, <2>1, <2>2, CountsAct DEF ActsAs
<1>2. Becomes(t, T)
  <2>1. T \in Tab /\ T.cart = tab[t].cart /\ T.into = tab[t].cart /\ T.busy = tab[t].busy
    BY <1>0, BundleIs DEF Tab
  <2> HIDE DEF T
  <2> QED BY <1>0, <2>1 DEF Becomes, TabOK
<1>3. tab' = [tab EXCEPT ![t] = T] BY DEF AddBundle
<1>4. k \in Calls /\ k.t = t /\ k.at = "sent" /\ k.c = tab[t].cart /\ (k.what = "create" => k.c = NoCart) BY <1>0, EmptyTyped DEF AddTo, Change, Calls, Edit
<1>5. calls' = calls \cup {k} BY DEF AddBundle
<1> HIDE DEF k, T
<1>6. Asks(t, {k}) BY <1>4 DEF Asks
<1> QED BY <1>1, <1>2, <1>3, <1>5, <1>6 DEF Does, Browses

LEMMA PagesDo ==
    ASSUME TypeInv, NEW t \in Tabs, OpenCartPage(t) \/ LeaveCartPage(t)
    PROVE  Does(t)
<1>0. /\ acts \in Nat /\ walkouts \in Nat /\ tab[t] \in Tab /\ tab[t].cart \in CartIds \cup {NoCart}
      /\ TabOK(tab[t], created)
  BY StateIs, TabIs
<1>1. CASE OpenCartPage(t)
  <2> DEFINE T == [tab[t] EXCEPT !.page = "cart"]
             new == Read("quote", t, tab[t].cart)
  <2>1. Countable /\ UNCHANGED server /\ stored' = stored
    BY <1>1, ActsPlain DEF OpenCartPage
  <2>2. Becomes(t, T)
    <3>1. T \in Tab /\ T.cart = tab[t].cart /\ T.into = tab[t].into /\ T.busy = tab[t].busy BY <1>0 DEF Tab
    <3> HIDE DEF T
    <3> QED BY <1>0, <3>1 DEF Becomes, TabOK
  <2>3. tab' = [tab EXCEPT ![t] = T] /\ calls' = calls \cup new BY <1>1 DEF OpenCartPage
  <2>4. Asks(t, new) BY <1>0, ReadIs DEF Asks
  <2> HIDE DEF T, new
  <2> QED BY <2>1, <2>2, <2>3, <2>4 DEF Does, Browses
<1>2. CASE LeaveCartPage(t)
  <2>1. Countable /\ UNCHANGED server /\ stored' = stored
    <3>1. ActsAs(t, FALSE) /\ walkouts' = walkouts + Cardinality(tab[t].busy) BY <1>2 DEF LeaveCartPage
    <3>2. Cardinality(tab[t].busy) \in 0..1
      <4>1. CASE tab[t].busy = {} BY <4>1, FS_EmptySet
      <4>2. ASSUME NEW n \in tab[t].busy PROVE Cardinality(tab[t].busy) = 1
        <5>1. tab[t].busy = {n} BY <1>0, <4>2 DEF TabOK
        <5> QED BY <5>1, FS_Singleton
      <4> QED BY <4>1, <4>2
    <3>3. walkouts' \in Nat /\ walkouts' <= walkouts + 1 BY <1>0, <3>1, <3>2
    <3> QED BY <3>1, <3>3, ActAlone
  <2>2. Becomes(t, Left(t)) BY LeftIs DEF Becomes
  <2>3. tab' = [tab EXCEPT ![t] = Left(t)] /\ calls' \subseteq calls BY <1>2 DEF LeaveCartPage
  <2>4. Asks(t, {}) BY DEF Asks
  <2> QED BY <2>1, <2>2, <2>3, <2>4 DEF Does, Browses
<1> QED BY <1>1, <1>2

LEMMA ReloadDoes ==
    ASSUME TypeInv, NEW t \in Tabs, Reload(t)
    PROVE  Does(t)
<1> DEFINE T == [Blank EXCEPT !.cart = stored, !.page = tab[t].page]
           new == Read("load", t, stored) \cup (IF tab[t].page = "cart" THEN Read("quote", t, stored) ELSE {})
<1>0. walkouts \in Nat /\ tab[t] \in Tab /\ stored \in CartIds \cup {NoCart} BY StateIs
<1>1. Countable /\ UNCHANGED server /\ stored' = stored
  BY ActsPlain DEF Reload
<1>2. Becomes(t, T)
  <2>1. T \in Tab /\ T.cart = stored /\ T.into = NoCart /\ T.busy = {} BY <1>0, BlankTyped DEF Tab
  <2> HIDE DEF T
  <2> QED BY <2>1 DEF Becomes
<1>3. tab' = [tab EXCEPT ![t] = T] /\ calls' = calls \cup new BY DEF Reload
<1>4. Asks(t, new) BY <1>0, ReadIs DEF Asks
<1> HIDE DEF T, new
<1> QED BY <1>1, <1>2, <1>3, <1>4 DEF Does, Browses

CheckoutCall(t) ==
    [what |-> "checkout", t |-> t, c |-> tab[t].cart, no |-> acts, saw |-> tab[t].shown,
     quote |-> tab[t].quote, at |-> "sent", got |-> Empty]

LEMMA CheckoutCallIs ==
    ASSUME TypeInv, NEW t \in Tabs
    PROVE  /\ CheckoutCall(t) \in Calls /\ CheckoutCall(t) \in Checkout /\ CheckoutCall(t).t = t
           /\ CheckoutCall(t).at = "sent" /\ CheckoutCall(t).c = tab[t].cart /\ CheckoutCall(t).no = acts
           /\ CheckoutCall(t).what = "checkout" /\ CheckoutCall(t).saw = tab[t].shown
           /\ CheckoutCall(t).quote = tab[t].quote
<1>1. acts \in Nat /\ tab[t].cart \in CartIds \cup {NoCart} /\ tab[t].shown \in Contents /\ tab[t].quote \in SUBSET Contents
  BY StateIs, TabIs
<1> QED BY <1>1, EmptyTyped DEF CheckoutCall, Calls, Checkout

LEMMA PressDoes ==
    ASSUME TypeInv, NEW t \in Tabs, PressCheckout(t)
    PROVE  Does(t)
<1> DEFINE T == [tab[t] EXCEPT !.busy = {acts}]
<1>0. acts \in Nat /\ walkouts \in Nat /\ tab[t] \in Tab BY StateIs
<1>1. Countable /\ UNCHANGED server /\ stored' = stored
  BY ActsPlain DEF PressCheckout
<1>2. Becomes(t, T)
  <2>1. T \in Tab /\ T.cart = tab[t].cart /\ T.into = tab[t].into /\ T.busy = {acts} BY <1>0 DEF Tab
  <2> HIDE DEF T
  <2> QED BY <2>1 DEF Becomes
<1>3. tab' = [tab EXCEPT ![t] = T] /\ calls' = calls \cup {CheckoutCall(t)} BY DEF PressCheckout, CheckoutCall
<1>4. Asks(t, {CheckoutCall(t)}) BY CheckoutCallIs DEF Asks
<1> HIDE DEF T
<1> QED BY <1>1, <1>2, <1>3, <1>4 DEF Does, Browses

LEMMA ShopperDoes ==
    ASSUME TypeInv, NEW t \in Tabs, Shops(t)
    PROVE  Does(t)
  BY EditsDo, BundleDoes, PagesDo, ReloadDoes, PressDoes DEF Shops

(* The server's answer l to call k. *)
Served(k, l) ==
    /\ stored' = stored /\ tab' = tab /\ calls' = (calls \ {k}) \cup {l}
    /\ l \in Calls /\ l.what = k.what /\ l.t = k.t
    /\ k \in Edit => l.p = k.p /\ l.n = k.n /\ l.no = k.no /\ l.bundle = k.bundle
    /\ k \in Checkout => l.no = k.no /\ l.saw = k.saw /\ l.quote = k.quote

LEMMA ServedTyped ==
    ASSUME TypeInv, NEW k \in calls, NEW l, Served(k, l), l.c <= created',
           created' \in 0..MaxCarts, created <= created', carts' \in [CartIds -> Contents], orders' \in [CartIds -> Nat],
           \A o \in charged' : o.saw \in Contents /\ o.got \in Contents, Countable
    PROVE  TypeInv'
<1>1. /\ calls \subseteq Calls /\ \A j \in calls : j.c <= created
      /\ tab \in [Tabs -> Tab] /\ \A u \in Tabs : TabOK(tab[u], created)
      /\ created \in Nat /\ created' \in Nat /\ stored \in Nat /\ stored <= created
  BY StateIs, NoCartIs DEF TypeInv, StorefrontTypeOK
<1>2. \A j \in calls : j.c \in Nat /\ j.c <= created
  <2>1. \A j \in Calls : j.c \in Nat BY CallIs, NoCartIs
  <2> QED BY <1>1, <2>1
<1>3. \A j \in calls' : j \in Calls /\ j.c <= created' BY <1>1, <1>2 DEF Served
<1>4. \A u \in Tabs : TabOK(tab'[u], created')
  <2>1. \A u \in Tabs : tab[u].cart \in Nat /\ tab[u].into \in Nat BY <1>1, TabIs, NoCartIs
  <2> QED BY <1>1, <2>1 DEF Served, TabOK
<1>5. stored' \in 0..created' BY <1>1 DEF Served
<1>6. walkouts' \in 0..MaxActs BY NoCartIs DEF Countable
<1>7. tab' \in [Tabs -> Tab] BY <1>1 DEF Served
<1> QED BY <1>3, <1>4, <1>5, <1>6, <1>7 DEF TypeInv, StorefrontTypeOK, Countable, Calls

LEMMA StillCountable ==
    ASSUME TypeInv, UNCHANGED <<shopper, faults>>
    PROVE  Countable
<1>1. UNCHANGED <<acts, acted, rushed, walkouts, faults>> BY DEF shopper
<1> QED BY <1>1, StateIs DEF Countable, TypeInv, StorefrontTypeOK

Refuses(k, l) == Served(k, l) /\ l.at = "failed" /\ l.c = k.c /\ UNCHANGED <<server, shopper, faults>> /\ k.at = "sent" /\ Refused(k)
Loses(k, l) ==
    /\ Served(k, l) /\ l.at = "failed" /\ l.c = k.c /\ UNCHANGED <<server, shopper>>
    /\ faults' = faults + 1 /\ rushed + faults < MaxTrouble
CreatesCart(k, l) ==
    /\ Served(k, l) /\ k.at = "sent" /\ k.what = "create" /\ l.at = "answered" /\ l.c = created' /\ l.got = carts'[l.c]
    /\ created < MaxCarts /\ created' = created + 1 /\ k \in Edit
    /\ carts' = [carts EXCEPT ![created'] = [Empty EXCEPT ![k.p] = k.n]]
    /\ UNCHANGED <<orders, charged, shopper, faults>>
EditsCart(k, l) ==
    /\ Served(k, l) /\ k.at = "sent" /\ k.what \in {"add", "set", "remove"} /\ ~Refused(k)
    /\ l.at = "answered" /\ l.c = k.c /\ k.c \in CartIds /\ k \in Edit /\ l.got = carts'[k.c]
    /\ carts' = [carts EXCEPT ![k.c][k.p] = IF k.what = "add" THEN @ + k.n ELSE k.n]
    /\ UNCHANGED <<created, orders, charged, shopper, faults>>
ReadsCart(k, l) ==
    /\ Served(k, l) /\ k.at = "sent" /\ k.what \in {"load", "quote"} /\ k.c \in CartIds
    /\ l.at = "answered" /\ l.c = k.c /\ l.got = carts[k.c]
    /\ UNCHANGED <<server, shopper, faults>>
OrdersCart(k, l) ==
    /\ Served(k, l) /\ k.at = "sent" /\ k.what = "checkout" /\ ~Refused(k) /\ k \in Checkout
    /\ l.at = "answered" /\ l.c = k.c /\ k.c \in CartIds
    /\ orders' = [orders EXCEPT ![k.c] = @ + 1]
    /\ charged' = charged \cup {[saw |-> k.saw, quote |-> k.quote, got |-> carts[k.c]]}
    /\ UNCHANGED <<carts, created, shopper, faults>>

LEMMA FailsIs ==
    ASSUME TypeInv, NEW k \in calls, Fails(k), stored' = stored, tab' = tab
    PROVE  \E l : Served(k, l) /\ l.at = "failed" /\ l.c = k.c
<1> DEFINE l == [k EXCEPT !.at = "failed", !.got = Empty]
<1>1. k \in Calls BY StateIs
<1>2. calls' = (calls \ {k}) \cup {l} BY DEF Fails
<1>3. l = [k EXCEPT !.at = "failed", !.got = Empty] OBVIOUS
<1> HIDE DEF l
<1>4. /\ l \in Calls /\ l.what = k.what /\ l.t = k.t /\ l.at = "failed" /\ l.c = k.c /\ l.got = Empty
      /\ k \in Edit => l.p = k.p /\ l.n = k.n /\ l.no = k.no /\ l.bundle = k.bundle
      /\ k \in Checkout => l.no = k.no /\ l.saw = k.saw /\ l.quote = k.quote
  BY ONLY <1>1, <1>3, FailedIs
<1> QED BY <1>2, <1>4 DEF Served

LEMMA AnsweredIs ==
    ASSUME TypeInv, NEW k \in calls, NEW c \in CartIds, NEW x \in Contents,
           Answers(k, c, x), stored' = stored, tab' = tab
    PROVE  \E l : Served(k, l) /\ l.at = "answered" /\ l.c = c /\ l.got = x
<1> DEFINE l == [k EXCEPT !.at = "answered", !.c = c, !.got = x]
<1>1. k \in Calls BY StateIs
<1>2. calls' = (calls \ {k}) \cup {l} BY DEF Answers
<1>3. l = [k EXCEPT !.at = "answered", !.c = c, !.got = x] OBVIOUS
<1> HIDE DEF l
<1>4. c \in CartIds \cup {NoCart} OBVIOUS
<1>5. /\ l \in Calls /\ l.what = k.what /\ l.t = k.t /\ l.at = "answered" /\ l.c = c /\ l.got = x
      /\ k \in Edit => l.p = k.p /\ l.n = k.n /\ l.no = k.no /\ l.bundle = k.bundle
      /\ k \in Checkout => l.no = k.no /\ l.saw = k.saw /\ l.quote = k.quote
  <2>1. CASE k \in Reading(CartIds)
    <3>1. k \notin Edit /\ k \notin Checkout BY <1>1, <2>1, CallIs DEF Edit, Checkout, Reading
    <3> QED BY <1>3, <2>1, <3>1 DEF Reading, Calls
  <2>2. CASE k \in Edit
    <3>1. k \notin Checkout BY <2>2 DEF Edit, Checkout
    <3> QED BY <1>3, <1>4, <2>2, <3>1 DEF Edit, Calls
  <2>3. CASE k \in Checkout
    <3>1. k \notin Edit BY <2>3 DEF Edit, Checkout
    <3> QED BY <1>3, <1>4, <2>3, <3>1 DEF Checkout, Calls
  <2> QED BY <1>1, <2>1, <2>2, <2>3 DEF Calls
<1> QED BY <1>2, <1>5 DEF Served

LEMMA ServerDoes ==
    ASSUME TypeInv, NEW k \in calls, ServerSteps(k) \/ LoseCall(k)
    PROVE  \E l : \/ Refuses(k, l) \/ Loses(k, l) \/ CreatesCart(k, l) \/ EditsCart(k, l)
                  \/ ReadsCart(k, l) \/ OrdersCart(k, l)
<1> DEFINE Ok == \E l : \/ Refuses(k, l) \/ Loses(k, l) \/ CreatesCart(k, l) \/ EditsCart(k, l)
                        \/ ReadsCart(k, l) \/ OrdersCart(k, l)
<1>0. k \in Calls BY StateIs
<1>1. /\ k.c \in CartIds \cup {NoCart}
      /\ k.what \in {"load", "quote"} <=> k \in Reading(CartIds)
      /\ k.what \in {"create", "add", "set", "remove"} <=> k \in Edit
      /\ k.what = "checkout" <=> k \in Checkout
  BY <1>0, CallIs
<1>2. CASE ServerRefuses(k)
  <2>1. PICK l : Served(k, l) /\ l.at = "failed" /\ l.c = k.c BY <1>2, FailsIs DEF ServerRefuses, Waits
  <2> QED BY <1>2, <2>1 DEF ServerRefuses, Waits, Refuses
<1>3. CASE LoseCall(k)
  <2>1. PICK l : Served(k, l) /\ l.at = "failed" /\ l.c = k.c BY <1>3, FailsIs DEF LoseCall
  <2> QED BY <1>3, <2>1 DEF LoseCall, Loses
<1>4. CASE ServerCreates(k)
  <2>1. k \in Edit /\ k.p \in Products /\ k.n \in Nat /\ k.at = "sent" BY <1>1, <1>4, EditIs DEF ServerCreates, Waits
  <2>2. created' = created + 1 /\ created < MaxCarts /\ created \in Nat BY <1>4, StateIs DEF ServerCreates
  <2>3. created' \in CartIds BY <2>2, NoCartIs DEF CartIds
  <2> DEFINE x == [Empty EXCEPT ![k.p] = k.n]
  <2>4. x \in Contents BY <2>1, EmptyTyped, ContentTyped
  <2>5. carts' = [carts EXCEPT ![created'] = x] BY <1>4 DEF ServerCreates
  <2>6. carts'[created'] = x BY <2>3, <2>5 DEF TypeInv, StorefrontTypeOK
  <2>7. Answers(k, created', x) BY <1>4, <2>6 DEF ServerCreates
  <2>8. PICK l : Served(k, l) /\ l.at = "answered" /\ l.c = created' /\ l.got = x
    <3> HIDE DEF x
    <3> QED BY <1>4, <2>3, <2>4, <2>7, AnsweredIs DEF ServerCreates, Waits
  <2>9. k.what = "create" /\ UNCHANGED <<orders, charged, shopper, faults>> BY <1>4 DEF ServerCreates, Waits
  <2>10. CreatesCart(k, l) BY <2>1, <2>2, <2>5, <2>6, <2>8, <2>9 DEF CreatesCart
  <2> QED BY <2>10
<1>5. CASE ServerEdits(k)
  <2>1. /\ k \in Edit /\ k.p \in Products /\ k.n \in Nat /\ k.at = "sent"
        /\ k.what \in {"add", "set", "remove"} /\ ~Refused(k)
    BY <1>1, <1>5, EditIs DEF ServerEdits, Waits
  <2>2. k.c \in CartIds BY <1>1, <2>1 DEF Refused
  <2>3. carts[k.c] \in Contents /\ carts[k.c][k.p] \in Nat BY <2>1, <2>2, StateIs, ContentTyped
  <2>4. carts' = [carts EXCEPT ![k.c][k.p] = IF k.what = "add" THEN @ + k.n ELSE k.n] BY <1>5 DEF ServerEdits
  <2> DEFINE n == IF k.what = "add" THEN carts[k.c][k.p] + k.n ELSE k.n
             x == [carts[k.c] EXCEPT ![k.p] = n]
  <2>5. n \in Nat BY <2>1, <2>3
  <2>6. carts'[k.c] = x BY <2>2, <2>3, <2>4 DEF TypeInv, StorefrontTypeOK, Contents
  <2> HIDE DEF n
  <2>7. x \in Contents BY <2>1, <2>3, <2>5, ContentTyped
  <2> HIDE DEF x
  <2>8. PICK l : Served(k, l) /\ l.at = "answered" /\ l.c = k.c /\ l.got = x
    BY <1>5, <2>2, <2>6, <2>7, AnsweredIs DEF ServerEdits, Waits
  <2>9. UNCHANGED <<created, orders, charged, shopper, faults>> BY <1>5 DEF ServerEdits, Waits
  <2>10. EditsCart(k, l) BY <2>1, <2>2, <2>4, <2>6, <2>8, <2>9 DEF EditsCart
  <2> QED BY <2>10
<1>6. CASE ServerReads(k)
  <2>1. k.what \in {"load", "quote"} /\ k.at = "sent" BY <1>6 DEF ServerReads, Waits
  <2>2. k.c \in CartIds BY <1>1, <2>1 DEF Reading
  <2>3. carts[k.c] \in Contents BY <2>2, StateIs
  <2>4. PICK l : Served(k, l) /\ l.at = "answered" /\ l.c = k.c /\ l.got = carts[k.c]
    BY <1>6, <2>2, <2>3, AnsweredIs DEF ServerReads, Waits
  <2>5. ReadsCart(k, l) BY <1>6, <2>1, <2>2, <2>4 DEF ReadsCart, ServerReads, Waits
  <2> QED BY <2>5
<1>7. CASE ServerOrders(k)
  <2>1. k.what = "checkout" /\ k.at = "sent" /\ ~Refused(k) /\ k \in Checkout BY <1>1, <1>7 DEF ServerOrders, Waits
  <2>2. k.c \in CartIds BY <1>1, <2>1 DEF Refused
  <2>3. carts[k.c] \in Contents BY <2>2, StateIs
  <2>4. PICK l : Served(k, l) /\ l.at = "answered" /\ l.c = k.c /\ l.got = carts[k.c]
    BY <1>7, <2>2, <2>3, AnsweredIs DEF ServerOrders, Waits
  <2>5. OrdersCart(k, l) BY <1>7, <2>1, <2>2, <2>4 DEF OrdersCart, ServerOrders, Waits
  <2> QED BY <2>5
<1> QED BY <1>2, <1>3, <1>4, <1>5, <1>6, <1>7 DEF ServerSteps

LEMMA ServerTyped ==
    ASSUME TypeInv, NEW k \in calls, ServerSteps(k) \/ LoseCall(k)
    PROVE  TypeInv'
<1>0. /\ k \in Calls /\ k.c <= created /\ created \in Nat /\ created <= MaxCarts /\ MaxCarts \in Nat
      /\ carts \in [CartIds -> Contents] /\ orders \in [CartIds -> Nat]
      /\ \A o \in charged : o.saw \in Contents /\ o.got \in Contents
  BY StateIs, NoCartIs DEF TypeInv, StorefrontTypeOK
<1>1. PICK l : \/ Refuses(k, l) \/ Loses(k, l) \/ CreatesCart(k, l) \/ EditsCart(k, l)
               \/ ReadsCart(k, l) \/ OrdersCart(k, l)
  BY ServerDoes
<1>2. Served(k, l)
  BY <1>1 DEF Refuses, Loses, CreatesCart, EditsCart, ReadsCart, OrdersCart
<1>3. ~Loses(k, l) => Countable
  <2>1. ~Loses(k, l) => UNCHANGED <<shopper, faults>> BY <1>1 DEF Refuses, CreatesCart, EditsCart, ReadsCart, OrdersCart
  <2> QED BY <2>1, StillCountable
<1>4. Loses(k, l) => Countable
  <2> SUFFICES ASSUME Loses(k, l) PROVE Countable
    OBVIOUS
  <2>1. UNCHANGED <<acts, acted, rushed, walkouts>> /\ faults' = faults + 1 /\ rushed + faults < MaxTrouble
    BY DEF Loses, shopper
  <2>2. rushed \in Nat /\ faults \in Nat /\ walkouts \in Nat /\ MaxTrouble \in Nat BY StateIs, NoCartIs
  <2>3. faults' \in Nat /\ rushed' + faults' \in 0..MaxTrouble BY <2>1, <2>2
  <2> QED BY <2>1, <2>2, <2>3 DEF Countable, TypeInv, StorefrontTypeOK
<1>5. Countable BY <1>3, <1>4
<1>6. CASE Refuses(k, l) \/ Loses(k, l) \/ ReadsCart(k, l)
  <2>1. l.c = k.c /\ UNCHANGED <<carts, created, orders, charged>> BY <1>6 DEF Refuses, Loses, ReadsCart, server
  <2> QED BY <1>0, <1>2, <1>5, <2>1, ServedTyped
<1>7. CASE CreatesCart(k, l)
  <2>1. k.p \in Products /\ k.n \in Nat BY <1>7, EditIs DEF CreatesCart
  <2>2. [Empty EXCEPT ![k.p] = k.n] \in Contents BY <2>1, EmptyTyped, ContentTyped
  <2>3. carts' \in [CartIds -> Contents] BY <1>0, <1>7, <2>2 DEF CreatesCart
  <2>4. created' \in 0..MaxCarts /\ created <= created' /\ l.c <= created' BY <1>0, <1>7 DEF CreatesCart
  <2>5. orders' = orders /\ charged' = charged BY <1>7 DEF CreatesCart
  <2> QED BY <1>0, <1>2, <1>5, <2>3, <2>4, <2>5, ServedTyped
<1>8. CASE EditsCart(k, l)
  <2>1. k.p \in Products /\ k.n \in Nat /\ k.c \in CartIds BY <1>8, EditIs DEF EditsCart
  <2>2. carts[k.c] \in Contents /\ carts[k.c][k.p] \in Nat BY <2>1, StateIs, ContentTyped
  <2>3. carts' = [carts EXCEPT ![k.c][k.p] = IF k.what = "add" THEN @ + k.n ELSE k.n] BY <1>8 DEF EditsCart
  <2> DEFINE n == IF k.what = "add" THEN carts[k.c][k.p] + k.n ELSE k.n
             x == [carts[k.c] EXCEPT ![k.p] = n]
  <2>4. n \in Nat BY <2>1, <2>2
  <2>5. carts' = [carts EXCEPT ![k.c] = x] BY <2>3
  <2> HIDE DEF n
  <2>6. x \in Contents BY <2>1, <2>2, <2>4, ContentTyped
  <2> HIDE DEF x
  <2>7. carts' \in [CartIds -> Contents] BY <1>0, <2>5, <2>6
  <2>8. UNCHANGED <<created, orders, charged>> /\ l.c = k.c BY <1>8 DEF EditsCart
  <2> QED BY <1>0, <1>2, <1>5, <2>7, <2>8, ServedTyped
<1>9. CASE OrdersCart(k, l)
  <2>1. orders' \in [CartIds -> Nat] BY <1>0, <1>9 DEF OrdersCart
  <2>2. k.saw \in Contents /\ carts[k.c] \in Contents BY <1>9, CheckoutIs, StateIs DEF OrdersCart
  <2>3. \A o \in charged' : o.saw \in Contents /\ o.got \in Contents BY <1>0, <1>9, <2>2 DEF OrdersCart
  <2>4. UNCHANGED <<carts, created>> /\ l.c = k.c BY <1>9 DEF OrdersCart
  <2> QED BY <1>0, <1>2, <1>5, <2>1, <2>3, <2>4, ServedTyped
<1> QED BY <1>1, <1>6, <1>7, <1>8, <1>9

(* What a tab makes of an answer. *)
LEMMA HeldIs ==
    ASSUME TypeInv, NEW k \in calls
    PROVE  /\ Held(k) \in Tab /\ Held(k).cart = tab[k.t].cart /\ Held(k).into = tab[k.t].into
           /\ Held(k).busy = tab[k.t].busy /\ Held(k).page = tab[k.t].page /\ Held(k).quote = tab[k.t].quote
           /\ Held(k).shown = tab[k.t].shown
           /\ Held(k).adding = (tab[k.t].adding /\ ~(k.bundle /\ tab[k.t].left = << >>))
           /\ Held(k).left = IF k.bundle /\ tab[k.t].left # << >> THEN Tail(tab[k.t].left) ELSE tab[k.t].left
<1>1. k.t \in Tabs /\ tab[k.t] \in Tab BY StateIs, CallIs
<1>2. tab[k.t].left # << >> => Tail(tab[k.t].left) \in Seq(Products)
  <2>1. tab[k.t].left \in Seq(Products) BY <1>1, TabIs
  <2> QED BY <2>1, HeadTailProperties
<1>3. tab[k.t].adding \in BOOLEAN BY <1>1, TabIs
<1>4. CASE ~k.bundle BY <1>1, <1>3, <1>4 DEF Held
<1>5. CASE k.bundle /\ tab[k.t].left = << >> BY <1>1, <1>3, <1>5 DEF Held, Tab
<1>6. CASE k.bundle /\ tab[k.t].left # << >> BY <1>1, <1>2, <1>3, <1>6 DEF Held, Tab
<1> QED BY <1>4, <1>5, <1>6

LEMMA NextIs ==
    ASSUME TypeInv, NEW k \in calls, k \in Edit
    PROVE  /\ Asks(k.t, NextOfBundle(k))
           /\ k.bundle /\ tab[k.t].left # << >> =>
                 NextOfBundle(k) = {AddTo(k.t, tab[k.t].into, Head(tab[k.t].left), k.no, TRUE)}
           /\ ~(k.bundle /\ tab[k.t].left # << >>) => NextOfBundle(k) = {}
           /\ \A l \in NextOfBundle(k) : l.what \in {"create", "add"}
<1>1. k.t \in Tabs /\ tab[k.t] \in Tab /\ k.no \in Nat BY StateIs, CallIs, EditIs
<1>2. tab[k.t].into \in CartIds \cup {NoCart} /\ tab[k.t].left \in Seq(Products) BY <1>1, TabIs
<1>3. CASE k.bundle /\ tab[k.t].left # << >>
  <2> DEFINE p == Head(tab[k.t].left)
             l == AddTo(k.t, tab[k.t].into, p, k.no, TRUE)
  <2>1. p \in Products BY <1>2, <1>3, HeadTailProperties
  <2>2. NextOfBundle(k) = {l} BY <1>3 DEF NextOfBundle
  <2>3. /\ l \in Calls /\ l.t = k.t /\ l.at = "sent" /\ l.c = tab[k.t].into /\ (l.what = "create" => l.c = NoCart)
        /\ l.what \in {"create", "add"}
    <3> HIDE DEF p
    <3> QED BY <1>1, <1>2, <2>1, EmptyTyped DEF AddTo, Change, Calls, Edit
  <2> QED BY <1>3, <2>2, <2>3 DEF Asks
<1>4. CASE ~(k.bundle /\ tab[k.t].left # << >>) BY <1>4 DEF NextOfBundle, Asks
<1> QED BY <1>3, <1>4

LEMMA RequotesIs ==
    ASSUME NEW t, NEW c, NEW x
    PROVE  /\ Requotes(t, c, x) = Read("quote", t, c) \/ Requotes(t, c, x) = {}
           /\ tab[t].page # "cart" => Requotes(t, c, x) = {}
           /\ tab[t].page = "cart" /\ c # tab[t].cart => Requotes(t, c, x) = Read("quote", t, c)
  BY DEF Requotes

LEMMA ReadAsks ==
    ASSUME NEW t \in Tabs, NEW c \in CartIds \cup {NoCart}, c \in {stored, tab[t].cart}, NEW what \in {"load", "quote"}
    PROVE  Asks(t, Read(what, t, c))
  BY ReadIs DEF Asks

Receives(k) == \E T, new : Browses(k.t, T, new) /\ UNCHANGED <<shopper, faults>>

LEMMA ChangedReceives ==
    ASSUME TypeInv, NEW k \in calls, CartChanged(k)
    PROVE  Receives(k)
<1> DEFINE T == [Held(k) EXCEPT !.shown = k.got]
           new == NextOfBundle(k) \cup Requotes(k.t, tab[k.t].cart, k.got)
<1>0. /\ k \in Calls /\ k.t \in Tabs /\ tab[k.t] \in Tab /\ TabOK(tab[k.t], created) /\ k.got \in Contents
      /\ tab[k.t].cart \in CartIds \cup {NoCart}
  BY StateIs, CallIs, TabIs
<1>1. k \in Edit BY <1>0, CallIs DEF CartChanged
<1>2. UNCHANGED server /\ UNCHANGED <<shopper, faults>> /\ stored' = stored BY DEF CartChanged, Arrives
<1>3. Becomes(k.t, T)
  <2>1. T \in Tab /\ T.cart = tab[k.t].cart /\ T.into = tab[k.t].into /\ T.busy = tab[k.t].busy BY <1>0, HeldIs DEF Tab
  <2> HIDE DEF T
  <2> QED BY <1>0, <2>1 DEF Becomes, TabOK
<1>4. Asks(k.t, Requotes(k.t, tab[k.t].cart, k.got))
  <2>1. Asks(k.t, Read("quote", k.t, tab[k.t].cart)) BY <1>0, ReadAsks
  <2> QED BY <2>1, RequotesIs DEF Asks
<1>5. Asks(k.t, new) BY <1>1, <1>4, NextIs DEF Asks
<1>6. calls' \subseteq calls \cup new /\ tab' = [tab EXCEPT ![k.t] = T] BY DEF CartChanged
<1> HIDE DEF T, new
<1> QED BY <1>2, <1>3, <1>5, <1>6 DEF Receives, Browses

LEMMA LoadedReceives ==
    ASSUME TypeInv, NEW k \in calls, CartLoaded(k) \/ Quoted(k)
    PROVE  Receives(k)
<1>0. /\ k \in Calls /\ k.t \in Tabs /\ tab[k.t] \in Tab /\ TabOK(tab[k.t], created) /\ k.got \in Contents
      /\ tab[k.t].cart \in CartIds \cup {NoCart}
  BY StateIs, CallIs, TabIs
<1>1. UNCHANGED server /\ UNCHANGED <<shopper, faults>> /\ stored' = stored BY DEF CartLoaded, Quoted, Arrives
<1>2. CASE CartLoaded(k)
  <2> DEFINE T == [tab[k.t] EXCEPT !.shown = k.got]
             new == Requotes(k.t, tab[k.t].cart, k.got)
  <2>1. Becomes(k.t, T)
    <3>1. T \in Tab /\ T.cart = tab[k.t].cart /\ T.into = tab[k.t].into /\ T.busy = tab[k.t].busy BY <1>0 DEF Tab
    <3> HIDE DEF T
    <3> QED BY <1>0, <3>1 DEF Becomes, TabOK
  <2>2. Asks(k.t, new)
    <3>1. Asks(k.t, Read("quote", k.t, tab[k.t].cart)) BY <1>0, ReadAsks
    <3> QED BY <3>1, RequotesIs DEF Asks
  <2>3. calls' \subseteq calls \cup new /\ tab' = [tab EXCEPT ![k.t] = T] BY <1>2 DEF CartLoaded
  <2> HIDE DEF T, new
  <2> QED BY <1>1, <2>1, <2>2, <2>3 DEF Receives, Browses
<1>3. CASE Quoted(k)
  <2> DEFINE T == [tab[k.t] EXCEPT !.quote = {k.got}]
  <2>1. Becomes(k.t, T)
    <3>1. T \in Tab /\ T.cart = tab[k.t].cart /\ T.into = tab[k.t].into /\ T.busy = tab[k.t].busy BY <1>0 DEF Tab
    <3> HIDE DEF T
    <3> QED BY <1>0, <3>1 DEF Becomes, TabOK
  <2>2. Asks(k.t, {}) BY DEF Asks
  <2>3. calls' \subseteq calls /\ tab' = [tab EXCEPT ![k.t] = T] BY <1>3 DEF Quoted
  <2> HIDE DEF T
  <2> QED BY <1>1, <2>1, <2>2, <2>3 DEF Receives, Browses
<1> QED BY <1>2, <1>3

LEMMA CheckedReceives ==
    ASSUME TypeInv, NEW k \in calls, CheckedOut(k)
    PROVE  Receives(k)
<1> DEFINE T == [Left(k.t) EXCEPT !.cart = NoCart, !.shown = Empty]
<1>0. k.t \in Tabs BY StateIs, CallIs
<1>1. UNCHANGED server /\ UNCHANGED <<shopper, faults>> /\ stored' = NoCart BY DEF CheckedOut, Arrives
<1>2. Becomes(k.t, T)
  <2>0. Left(k.t) \in Tab /\ Left(k.t).busy = {} /\ Left(k.t).into = tab[k.t].into BY <1>0, LeftIs
  <2>1. T \in Tab /\ T.cart = NoCart /\ T.into = tab[k.t].into /\ T.busy = {} BY <2>0, EmptyTyped DEF Tab
  <2> HIDE DEF T
  <2> QED BY <2>1 DEF Becomes
<1>3. calls' \subseteq calls /\ tab' = [tab EXCEPT ![k.t] = T] BY DEF CheckedOut
<1>4. Asks(k.t, {}) BY DEF Asks
<1> HIDE DEF T
<1> QED BY <1>1, <1>2, <1>3, <1>4 DEF Receives, Browses

(* What a failure leaves of a tab. *)
AfterFailure(k) ==
    CASE k.what = "load" -> [tab[k.t] EXCEPT !.cart = NoCart, !.shown = Empty]
      [] k.what = "quote" -> [tab[k.t] EXCEPT !.quote = {}]
      [] k.what = "checkout" -> [tab[k.t] EXCEPT !.busy = @ \ {k.no}]
      [] OTHER -> IF k.bundle THEN [tab[k.t] EXCEPT !.adding = FALSE, !.left = << >>] ELSE tab[k.t]

LEMMA AfterFailureIs ==
    ASSUME TypeInv, NEW k \in calls
    PROVE  /\ AfterFailure(k) \in Tab /\ AfterFailure(k).into = tab[k.t].into
           /\ AfterFailure(k).cart = IF k.what = "load" THEN NoCart ELSE tab[k.t].cart
           /\ AfterFailure(k).busy = IF k.what = "checkout" THEN tab[k.t].busy \ {k.no} ELSE tab[k.t].busy
<1>0. k \in Calls /\ k.t \in Tabs /\ tab[k.t] \in Tab BY StateIs, CallIs
<1>1. CASE k.what = "load" BY <1>0, <1>1, EmptyTyped DEF AfterFailure, Tab
<1>2. CASE k.what = "quote" BY <1>0, <1>2 DEF AfterFailure, Tab
<1>3. CASE k.what = "checkout" BY <1>0, <1>3 DEF AfterFailure, Tab
<1>4. CASE k.what \notin {"load", "quote", "checkout"}
  <2>1. AfterFailure(k) = IF k.bundle THEN [tab[k.t] EXCEPT !.adding = FALSE, !.left = << >>] ELSE tab[k.t]
    BY <1>4 DEF AfterFailure
  <2>2. << >> \in Seq(Products) BY EmptySeq
  <2>3. CASE k.bundle BY <1>0, <1>4, <2>1, <2>2, <2>3 DEF Tab
  <2>4. CASE ~k.bundle BY <1>0, <1>4, <2>1, <2>4
  <2> QED BY <2>3, <2>4
<1> QED BY <1>1, <1>2, <1>3, <1>4

LEMMA FailureReceives ==
    ASSUME TypeInv, NEW k \in calls, CallFails(k)
    PROVE  Receives(k)
<1>0. k.t \in Tabs /\ TabOK(tab[k.t], created) BY StateIs, CallIs
<1>1. UNCHANGED server /\ UNCHANGED <<shopper, faults>> /\ stored' \in {stored, NoCart} BY DEF CallFails
<1>2. Becomes(k.t, AfterFailure(k)) BY <1>0, AfterFailureIs DEF Becomes, TabOK
<1>3. calls' \subseteq calls /\ tab' = [tab EXCEPT ![k.t] = AfterFailure(k)] BY DEF CallFails, AfterFailure
<1>4. Asks(k.t, {}) BY DEF Asks
<1> QED BY <1>1, <1>2, <1>3, <1>4 DEF Receives, Browses

(* The new cart a tab has asked for. *)
NewCart(k, T, new) ==
    /\ UNCHANGED server /\ UNCHANGED <<shopper, faults>> /\ stored' = k.c
    /\ k.what = "create" /\ k.at = "answered" /\ k \in Edit
    /\ T \in Tab /\ T.cart = k.c /\ T.into = tab[k.t].into /\ T.busy = tab[k.t].busy
    /\ tab' = [tab EXCEPT ![k.t] = T] /\ calls' = (calls \ {k}) \cup new
    /\ \A l \in new : /\ l \in Calls /\ l.t = k.t /\ l.at = "sent" /\ l.c \in {NoCart, k.c, tab[k.t].into}
                      /\ l.what \in {"load", "quote", "add", "create"} /\ (l.what = "create" => l.c = NoCart)

LEMMA CreatedReceives ==
    ASSUME TypeInv, NEW k \in calls, CartCreated(k)
    PROVE  \E T, new : NewCart(k, T, new)
<1> DEFINE T == [Held(k) EXCEPT !.cart = k.c, !.shown = k.got]
           next == NextOfBundle(k)
           new == Read("load", k.t, k.c) \cup next \cup Requotes(k.t, k.c, k.got)
<1>0. k \in Calls /\ k.t \in Tabs /\ tab[k.t] \in Tab /\ k.got \in Contents /\ k.c \in CartIds \cup {NoCart}
  BY StateIs, CallIs
<1>1. k \in Edit /\ k.what = "create" /\ k.at = "answered" BY <1>0, CallIs DEF CartCreated, Arrives
<1>2. UNCHANGED server /\ UNCHANGED <<shopper, faults>> /\ stored' = k.c BY DEF CartCreated, Arrives
<1>3. T \in Tab /\ T.cart = k.c /\ T.into = tab[k.t].into /\ T.busy = tab[k.t].busy BY <1>0, HeldIs DEF Tab
<1>4. calls' = (calls \ {k}) \cup new /\ tab' = [tab EXCEPT ![k.t] = T] BY DEF CartCreated
<1>5. \A l \in Read("load", k.t, k.c) \cup Requotes(k.t, k.c, k.got) :
          l \in Calls /\ l.t = k.t /\ l.at = "sent" /\ l.c = k.c /\ l.what \in {"load", "quote"}
  <2>1. \A l \in Read("load", k.t, k.c) : l \in Calls /\ l.t = k.t /\ l.at = "sent" /\ l.c = k.c /\ l.what = "load"
    BY <1>0, ReadIs
  <2>2. \A l \in Read("quote", k.t, k.c) : l \in Calls /\ l.t = k.t /\ l.at = "sent" /\ l.c = k.c /\ l.what = "quote"
    BY <1>0, ReadIs
  <2>3. Requotes(k.t, k.c, k.got) \subseteq Read("quote", k.t, k.c) BY RequotesIs
  <2> QED BY <2>1, <2>2, <2>3
<1>6. \A l \in next : /\ l \in Calls /\ l.t = k.t /\ l.at = "sent" /\ l.c \in {NoCart, tab[k.t].into}
                      /\ l.what \in {"create", "add"} /\ (l.what = "create" => l.c = NoCart)
  <2>1. \A l \in next : l \in Calls /\ l.t = k.t /\ l.at = "sent" /\ l.what \in {"create", "add"} /\ (l.what = "create" => l.c = NoCart)
    BY <1>1, NextIs DEF Asks
  <2>2. \A l \in next : l.c = tab[k.t].into BY DEF NextOfBundle, AddTo, Change
  <2> QED BY <2>1, <2>2
<1>7. \A l \in new : /\ l \in Calls /\ l.t = k.t /\ l.at = "sent" /\ l.c \in {NoCart, k.c, tab[k.t].into}
                     /\ l.what \in {"load", "quote", "add", "create"} /\ (l.what = "create" => l.c = NoCart)
  <2> SUFFICES ASSUME NEW l \in new
               PROVE  /\ l \in Calls /\ l.t = k.t /\ l.at = "sent" /\ l.c \in {NoCart, k.c, tab[k.t].into}
                      /\ l.what \in {"load", "quote", "add", "create"} /\ (l.what = "create" => l.c = NoCart)
    OBVIOUS
  <2>1. CASE l \in next BY <1>6, <2>1
  <2>2. CASE l \notin next BY <1>5, <2>2
  <2> QED BY <2>1, <2>2
<1> HIDE DEF T, next, new
<1> QED BY <1>1, <1>2, <1>3, <1>4, <1>7 DEF NewCart

LEMMA TabDoes ==
    ASSUME TypeInv, NEW k \in calls, TabSteps(k)
    PROVE  Receives(k) \/ \E T, new : NewCart(k, T, new)
  BY ChangedReceives, LoadedReceives, CheckedReceives, FailureReceives, CreatedReceives DEF TabSteps

LEMMA NewCartTyped ==
    ASSUME TypeInv, NEW k \in calls, NEW T, NEW new, NewCart(k, T, new)
    PROVE  TypeInv'
<1>1. /\ calls \subseteq Calls /\ \A j \in calls : j.c <= created
      /\ tab \in [Tabs -> Tab] /\ \A u \in Tabs : TabOK(tab[u], created)
      /\ created \in Nat /\ stored \in Nat /\ NoCart = 0 /\ k \in Calls /\ k.t \in Tabs /\ k.c \in Nat /\ k.c <= created
  <2>1. k.c \in CartIds \cup {NoCart} /\ k.t \in Tabs BY StateIs, CallIs
  <2> QED BY <2>1, StateIs, NoCartIs DEF TypeInv, StorefrontTypeOK
<1>2. created' = created /\ carts' = carts /\ orders' = orders /\ charged' = charged BY DEF NewCart, server
<1>3. tab[k.t].into <= created /\ \A i, j \in tab[k.t].busy : i = j BY <1>1 DEF TabOK
<1>4. \A j \in calls' : j \in Calls /\ j.c <= created'
  <2>1. 0 <= created BY <1>1
  <2> QED BY <1>1, <1>2, <1>3, <2>1 DEF NewCart
<1>5. T \in Tab /\ TabOK(T, created') BY <1>1, <1>2, <1>3 DEF NewCart, TabOK
<1>6. tab' \in [Tabs -> Tab] /\ \A u \in Tabs : TabOK(tab'[u], created')
  <2>1. \A u \in Tabs : tab'[u] = IF u = k.t THEN T ELSE tab[u] BY <1>1 DEF NewCart
  <2>2. \A u \in Tabs : tab'[u] \in Tab /\ TabOK(tab'[u], created') BY <1>1, <1>2, <1>5, <2>1
  <2> QED BY <1>1, <1>5, <2>2 DEF NewCart
<1>7. stored' \in 0..created' BY <1>1, <1>2 DEF NewCart
<1>8. UNCHANGED <<acts, acted, rushed, walkouts, faults>> BY DEF NewCart, shopper
<1> QED BY <1>2, <1>4, <1>6, <1>7, <1>8 DEF TypeInv, StorefrontTypeOK, Calls

LEMMA InitTyped ==
    ASSUME StorefrontInit
    PROVE  TypeInv
<1>1. created = 0 /\ stored = 0 /\ calls = {} /\ charged = {} BY DEF StorefrontInit, NoCart
<1>2. \A t \in Tabs : tab[t] \in Tab /\ TabOK(tab[t], created) BY <1>1, BlankTyped, NoCartIs DEF StorefrontInit, TabOK
<1>3. tab \in [Tabs -> Tab] BY <1>2 DEF StorefrontInit
<1>4. carts \in [CartIds -> Contents] /\ orders \in [CartIds -> Nat] BY EmptyTyped DEF StorefrontInit
<1>5. acts = 0 /\ faults = 0 /\ acted = {} /\ rushed = 0 /\ walkouts = 0 BY DEF StorefrontInit
<1>6. MaxCarts \in Nat /\ MaxActs \in Nat /\ MaxTrouble \in Nat BY NoCartIs
<1>7. StorefrontTypeOK BY <1>1, <1>3, <1>4, <1>5, <1>6 DEF StorefrontTypeOK
<1> QED BY <1>1, <1>2, <1>5, <1>7 DEF TypeInv

LEMMA NextTyped == TypeInv /\ [StorefrontNext]_storefrontVars => TypeInv'
<1> SUFFICES ASSUME TypeInv, [StorefrontNext]_storefrontVars PROVE TypeInv'
    OBVIOUS
<1>1. CASE UNCHANGED storefrontVars
  <2>1. UNCHANGED <<carts, created, orders, charged, stored, tab, calls, acts, acted, rushed, walkouts, faults>>
    BY <1>1 DEF storefrontVars, server, shopper
  <2> QED BY <2>1 DEF TypeInv, StorefrontTypeOK
<1>2. ASSUME NEW t \in Tabs, Shops(t) PROVE TypeInv' BY <1>2, ShopperDoes, BrowseTyped DEF Does
<1>3. ASSUME NEW k \in calls, ServerSteps(k) \/ LoseCall(k) PROVE TypeInv' BY <1>3, ServerTyped
<1>4. ASSUME NEW k \in calls, TabSteps(k) PROVE TypeInv'
  <2>1. k.t \in Tabs BY StateIs, CallIs
  <2>2. CASE Receives(k) BY <2>1, <2>2, StillCountable, BrowseTyped DEF Receives
  <2>3. CASE \E T, new : NewCart(k, T, new) BY <2>3, NewCartTyped
  <2> QED BY <1>4, <2>2, <2>3, TabDoes
<1> QED BY <1>1, <1>2, <1>3, <1>4 DEF StorefrontNext

(* The state of the server, the browser and the calls keeps its shape. *)
THEOREM StorefrontType == StorefrontSpec => []StorefrontTypeOK
<1>1. TypeInv => StorefrontTypeOK BY DEF TypeInv
<1> QED BY <1>1, InitTyped, NextTyped, PTL DEF StorefrontSpec
----------------------------------------------------------------------------
(* A cart is nobody's before the answer to its creation. *)

LEMMA UsedIs ==
    ASSUME TypeInv, NEW c \in CartIds
    PROVE  orders[c] \in Nat /\ c \in Nat /\ c # NoCart /\ (~Used(c) => orders[c] = 0)
<1>1. orders[c] \in Nat /\ c \in Nat /\ c # NoCart BY StateIs, NoCartIs
<1> QED BY <1>1 DEF Used

LEMMA BrowseHides ==
    ASSUME TypeInv, HiddenUnused, NEW t \in Tabs, NEW T, NEW new, Browses(t, T, new)
    PROVE  HiddenUnused'
<1>0. /\ tab \in [Tabs -> Tab] /\ created' = created /\ orders' = orders /\ NoCart \notin CartIds
      /\ \A u \in Tabs : tab'[u] = IF u = t THEN T ELSE tab[u]
  BY NoCartIs DEF TypeInv, StorefrontTypeOK, Browses, server
<1>1. \A k \in calls' \ calls : k.c \in {NoCart, stored, tab[t].cart, tab[t].into} /\ (k.what = "create" => k.c = NoCart)
  BY DEF Browses, Asks
<1>2. ASSUME NEW c \in CartIds, Hidden(c)' PROVE ~Used(c)'
  <2>1. Hidden(c)
    <3>1. CASE c > created BY <3>1 DEF Hidden
    <3>2. ASSUME NEW k \in calls', k.what = "create", k.c = c PROVE Hidden(c)
      <4>1. k \in calls BY <1>0, <1>1, <3>2
      <4> QED BY <3>2, <4>1 DEF Hidden
    <3> QED BY <1>0, <1>2, <3>1, <3>2 DEF Hidden
  <2>2. ~Used(c) BY <2>1 DEF HiddenUnused
  <2>3. ~(orders'[c] > 0) /\ stored' # c BY <1>0, <2>2 DEF Used, Browses
  <2>4. \A u \in Tabs : tab'[u].cart # c /\ tab'[u].into # c BY <1>0, <2>2 DEF Used, Browses, Becomes
  <2>5. \A k \in calls' : k.what # "create" => k.c # c BY <1>0, <1>1, <2>2 DEF Used
  <2> QED BY <2>3, <2>4, <2>5 DEF Used
<1>3. \A k, l \in calls' : k.what = "create" /\ l.what = "create" /\ k.c = l.c /\ k.c # NoCart => k = l
  BY <1>1 DEF HiddenUnused
<1> QED BY <1>2, <1>3 DEF HiddenUnused

LEMMA NewCartHides ==
    ASSUME TypeInv, HiddenUnused, NEW k \in calls, NEW T, NEW new, NewCart(k, T, new)
    PROVE  HiddenUnused'
<1>0. /\ tab \in [Tabs -> Tab] /\ created' = created /\ orders' = orders /\ NoCart \notin CartIds /\ k.t \in Tabs
      /\ \A u \in Tabs : tab'[u] = IF u = k.t THEN T ELSE tab[u]
  BY NoCartIs, StateIs, CallIs DEF TypeInv, StorefrontTypeOK, NewCart, server
<1>1. \A l \in calls' : \/ l \in calls /\ l # k
                        \/ l.c \in {NoCart, k.c, tab[k.t].into} /\ (l.what = "create" => l.c = NoCart)
  BY DEF NewCart
<1>2. \A l, m \in calls' : l.what = "create" /\ m.what = "create" /\ l.c = m.c /\ l.c # NoCart => l = m
  BY <1>1 DEF HiddenUnused
<1>3. ASSUME NEW c \in CartIds, Hidden(c)' PROVE ~Used(c)'
  <2>1. c # k.c
    <3> SUFFICES ASSUME c = k.c PROVE FALSE
      OBVIOUS
    <3>1. ~(c > created) BY StateIs, NoCartIs
    <3>2. PICK l \in calls' : l.what = "create" /\ l.c = c BY <1>0, <1>3, <3>1 DEF Hidden
    <3>3. l \in calls /\ l # k BY <1>0, <1>1, <3>2
    <3> QED BY <1>0, <3>2, <3>3 DEF HiddenUnused, NewCart
  <2>2. Hidden(c)
    <3>1. CASE c > created BY <3>1 DEF Hidden
    <3>2. ASSUME NEW l \in calls', l.what = "create", l.c = c PROVE Hidden(c)
      <4>1. l \in calls BY <1>0, <1>1, <3>2
      <4> QED BY <3>2, <4>1 DEF Hidden
    <3> QED BY <1>0, <1>3, <3>1, <3>2 DEF Hidden
  <2>3. ~Used(c) BY <2>2 DEF HiddenUnused
  <2>4. ~(orders'[c] > 0) /\ stored' # c BY <1>0, <2>1, <2>3 DEF Used, NewCart
  <2>5. \A u \in Tabs : tab'[u].cart # c /\ tab'[u].into # c BY <1>0, <2>1, <2>3 DEF Used, NewCart
  <2>6. \A l \in calls' : l.what # "create" => l.c # c BY <1>0, <1>1, <2>1, <2>3 DEF Used
  <2> QED BY <2>4, <2>5, <2>6 DEF Used
<1> QED BY <1>2, <1>3 DEF HiddenUnused

LEMMA ServerHides ==
    ASSUME TypeInv, HiddenUnused, NEW k \in calls, ServerSteps(k) \/ LoseCall(k)
    PROVE  HiddenUnused'
<1>0. PICK l : \/ Refuses(k, l) \/ Loses(k, l) \/ CreatesCart(k, l) \/ EditsCart(k, l)
               \/ ReadsCart(k, l) \/ OrdersCart(k, l)
  BY ServerDoes
<1>1. Served(k, l)
  BY <1>0 DEF Refuses, Loses, CreatesCart, EditsCart, ReadsCart, OrdersCart
<1>2. stored' = stored /\ tab' = tab /\ calls' = (calls \ {k}) \cup {l} /\ l.what = k.what BY <1>1 DEF Served
<1>3. created \in Nat /\ (\A j \in calls : j.c <= created) /\ NoCart \notin CartIds /\ NoCart = 0 BY StateIs, NoCartIs
<1>4. CASE CreatesCart(k, l)
  <2>1. k.what = "create" /\ l.c = created + 1 /\ created' = created + 1 /\ orders' = orders BY <1>4 DEF CreatesCart
  <2>2. ASSUME NEW c \in CartIds, Hidden(c)' PROVE ~Used(c)'
    <3>1. Hidden(c)
      <4>1. CASE c = created + 1 BY <1>3, <4>1 DEF Hidden
      <4>2. CASE c # created + 1
        <5>1. c \in Nat BY NoCartIs
        <5>2. CASE c > created' BY <1>3, <2>1, <5>1, <5>2 DEF Hidden
        <5>3. ASSUME NEW j \in calls', j.what = "create", j.c = c PROVE Hidden(c)
          <6>1. j \in calls BY <1>2, <2>1, <4>2, <5>3
          <6> QED BY <5>3, <6>1 DEF Hidden
        <5> QED BY <2>2, <5>2, <5>3 DEF Hidden
      <4> QED BY <4>1, <4>2
    <3>2. ~Used(c) BY <3>1 DEF HiddenUnused
    <3>3. \A j \in calls' : j.what # "create" => j.c # c BY <1>2, <2>1, <3>2 DEF Used
    <3> QED BY <1>2, <2>1, <3>2, <3>3 DEF Used
  <2>3. \A i, j \in calls' : i.what = "create" /\ j.what = "create" /\ i.c = j.c /\ i.c # NoCart => i = j
    <3>1. \A i \in calls : i.c # l.c
      <4>1. \A i \in calls : i.c \in Nat BY StateIs, CallIs, NoCartIs
      <4> QED BY <1>3, <2>1, <4>1
    <3> QED BY <1>2, <3>1 DEF HiddenUnused
  <2> QED BY <2>2, <2>3 DEF HiddenUnused
<1>5. CASE ~CreatesCart(k, l)
  <2>1. l.c = k.c /\ created' = created
    BY <1>0, <1>5 DEF Refuses, Loses, EditsCart, ReadsCart, OrdersCart, server
  <2>2. ASSUME NEW c \in CartIds, Hidden(c)' PROVE ~Used(c)'
    <3>1. Hidden(c) BY <1>2, <2>1, <2>2 DEF Hidden
    <3>2. ~Used(c) BY <3>1 DEF HiddenUnused
    <3>3. \A j \in calls' : j.what # "create" => j.c # c BY <1>2, <2>1, <3>2 DEF Used
    <3>4. orders'[c] = orders[c]
      <4>1. CASE OrdersCart(k, l)
        <5>1. k.c # c BY <3>2, <4>1 DEF Used, OrdersCart
        <5> QED BY <4>1, <5>1 DEF OrdersCart, TypeInv, StorefrontTypeOK
      <4>2. CASE ~OrdersCart(k, l)
        BY <1>0, <1>5, <4>2 DEF Refuses, Loses, EditsCart, ReadsCart, server
      <4> QED BY <4>1, <4>2
    <3> QED BY <1>2, <3>2, <3>3, <3>4 DEF Used
  <2>3. \A i, j \in calls' : i.what = "create" /\ j.what = "create" /\ i.c = j.c /\ i.c # NoCart => i = j
    BY <1>2, <2>1 DEF HiddenUnused
  <2> QED BY <2>2, <2>3 DEF HiddenUnused
<1> QED BY <1>4, <1>5

LEMMA NextHides ==
    ASSUME TypeInv, HiddenUnused, [StorefrontNext]_storefrontVars
    PROVE  HiddenUnused'
<1>1. CASE UNCHANGED storefrontVars
  <2>1. UNCHANGED <<created, orders, stored, tab, calls>> BY <1>1 DEF storefrontVars, server
  <2> QED BY <2>1 DEF HiddenUnused, Hidden, Used
<1>2. ASSUME NEW t \in Tabs, Shops(t) PROVE HiddenUnused' BY <1>2, ShopperDoes, BrowseHides DEF Does
<1>3. ASSUME NEW k \in calls, ServerSteps(k) \/ LoseCall(k) PROVE HiddenUnused' BY <1>3, ServerHides
<1>4. ASSUME NEW k \in calls, TabSteps(k) PROVE HiddenUnused'
  <2>1. k.t \in Tabs BY StateIs, CallIs
  <2>2. CASE Receives(k) BY <2>1, <2>2, BrowseHides DEF Receives
  <2>3. CASE \E T, new : NewCart(k, T, new) BY <2>3, NewCartHides
  <2> QED BY <1>4, <2>2, <2>3, TabDoes
<1> QED BY <1>1, <1>2, <1>3, <1>4 DEF StorefrontNext
----------------------------------------------------------------------------
(* Orders are counted. *)

LEMMA CheckoutsAre ==
    ASSUME TypeInv
    PROVE  \A k \in Checkouts : k \in calls /\ k \in Calls /\ k \in Checkout /\ k.what = "checkout" /\ k.t \in Tabs /\ k.no \in Nat
  BY StateIs, CallIs, CheckoutIs DEF Checkouts

LEMMA Finite ==
    ASSUME TypeInv, NEW c
    PROVE  /\ IsFiniteSet(Pending(c)) /\ IsFiniteSet(acted) /\ IsFiniteSet(acted \ Free(c))
           /\ Cardinality(Pending(c)) \in Nat /\ Cardinality(acted \ Free(c)) \in Nat /\ Cardinality(acted) \in Nat
<1>1. IsFiniteSet(0..MaxActs) BY NoCartIs, FS_Interval
<1>2. IsFiniteSet(Pending(c))
  <2>1. Pending(c) \subseteq 0..MaxActs BY DEF Pending
  <2> QED BY <1>1, <2>1, FS_Subset
<1>3. IsFiniteSet(acted)
  <2>1. acted \subseteq Tabs BY DEF TypeInv, StorefrontTypeOK
  <2> QED BY <2>1, StorefrontAssumption, FS_Subset
<1>4. IsFiniteSet(acted \ Free(c)) BY <1>3, FS_Subset
<1> QED BY <1>2, <1>3, <1>4, FS_CardinalityType

(* One more at most, or one less. *)
LEMMA OneMore ==
    ASSUME NEW P, IsFiniteSet(P), NEW Q, NEW x, Q \subseteq P \cup {x}
    PROVE  IsFiniteSet(Q) /\ Cardinality(Q) \in Nat /\ Cardinality(P) \in Nat /\ Cardinality(Q) <= Cardinality(P) + 1
<1>1. IsFiniteSet(P \cup {x}) /\ Cardinality(P \cup {x}) <= Cardinality(P) + 1 /\ Cardinality(P) \in Nat
      /\ Cardinality(P \cup {x}) \in Nat
  BY FS_AddElement, FS_CardinalityType
<1>2. IsFiniteSet(Q) /\ Cardinality(Q) <= Cardinality(P \cup {x}) BY <1>1, FS_Subset
<1>3. Cardinality(Q) \in Nat BY <1>2, FS_CardinalityType
<1> QED BY <1>1, <1>2, <1>3

LEMMA OneLess ==
    ASSUME NEW P, IsFiniteSet(P), NEW Q, NEW x \in P, Q \subseteq P \ {x}
    PROVE  IsFiniteSet(Q) /\ Cardinality(Q) \in Nat /\ Cardinality(P) \in Nat /\ Cardinality(Q) <= Cardinality(P) - 1
<1>1. IsFiniteSet(P \ {x}) /\ Cardinality(P \ {x}) = Cardinality(P) - 1 /\ Cardinality(P) \in Nat
      /\ Cardinality(P \ {x}) \in Nat
  BY FS_RemoveElement, FS_CardinalityType
<1>2. IsFiniteSet(Q) /\ Cardinality(Q) <= Cardinality(P \ {x}) BY <1>1, FS_Subset
<1>3. Cardinality(Q) \in Nat BY <1>2, FS_CardinalityType
<1> QED BY <1>1, <1>2, <1>3

Counted(c) == orders[c] + Cardinality(Pending(c)) <= faults + walkouts + Cardinality(acted \ Free(c))

LEMMA CountedNumbers ==
    ASSUME TypeInv, NEW c \in CartIds
    PROVE  /\ orders[c] \in Nat /\ faults \in Nat /\ walkouts \in Nat /\ Cardinality(Pending(c)) \in Nat
           /\ Cardinality(acted \ Free(c)) \in Nat
  BY StateIs, Finite

LEMMA NewNumbers ==
    ASSUME TypeInv', NEW c \in CartIds
    PROVE  /\ orders'[c] \in Nat /\ faults' \in Nat /\ walkouts' \in Nat /\ Cardinality(Pending(c)') \in Nat
           /\ Cardinality(acted' \ Free(c)') \in Nat
           /\ IsFiniteSet(Pending(c)') /\ IsFiniteSet(acted' \ Free(c)')
<1>1. orders'[c] \in Nat /\ faults' \in Nat /\ walkouts' \in Nat /\ acted' \subseteq Tabs
  BY NoCartIs DEF TypeInv, StorefrontTypeOK
<1>2. IsFiniteSet(Pending(c)')
  <2>1. IsFiniteSet(0..MaxActs) BY NoCartIs, FS_Interval
  <2>2. Pending(c)' \subseteq 0..MaxActs BY DEF Pending
  <2> QED BY <2>1, <2>2, FS_Subset
<1>3. IsFiniteSet(acted' \ Free(c)')
  <2>1. acted' \ Free(c)' \subseteq Tabs BY <1>1
  <2> QED BY <2>1, StorefrontAssumption, FS_Subset
<1> QED BY <1>1, <1>2, <1>3, FS_CardinalityType

(* Nothing happens to the count of c. *)
LEMMA CountKept ==
    ASSUME TypeInv, TypeInv', NEW c \in CartIds, Counted(c), orders'[c] = orders[c],
           Pending(c)' \subseteq Pending(c), faults <= faults', walkouts <= walkouts',
           acted \subseteq acted', Free(c)' \subseteq Free(c)
    PROVE  Counted(c)'
<1>1. /\ orders[c] \in Nat /\ faults \in Nat /\ walkouts \in Nat /\ Cardinality(Pending(c)) \in Nat
      /\ Cardinality(acted \ Free(c)) \in Nat /\ IsFiniteSet(Pending(c))
  BY CountedNumbers, Finite
<1>2. /\ faults' \in Nat /\ walkouts' \in Nat /\ Cardinality(Pending(c)') \in Nat
      /\ Cardinality(acted' \ Free(c)') \in Nat /\ IsFiniteSet(acted' \ Free(c)')
  BY NewNumbers
<1>3. Cardinality(Pending(c)') <= Cardinality(Pending(c)) BY <1>1, FS_Subset
<1>4. acted \ Free(c) \subseteq acted' \ Free(c)' OBVIOUS
<1>5. Cardinality(acted \ Free(c)) <= Cardinality(acted' \ Free(c)') BY <1>2, <1>4, FS_Subset
<1> QED BY <1>1, <1>2, <1>3, <1>5 DEF Counted

(* Tab t orders once more: it will not begin a checkout of c again while it waits for x. *)
LEMMA CountPressed ==
    ASSUME TypeInv, TypeInv', NEW c \in CartIds, Counted(c), orders'[c] = orders[c], NEW x, NEW t,
           Pending(c)' \subseteq Pending(c) \cup {x}, faults' = faults, walkouts' = walkouts,
           acted \subseteq acted', t \in acted', t \in Free(c), t \notin Free(c)', Free(c)' \subseteq Free(c)
    PROVE  Counted(c)'
<1>1. /\ orders[c] \in Nat /\ faults \in Nat /\ walkouts \in Nat /\ Cardinality(Pending(c)) \in Nat
      /\ Cardinality(acted \ Free(c)) \in Nat /\ IsFiniteSet(Pending(c))
  BY CountedNumbers, Finite
<1>2. /\ Cardinality(Pending(c)') \in Nat
      /\ Cardinality(acted' \ Free(c)') \in Nat /\ IsFiniteSet(acted' \ Free(c)')
  BY NewNumbers
<1>3. Cardinality(Pending(c)') <= Cardinality(Pending(c)) + 1 BY <1>1, OneMore
<1>4. acted \ Free(c) \subseteq (acted' \ Free(c)') \ {t} /\ t \in acted' \ Free(c)' OBVIOUS
<1>5. Cardinality(acted \ Free(c)) <= Cardinality(acted' \ Free(c)') - 1 BY <1>2, <1>4, OneLess
<1> QED BY <1>1, <1>2, <1>3, <1>5 DEF Counted

(* Tab t has left, and may order c again. *)
LEMMA CountLeft ==
    ASSUME TypeInv, TypeInv', NEW c \in CartIds, Counted(c), orders'[c] = orders[c], NEW t,
           Pending(c)' \subseteq Pending(c), faults' = faults, walkouts' = walkouts + 1,
           acted \subseteq acted', Free(c)' \subseteq Free(c) \cup {t}
    PROVE  Counted(c)'
<1>1. /\ orders[c] \in Nat /\ faults \in Nat /\ walkouts \in Nat /\ Cardinality(Pending(c)) \in Nat
      /\ Cardinality(acted \ Free(c)) \in Nat /\ IsFiniteSet(Pending(c))
  BY CountedNumbers, Finite
<1>2. /\ Cardinality(Pending(c)') \in Nat
      /\ Cardinality(acted' \ Free(c)') \in Nat /\ IsFiniteSet(acted' \ Free(c)')
  BY NewNumbers
<1>3. Cardinality(Pending(c)') <= Cardinality(Pending(c)) BY <1>1, FS_Subset
<1>4. acted \ Free(c) \subseteq (acted' \ Free(c)') \cup {t} OBVIOUS
<1>5. Cardinality(acted \ Free(c)) <= Cardinality(acted' \ Free(c)') + 1 BY <1>2, <1>4, OneMore
<1> QED BY <1>1, <1>2, <1>3, <1>5 DEF Counted

(* Checkout number x has ordered c. *)
LEMMA CountOrdered ==
    ASSUME TypeInv, TypeInv', NEW c \in CartIds, Counted(c), orders'[c] = orders[c] + 1, NEW x \in Pending(c),
           Pending(c)' \subseteq Pending(c) \ {x}, faults' = faults, walkouts' = walkouts,
           acted' = acted, Free(c)' \subseteq Free(c)
    PROVE  Counted(c)'
<1>1. /\ orders[c] \in Nat /\ faults \in Nat /\ walkouts \in Nat /\ Cardinality(Pending(c)) \in Nat
      /\ Cardinality(acted \ Free(c)) \in Nat /\ IsFiniteSet(Pending(c))
  BY CountedNumbers, Finite
<1>2. /\ Cardinality(Pending(c)') \in Nat
      /\ Cardinality(acted' \ Free(c)') \in Nat /\ IsFiniteSet(acted' \ Free(c)')
  BY NewNumbers
<1>3. Cardinality(Pending(c)') <= Cardinality(Pending(c)) - 1 BY <1>1, OneLess
<1>4. acted \ Free(c) \subseteq acted' \ Free(c)' OBVIOUS
<1>5. Cardinality(acted \ Free(c)) <= Cardinality(acted' \ Free(c)') BY <1>2, <1>4, FS_Subset
<1> QED BY <1>1, <1>2, <1>3, <1>5 DEF Counted

(* Checkout number x of c was lost: perhaps after it has ordered. *)
LEMMA CountLost ==
    ASSUME TypeInv, TypeInv', NEW c \in CartIds, Counted(c), orders'[c] = orders[c], NEW x,
           Pending(c)' \subseteq Pending(c) \cup {x}, faults' = faults + 1, walkouts' = walkouts,
           acted' = acted, Free(c)' \subseteq Free(c)
    PROVE  Counted(c)'
<1>1. /\ orders[c] \in Nat /\ faults \in Nat /\ walkouts \in Nat /\ Cardinality(Pending(c)) \in Nat
      /\ Cardinality(acted \ Free(c)) \in Nat /\ IsFiniteSet(Pending(c))
  BY CountedNumbers, Finite
<1>2. /\ Cardinality(Pending(c)') \in Nat
      /\ Cardinality(acted' \ Free(c)') \in Nat /\ IsFiniteSet(acted' \ Free(c)')
  BY NewNumbers
<1>3. Cardinality(Pending(c)') <= Cardinality(Pending(c)) + 1 BY <1>1, OneMore
<1>4. acted \ Free(c) \subseteq acted' \ Free(c)' OBVIOUS
<1>5. Cardinality(acted \ Free(c)) <= Cardinality(acted' \ Free(c)') BY <1>2, <1>4, FS_Subset
<1> QED BY <1>1, <1>2, <1>3, <1>5 DEF Counted

(* Tab t learns that checkout number x failed, and may order c again. *)
LEMMA CountFreed ==
    ASSUME TypeInv, TypeInv', NEW c \in CartIds, Counted(c), orders'[c] = orders[c], NEW x \in Pending(c), NEW t,
           Pending(c)' \subseteq Pending(c) \ {x}, faults' = faults, walkouts' = walkouts,
           acted' = acted, Free(c)' \subseteq Free(c) \cup {t}
    PROVE  Counted(c)'
<1>1. /\ orders[c] \in Nat /\ faults \in Nat /\ walkouts \in Nat /\ Cardinality(Pending(c)) \in Nat
      /\ Cardinality(acted \ Free(c)) \in Nat /\ IsFiniteSet(Pending(c))
  BY CountedNumbers, Finite
<1>2. /\ Cardinality(Pending(c)') \in Nat
      /\ Cardinality(acted' \ Free(c)') \in Nat /\ IsFiniteSet(acted' \ Free(c)')
  BY NewNumbers
<1>3. Cardinality(Pending(c)') <= Cardinality(Pending(c)) - 1 BY <1>1, OneLess
<1>4. acted \ Free(c) \subseteq (acted' \ Free(c)') \cup {t} OBVIOUS
<1>5. Cardinality(acted \ Free(c)) <= Cardinality(acted' \ Free(c)') + 1 BY <1>2, <1>4, OneMore
<1> QED BY <1>1, <1>2, <1>3, <1>5 DEF Counted

(* What changes in what is pending and who is free follows from the checkouts in flight
   and from what the tabs hold and wait for. *)
LEMMA PendingShrinks ==
    ASSUME NEW c, NEW X,
           \A k \in Checkouts' : k.c = c /\ Open(k)' /\ k.no \notin X => k \in Checkouts /\ Open(k)
    PROVE  Pending(c)' \subseteq Pending(c) \cup X
<1> SUFFICES ASSUME NEW n \in Pending(c)', n \notin X PROVE n \in Pending(c)
    OBVIOUS
<1>1. n \in 0..MaxActs /\ \E k \in Checkouts' : k.no = n /\ k.c = c /\ Open(k)' BY DEF Pending
<1>2. PICK k \in Checkouts' : k.no = n /\ k.c = c /\ Open(k)' BY <1>1
<1>3. k \in Checkouts /\ Open(k) BY <1>2
<1> QED BY <1>1, <1>2, <1>3 DEF Pending

LEMMA WasFree ==
    ASSUME NEW c \in CartIds, stored' \in {stored, NoCart}, NEW u \in Free(c)',
           tab'[u].cart \in {tab[u].cart, stored, NoCart},
           tab'[u].cart = c \/ stored' = c => (Waiting(u, c) => Waiting(u, c)')
    PROVE  u \in Free(c)
<1>1. u \in Tabs /\ (tab'[u].cart = c \/ stored' = c) /\ ~Waiting(u, c)' BY DEF Free
<1>2. ~Waiting(u, c) BY <1>1
<1>3. c # NoCart BY NoCartIs
<1>4. tab[u].cart = c \/ stored = c BY <1>1, <1>2, <1>3
<1> QED BY <1>1, <1>2, <1>4 DEF Free

LEMMA FreeShrinks ==
    ASSUME NEW c \in CartIds, stored' \in {stored, NoCart},
           \A u \in Tabs : /\ tab'[u].cart \in {tab[u].cart, stored, NoCart}
                           /\ tab'[u].cart = c \/ stored' = c => (Waiting(u, c) => Waiting(u, c)')
    PROVE  Free(c)' \subseteq Free(c)
<1> SUFFICES ASSUME NEW u \in Free(c)' PROVE u \in Free(c)
    OBVIOUS
<1>1. u \in Tabs BY DEF Free
<1> QED BY <1>1, WasFree

(* A browser's step that neither begins nor ends a checkout. *)
LEMMA QuietCounts ==
    ASSUME TypeInv, TypeInv', OrdersCounted, NEW t \in Tabs, NEW T, NEW new, Browses(t, T, new),
           tab'[t].busy = tab[t].busy, Checkouts' = Checkouts,
           faults <= faults', walkouts <= walkouts', acted \subseteq acted'
    PROVE  OrdersCounted'
<1>0. tab \in [Tabs -> Tab] /\ \A u \in Tabs : tab'[u] = IF u = t THEN T ELSE tab[u]
  BY DEF TypeInv, StorefrontTypeOK, Browses
<1>1. \A u \in Tabs : tab'[u].busy = tab[u].busy /\ tab'[u].cart \in {tab[u].cart, stored, NoCart}
  BY <1>0 DEF Browses, Becomes
<1>2. stored' \in {stored, NoCart} /\ orders' = orders BY DEF Browses, server
<1>3. ASSUME NEW c \in CartIds PROVE Counted(c)'
  <2>1. \A k \in Checkouts : Open(k)' => Open(k) BY <1>1, CheckoutsAre DEF Open
  <2>2. Pending(c)' \subseteq Pending(c) \cup {} BY <2>1, PendingShrinks
  <2>3. \A u \in Tabs : Waiting(u, c) => Waiting(u, c)'
    <3> SUFFICES ASSUME NEW u \in Tabs, Waiting(u, c) PROVE Waiting(u, c)'
      OBVIOUS
    <3>1. PICK k \in Checkouts : k.t = u /\ k.no \in tab[u].busy /\ k.c = c BY DEF Waiting
    <3>2. k \in Checkouts' /\ k.t = u /\ k.no \in tab'[u].busy /\ k.c = c BY <1>1, <3>1
    <3> QED BY <3>2 DEF Waiting
  <2>4. Free(c)' \subseteq Free(c) BY <1>1, <1>2, <2>3, FreeShrinks
  <2>5. Counted(c) BY DEF OrdersCounted, Counted
  <2> QED BY <1>2, <2>2, <2>4, <2>5, CountKept
<1> QED BY <1>3 DEF OrdersCounted, Counted

LEMMA DifferKept ==
    ASSUME CheckoutsDiffer, Checkouts' \subseteq Checkouts, TypeInv, TypeInv', acts <= acts'
    PROVE  CheckoutsDiffer'
<1>1. acts \in Nat /\ acts' \in Nat BY NoCartIs DEF TypeInv, StorefrontTypeOK
<1>2. \A k \in Checkouts : k.no < acts' BY <1>1, CheckoutsAre DEF CheckoutsDiffer
<1> QED BY <1>2 DEF CheckoutsDiffer

LEMMA ActCounts ==
    ASSUME TypeInv, NEW t \in Tabs, NEW several, ActsAs(t, several)
    PROVE  faults' = faults /\ acted' = acted \cup {t} /\ acts' = acts + 1 /\ acts <= acts' /\ orders' = orders /\ stored' = stored
<1>1. acts \in Nat BY StateIs
<1> QED BY <1>1 DEF ActsAs, server

LEMMA EditsCount ==
    ASSUME TypeInv, TypeInv', OnceInv, NEW t \in Tabs,
           \/ \E p \in Products : AddToCart(t, p) \/ RemoveItem(t, p) \/ \E n \in 0..MaxActs : SetQty(t, p, n)
           \/ AddBundle(t) \/ OpenCartPage(t)
    PROVE  OrdersCounted' /\ CheckoutsDiffer'
<1>0. tab \in [Tabs -> Tab] /\ tab[t] \in Tab BY DEF TypeInv, StorefrontTypeOK
<1>1. PICK several : ActsAs(t, several) BY DEF AddToCart, RemoveItem, SetQty, AddBundle, OpenCartPage, Acts
<1>2. walkouts' = walkouts BY DEF AddToCart, RemoveItem, SetQty, AddBundle, OpenCartPage, Acts
<1>3. Does(t) BY EditsDo, BundleDoes, PagesDo
<1>4. PICK T, new : Browses(t, T, new) BY <1>3 DEF Does
<1>5. tab'[t].busy = tab[t].busy
  <2>1. CASE AddBundle(t) BY <1>0, <2>1 DEF AddBundle, Tab
  <2>2. CASE OpenCartPage(t) BY <1>0, <2>2 DEF OpenCartPage, Tab
  <2>3. CASE ~AddBundle(t) /\ ~OpenCartPage(t)
    <3>1. tab' = tab BY <2>3 DEF AddToCart, RemoveItem, SetQty
    <3> QED BY <3>1
  <2> QED BY <2>1, <2>2, <2>3
<1>6. Checkouts' = Checkouts
  <2>1. CASE OpenCartPage(t)
    <3>1. tab[t].cart \in CartIds \cup {NoCart} BY <1>0, TabIs
    <3>2. \A k \in Read("quote", t, tab[t].cart) : k.what = "quote" BY <3>1, ReadIs
    <3> QED BY <2>1, <3>2 DEF OpenCartPage, Checkouts
  <2>2. ASSUME NEW k, k.what # "checkout", calls' = calls \cup {k} PROVE Checkouts' = Checkouts
    BY <2>2 DEF Checkouts
  <2>3. CASE AddBundle(t)
    <3>1. AddTo(t, tab[t].cart, Head(Bundle), acts, TRUE).what # "checkout" BY DEF AddTo, Change
    <3> QED BY <2>2, <2>3, <3>1 DEF AddBundle
  <2>4. ASSUME NEW p \in Products, AddToCart(t, p) PROVE Checkouts' = Checkouts
    <3>1. AddTo(t, tab[t].cart, p, acts, FALSE).what # "checkout" BY DEF AddTo, Change
    <3> QED BY <2>2, <2>4, <3>1 DEF AddToCart
  <2>5. ASSUME NEW p \in Products, RemoveItem(t, p) PROVE Checkouts' = Checkouts
    <3>1. Change("remove", t, tab[t].cart, p, 0, acts, FALSE).what # "checkout" BY DEF Change
    <3> QED BY <2>2, <2>5, <3>1 DEF RemoveItem
  <2>6. ASSUME NEW p \in Products, NEW n \in 0..MaxActs, SetQty(t, p, n) PROVE Checkouts' = Checkouts
    <3>1. Change("set", t, tab[t].cart, p, n, acts, FALSE).what # "checkout" BY DEF Change
    <3> QED BY <2>2, <2>6, <3>1 DEF SetQty
  <2> QED BY <2>1, <2>3, <2>4, <2>5, <2>6
<1>7. faults <= faults' /\ walkouts <= walkouts' /\ acted \subseteq acted' /\ acts <= acts'
  BY <1>1, <1>2, ActCounts, StateIs
<1> QED BY <1>4, <1>5, <1>6, <1>7, QuietCounts, DifferKept DEF OnceInv

LEMMA LeavingCounts ==
    ASSUME TypeInv, TypeInv', OnceInv, NEW t \in Tabs, LeaveCartPage(t)
    PROVE  OrdersCounted' /\ CheckoutsDiffer'
<1>0. tab \in [Tabs -> Tab] /\ TabOK(tab[t], created) BY DEF TypeInv, StorefrontTypeOK
<1>1. /\ faults' = faults /\ acted \subseteq acted' /\ acts <= acts' /\ orders' = orders /\ stored' = stored
      /\ walkouts' = walkouts + Cardinality(tab[t].busy)
  BY ActCounts DEF LeaveCartPage
<1>2. \A u \in Tabs : /\ tab'[u] = IF u = t THEN Left(t) ELSE tab[u]
                      /\ tab'[u].cart = tab[u].cart /\ tab'[u].busy \subseteq tab[u].busy /\ (u # t => tab'[u].busy = tab[u].busy)
  BY <1>0, LeftIs DEF LeaveCartPage
<1>3. Checkouts' = Checkouts BY DEF LeaveCartPage, OnPage, Checkouts
<1>4. ASSUME NEW c \in CartIds PROVE Counted(c)'
  <2>1. \A k \in Checkouts : Open(k)' => Open(k) BY <1>2, CheckoutsAre DEF Open
  <2>2. Pending(c)' \subseteq Pending(c) \cup {} BY <1>3, <2>1, PendingShrinks
  <2>3. ASSUME NEW u \in Tabs, u # t \/ tab[t].busy = {}, Waiting(u, c) PROVE Waiting(u, c)'
    <3>1. PICK k \in Checkouts : k.t = u /\ k.no \in tab[u].busy /\ k.c = c BY <2>3 DEF Waiting
    <3>2. k \in Checkouts' /\ k.t = u /\ k.no \in tab'[u].busy /\ k.c = c BY <1>2, <1>3, <2>3, <3>1
    <3> QED BY <3>2 DEF Waiting
  <2>4. Counted(c) BY DEF OnceInv, OrdersCounted, Counted
  <2>5. CASE tab[t].busy = {}
    <3>1. walkouts' = walkouts BY <1>1, <2>5, FS_EmptySet, StateIs
    <3>2. Free(c)' \subseteq Free(c) BY <1>1, <1>2, <2>3, <2>5, FreeShrinks
    <3> QED BY <1>1, <2>2, <2>4, <3>1, <3>2, CountKept, StateIs
  <2>6. ASSUME NEW n \in tab[t].busy PROVE Counted(c)'
    <3>1. tab[t].busy = {n} BY <1>0, <2>6 DEF TabOK
    <3>2. walkouts' = walkouts + 1 BY <1>1, <3>1, FS_Singleton
    <3>3. ASSUME NEW u \in Free(c)', u # t PROVE u \in Free(c)
      <4>1. u \in Tabs BY DEF Free
      <4>2. tab'[u].cart = c \/ stored' = c => (Waiting(u, c) => Waiting(u, c)') BY <2>3, <3>3, <4>1
      <4> QED BY <1>1, <1>2, <4>1, <4>2, WasFree
    <3>5. Free(c)' \subseteq Free(c) \cup {t} BY <3>3
    <3> QED BY <1>1, <2>2, <2>4, <3>2, <3>5, CountLeft
  <2> QED BY <2>5, <2>6
<1> QED BY <1>1, <1>3, <1>4, DifferKept DEF OnceInv, OrdersCounted, Counted

LEMMA ReloadCounts ==
    ASSUME TypeInv, TypeInv', OnceInv, NEW t \in Tabs, Reload(t)
    PROVE  OrdersCounted' /\ CheckoutsDiffer'
<1>0. tab \in [Tabs -> Tab] /\ stored \in CartIds \cup {NoCart} BY StateIs DEF TypeInv, StorefrontTypeOK
<1>1. /\ faults' = faults /\ acted \subseteq acted' /\ acts <= acts' /\ orders' = orders /\ stored' = stored
      /\ walkouts' = walkouts
  BY ActCounts DEF Reload, Acts
<1>2. \A u \in Tabs : IF u = t THEN tab'[u].cart = stored ELSE tab'[u] = tab[u]
  BY <1>0 DEF Reload, Blank
<1>3. Checkouts' = Checkouts
  <2>1. \A k \in Read("load", t, stored) \cup Read("quote", t, stored) : k.what # "checkout" BY <1>0, ReadIs
  <2> QED BY <2>1 DEF Reload, Checkouts
<1>4. \A k \in Checkouts : k.t # t BY DEF Reload, Checkouts
<1>5. ASSUME NEW c \in CartIds PROVE Counted(c)'
  <2>1. \A k \in Checkouts : Open(k)' => Open(k) BY <1>2, <1>4, CheckoutsAre DEF Open
  <2>2. Pending(c)' \subseteq Pending(c) \cup {} BY <1>3, <2>1, PendingShrinks
  <2>3. ASSUME NEW u \in Tabs, Waiting(u, c) PROVE Waiting(u, c)'
    <3>1. PICK k \in Checkouts : k.t = u /\ k.no \in tab[u].busy /\ k.c = c BY <2>3 DEF Waiting
    <3>2. k \in Checkouts' /\ k.t = u /\ k.no \in tab'[u].busy /\ k.c = c BY <1>2, <1>3, <1>4, <3>1
    <3> QED BY <3>2 DEF Waiting
  <2>4. Free(c)' \subseteq Free(c) BY <1>1, <1>2, <2>3, FreeShrinks
  <2>5. Counted(c) BY DEF OnceInv, OrdersCounted, Counted
  <2> QED BY <1>1, <2>2, <2>4, <2>5, CountKept, StateIs
<1> QED BY <1>1, <1>3, <1>5, DifferKept DEF OnceInv, OrdersCounted, Counted

LEMMA PressCounts ==
    ASSUME TypeInv, TypeInv', OnceInv, NEW t \in Tabs, PressCheckout(t)
    PROVE  OrdersCounted' /\ CheckoutsDiffer'
<1> DEFINE l == CheckoutCall(t)
<1>0. tab \in [Tabs -> Tab] /\ acts \in Nat BY StateIs DEF TypeInv, StorefrontTypeOK
<1>1. /\ faults' = faults /\ acted' = acted \cup {t} /\ acts' = acts + 1 /\ orders' = orders /\ stored' = stored
      /\ walkouts' = walkouts
  BY ActCounts DEF PressCheckout, Acts
<1>2. l \in Checkout /\ l.t = t /\ l.at = "sent" /\ l.c = tab[t].cart /\ l.no = acts /\ l.what = "checkout"
  BY CheckoutCallIs
<1>3. Checkouts' = Checkouts \cup {l}
  <2>1. calls' = calls \cup {l} BY DEF PressCheckout, CheckoutCall
  <2> HIDE DEF l
  <2> QED BY <1>2, <2>1 DEF Checkouts
<1> HIDE DEF l
<1>4. \A u \in Tabs : /\ tab'[u].cart = tab[u].cart
                      /\ IF u = t THEN tab'[u].busy = {acts} /\ tab[u].busy = {} ELSE tab'[u].busy = tab[u].busy
  BY <1>0 DEF PressCheckout, MayPress, Tab
<1>5. \A k \in Checkouts : k.no < acts /\ k.no \in Nat BY CheckoutsAre DEF OnceInv, CheckoutsDiffer
<1>6. \A k \in Checkouts : Open(k)' => Open(k) BY <1>0, <1>4, <1>5, CheckoutsAre DEF Open
<1>7. ASSUME NEW c \in CartIds PROVE Counted(c)'
  <2>1. Counted(c) BY DEF OnceInv, OrdersCounted, Counted
  <2>2. ~Waiting(t, c) BY <1>4 DEF Waiting
  <2>3. ASSUME NEW u \in Tabs, Waiting(u, c) PROVE Waiting(u, c)'
    <3>1. PICK k \in Checkouts : k.t = u /\ k.no \in tab[u].busy /\ k.c = c BY <2>3 DEF Waiting
    <3>2. k \in Checkouts' /\ k.t = u /\ k.no \in tab'[u].busy /\ k.c = c BY <1>3, <1>4, <3>1
    <3> QED BY <3>2 DEF Waiting
  <2>4. Free(c)' \subseteq Free(c) BY <1>1, <1>4, <2>3, FreeShrinks
  <2>5. CASE c # tab[t].cart
    <3>1. Pending(c)' \subseteq Pending(c) \cup {} BY <1>2, <1>3, <1>6, <2>5, PendingShrinks
    <3> QED BY <1>1, <2>1, <2>4, <3>1, CountKept, StateIs
  <2>6. CASE c = tab[t].cart
    <3>1. Pending(c)' \subseteq Pending(c) \cup {acts} BY <1>2, <1>3, <1>6, PendingShrinks
    <3>2. t \in Free(c) BY <2>2, <2>6 DEF Free
    <3>3. Waiting(t, c)'
      <4>1. l \in Checkouts' /\ l.t = t /\ l.no \in tab'[t].busy /\ l.c = c BY <1>2, <1>3, <1>4, <2>6
      <4> QED BY <4>1 DEF Waiting
    <3>4. t \notin Free(c)' BY <3>3 DEF Free
    <3> QED BY <1>1, <2>1, <2>4, <3>1, <3>2, <3>4, CountPressed
  <2> QED BY <2>5, <2>6
<1>8. CheckoutsDiffer'
  <2>1. \A k \in Checkouts' : k.no < acts' BY <1>0, <1>1, <1>2, <1>3, <1>5
  <2>2. \A i, j \in Checkouts' : i.no = j.no => i = j BY <1>0, <1>2, <1>3, <1>5 DEF OnceInv, CheckoutsDiffer
  <2> QED BY <2>1, <2>2 DEF CheckoutsDiffer
<1> QED BY <1>7, <1>8 DEF OrdersCounted, Counted

LEMMA ServedQuiet ==
    ASSUME TypeInv, NEW k \in calls, NEW l, Served(k, l), k.what # "checkout"
    PROVE  Checkouts' = Checkouts
  BY DEF Served, Checkouts

(* The server's answer to a checkout. *)
LEMMA AnswerCounts ==
    ASSUME TypeInv, TypeInv', OnceInv, NEW k \in calls, NEW l, k.what = "checkout",
           Refuses(k, l) \/ Loses(k, l) \/ OrdersCart(k, l)
    PROVE  OrdersCounted' /\ CheckoutsDiffer'
<1>0. /\ k \in Calls /\ k \in Checkout /\ k \in Checkouts /\ k.no \in Nat /\ acts \in Nat /\ MaxActs \in Nat
      /\ acts <= MaxActs /\ k.t \in Tabs
  BY StateIs, CallIs, CheckoutIs, NoCartIs DEF Checkouts, TypeInv, StorefrontTypeOK
<1>1. /\ stored' = stored /\ tab' = tab /\ calls' = (calls \ {k}) \cup {l} /\ l.what = "checkout" /\ l.t = k.t
      /\ l.no = k.no /\ l.c = k.c
  BY <1>0 DEF Refuses, Loses, OrdersCart, Served
<1>2. Checkouts' = (Checkouts \ {k}) \cup {l} BY <1>1 DEF Checkouts
<1>3. acts' = acts /\ acted' = acted /\ walkouts' = walkouts BY DEF Refuses, Loses, OrdersCart, shopper
<1>4. \A i, j \in Checkouts : i.no = j.no => i = j BY DEF OnceInv, CheckoutsDiffer
<1>5. k.no < acts BY <1>0 DEF OnceInv, CheckoutsDiffer
<1>6. k.no \in 0..MaxActs BY <1>0, <1>5
<1>7. CheckoutsDiffer'
  <2>1. \A i \in Checkouts' : i.no < acts' BY <1>1, <1>2, <1>3, <1>5 DEF OnceInv, CheckoutsDiffer
  <2>2. \A i, j \in Checkouts' : i.no = j.no => i = j BY <1>0, <1>1, <1>2, <1>4
  <2> QED BY <2>1, <2>2 DEF CheckoutsDiffer
<1>8. \A i \in Checkouts \ {k} : Open(i)' => Open(i) BY <1>1 DEF Open
<1>9. ASSUME NEW c \in CartIds PROVE Counted(c)'
  <2>1. Counted(c) BY DEF OnceInv, OrdersCounted, Counted
  <2>2. ASSUME NEW u \in Tabs, Waiting(u, c) PROVE Waiting(u, c)'
    <3>1. PICK i \in Checkouts : i.t = u /\ i.no \in tab[u].busy /\ i.c = c BY <2>2 DEF Waiting
    <3>2. CASE i = k
      <4>1. l \in Checkouts' /\ l.t = u /\ l.no \in tab'[u].busy /\ l.c = c BY <1>1, <1>2, <3>1, <3>2
      <4> QED BY <4>1 DEF Waiting
    <3>3. CASE i # k
      <4>1. i \in Checkouts' /\ i.t = u /\ i.no \in tab'[u].busy /\ i.c = c BY <1>1, <1>2, <3>1, <3>3
      <4> QED BY <4>1 DEF Waiting
    <3> QED BY <3>2, <3>3
  <2>3. Free(c)' \subseteq Free(c) BY <1>1, <2>2, FreeShrinks
  <2>4. Pending(c)' \subseteq Pending(c) \cup {k.no} BY <1>1, <1>2, <1>8, PendingShrinks
  <2>5. CASE Loses(k, l)
    <3>1. faults' = faults + 1 /\ orders' = orders BY <2>5 DEF Loses, server
    <3> QED BY <1>3, <2>1, <2>3, <2>4, <3>1, CountLost
  <2>6. CASE Refuses(k, l)
    <3>1. faults' = faults /\ orders' = orders /\ k.at = "sent" BY <2>6 DEF Refuses, server
    <3>2. Open(k) BY <3>1 DEF Open
    <3>3. k.c = c => k.no \in Pending(c) BY <1>0, <1>6, <3>2 DEF Pending
    <3>4. ASSUME k.c # c PROVE Pending(c)' \subseteq Pending(c) \cup {}
      BY <1>1, <1>2, <1>8, <3>4, PendingShrinks
    <3>5. Pending(c)' \subseteq Pending(c) BY <2>4, <3>3, <3>4
    <3> QED BY <1>3, <2>1, <2>3, <3>1, <3>5, CountKept, StateIs
  <2>7. CASE OrdersCart(k, l)
    <3>1. /\ faults' = faults /\ k.at = "sent" /\ l.at = "answered"
          /\ orders' = [orders EXCEPT ![k.c] = @ + 1]
      BY <2>7 DEF OrdersCart
    <3>2. orders \in [CartIds -> Nat] BY DEF TypeInv, StorefrontTypeOK
    <3>3. ~Open(l)' BY <3>1 DEF Open
    <3>4. Pending(c)' \subseteq Pending(c) \cup {} BY <1>2, <1>8, <3>3, PendingShrinks
    <3>5. CASE k.c = c
      <4>1. Open(k) BY <3>1 DEF Open
      <4>2. k.no \in Pending(c) BY <1>0, <1>6, <3>5, <4>1 DEF Pending
      <4>3. k.no \notin Pending(c)'
        <5> SUFFICES ASSUME k.no \in Pending(c)' PROVE FALSE
          OBVIOUS
        <5>1. \E i \in Checkouts' : i.no = k.no /\ i.c = c /\ Open(i)' BY DEF Pending
        <5>2. PICK i \in Checkouts' : i.no = k.no /\ Open(i)' BY <5>1
        <5>3. i \in Checkouts \ {k} BY <1>2, <3>3, <5>2
        <5> QED BY <1>0, <1>4, <5>2, <5>3
      <4>4. orders'[c] = orders[c] + 1 BY <3>1, <3>2, <3>5
      <4>5. Pending(c)' \subseteq Pending(c) \ {k.no} BY <3>4, <4>3
      <4> QED BY <1>3, <2>1, <2>3, <3>1, <4>2, <4>4, <4>5, CountOrdered
    <3>6. CASE k.c # c
      <4>1. orders'[c] = orders[c] BY <3>1, <3>2, <3>6
      <4> QED BY <1>3, <2>1, <2>3, <3>1, <3>4, <4>1, CountKept, StateIs
    <3> QED BY <3>5, <3>6
  <2> QED BY <2>5, <2>6, <2>7
<1> QED BY <1>7, <1>9 DEF OrdersCounted, Counted

LEMMA ServerCounts ==
    ASSUME TypeInv, TypeInv', OnceInv, NEW k \in calls, ServerSteps(k) \/ LoseCall(k)
    PROVE  OrdersCounted' /\ CheckoutsDiffer'
<1>0. PICK l : \/ Refuses(k, l) \/ Loses(k, l) \/ CreatesCart(k, l) \/ EditsCart(k, l)
               \/ ReadsCart(k, l) \/ OrdersCart(k, l)
  BY ServerDoes
<1>1. Served(k, l)
  BY <1>0 DEF Refuses, Loses, CreatesCart, EditsCart, ReadsCart, OrdersCart
<1>2. CASE k.what = "checkout"
  <2>1. Refuses(k, l) \/ Loses(k, l) \/ OrdersCart(k, l) BY <1>0, <1>2 DEF CreatesCart, EditsCart, ReadsCart
  <2> QED BY <1>2, <2>1, AnswerCounts
<1>3. CASE k.what # "checkout"
  <2>1. Checkouts' = Checkouts BY <1>1, <1>3, ServedQuiet
  <2>2. stored' = stored /\ tab' = tab BY <1>1 DEF Served
  <2>3. /\ orders' = orders /\ acts' = acts /\ acted' = acted /\ walkouts' = walkouts
        /\ faults' = faults \/ faults' = faults + 1
    BY <1>0, <1>3 DEF Refuses, Loses, CreatesCart, EditsCart, ReadsCart, OrdersCart, server, shopper
  <2>4. faults <= faults' /\ walkouts <= walkouts' /\ acts <= acts' BY <2>3, StateIs
  <2>5. ASSUME NEW c \in CartIds PROVE Counted(c)'
    <3>1. \A i \in Checkouts : Open(i)' => Open(i) BY <2>2 DEF Open
    <3>2. Pending(c)' \subseteq Pending(c) \cup {} BY <2>1, <3>1, PendingShrinks
    <3>3. \A u \in Tabs : Waiting(u, c) => Waiting(u, c)' BY <2>1, <2>2 DEF Waiting
    <3>4. Free(c)' \subseteq Free(c) BY <2>2, <3>3, FreeShrinks
    <3>5. Counted(c) BY DEF OnceInv, OrdersCounted, Counted
    <3> QED BY <2>3, <2>4, <3>2, <3>4, <3>5, CountKept
  <2> QED BY <2>1, <2>4, <2>5, DifferKept DEF OnceInv, OrdersCounted, Counted
<1> QED BY <1>2, <1>3

LEMMA ConfirmedCounts ==
    ASSUME TypeInv, TypeInv', OnceInv, NEW k \in calls, CheckedOut(k)
    PROVE  OrdersCounted' /\ CheckoutsDiffer'
<1>0. k \in Calls /\ k.t \in Tabs /\ tab \in [Tabs -> Tab] BY StateIs, CallIs DEF TypeInv, StorefrontTypeOK
<1>1. UNCHANGED <<orders, acts, acted, walkouts, faults>> /\ stored' = NoCart BY DEF CheckedOut, Arrives, server, shopper
<1>2. \A u \in Tabs : IF u = k.t THEN tab'[u].cart = NoCart /\ tab'[u].busy = {} ELSE tab'[u] = tab[u]
  <2>1. Left(k.t) \in Tab /\ Left(k.t).busy = {} BY <1>0, LeftIs
  <2> QED BY <1>0, <2>1 DEF CheckedOut, Tab
<1>3. Checkouts' = Checkouts \ {k} BY DEF CheckedOut, OnPage, Checkouts
<1>4. \A i \in Checkouts : Open(i)' => Open(i) BY <1>2, CheckoutsAre DEF Open
<1>5. ASSUME NEW c \in CartIds PROVE Counted(c)'
  <2>1. Counted(c) BY DEF OnceInv, OrdersCounted, Counted
  <2>2. Pending(c)' \subseteq Pending(c) \cup {} BY <1>3, <1>4, PendingShrinks
  <2>3. ASSUME NEW u \in Tabs, u # k.t, Waiting(u, c) PROVE Waiting(u, c)'
    <3>1. PICK i \in Checkouts : i.t = u /\ i.no \in tab[u].busy /\ i.c = c BY <2>3 DEF Waiting
    <3>2. i \in Checkouts' /\ i.t = u /\ i.no \in tab'[u].busy /\ i.c = c BY <1>2, <1>3, <2>3, <3>1
    <3> QED BY <3>2 DEF Waiting
  <2>4. Free(c)' \subseteq Free(c)
    <3>1. c # NoCart BY NoCartIs
    <3> QED BY <1>1, <1>2, <2>3, <3>1, FreeShrinks
  <2> QED BY <1>1, <2>1, <2>2, <2>4, CountKept, StateIs
<1> QED BY <1>1, <1>3, <1>5, DifferKept, StateIs DEF OnceInv, OrdersCounted, Counted

LEMMA FailureCounts ==
    ASSUME TypeInv, TypeInv', OnceInv, NEW k \in calls, CallFails(k)
    PROVE  OrdersCounted' /\ CheckoutsDiffer'
<1>0. k \in Calls /\ k.t \in Tabs /\ tab \in [Tabs -> Tab] /\ TabOK(tab[k.t], created) /\ acts \in Nat
  BY StateIs, CallIs DEF TypeInv, StorefrontTypeOK
<1>1. UNCHANGED <<orders, acts, acted, walkouts, faults>> /\ stored' \in {stored, NoCart} /\ k.at = "failed"
  BY DEF CallFails, server, shopper
<1>2. \A u \in Tabs : IF u = k.t THEN tab'[u] = AfterFailure(k) ELSE tab'[u] = tab[u]
  <2>1. tab' = [tab EXCEPT ![k.t] = AfterFailure(k)] BY DEF CallFails, AfterFailure
  <2> QED BY <1>0, <2>1
<1>3. /\ \A u \in Tabs : tab'[u].cart \in {tab[u].cart, stored, NoCart} /\ (u # k.t => tab'[u].busy = tab[u].busy)
      /\ tab'[k.t].busy = IF k.what = "checkout" THEN tab[k.t].busy \ {k.no} ELSE tab[k.t].busy
  BY <1>0, <1>2, AfterFailureIs
<1>4. Checkouts' = Checkouts \ {k} BY DEF CallFails, Checkouts
<1>5. \A i \in Checkouts : Open(i)' => Open(i) BY <1>3, CheckoutsAre DEF Open
<1>6. \A i, j \in Checkouts : i.no = j.no => i = j BY DEF OnceInv, CheckoutsDiffer
<1>7. ASSUME NEW c \in CartIds PROVE Counted(c)'
  <2>1. Counted(c) BY DEF OnceInv, OrdersCounted, Counted
  <2>2. Pending(c)' \subseteq Pending(c) \cup {} BY <1>4, <1>5, PendingShrinks
  <2>3. ASSUME NEW i \in Checkouts, i # k, i.no \in tab[i.t].busy, i.c = c PROVE Waiting(i.t, c)'
    <3>1. i.t \in Tabs BY CheckoutsAre
    <3>2. k.what = "checkout" => k.no # i.no BY <1>6, <2>3 DEF Checkouts
    <3>3. i \in Checkouts' /\ i.no \in tab'[i.t].busy BY <1>3, <1>4, <2>3, <3>1, <3>2
    <3> QED BY <2>3, <3>3 DEF Waiting
  <2>4. CASE k.what = "checkout" /\ k.no \in tab[k.t].busy /\ k.c = c
    <3>1. k \in Checkouts /\ Open(k) BY <1>1, <2>4 DEF Open, Checkouts
    <3>2. k.no \in 0..MaxActs
      <4>1. k.no \in Nat /\ k.no < acts /\ acts \in Nat /\ acts <= MaxActs /\ MaxActs \in Nat
        BY <3>1, CheckoutsAre, NoCartIs DEF OnceInv, CheckoutsDiffer, TypeInv, StorefrontTypeOK
      <4> QED BY <4>1
    <3>3. k.no \in Pending(c) BY <2>4, <3>1, <3>2 DEF Pending
    <3>4. k.no \notin Pending(c)'
      <4> SUFFICES ASSUME k.no \in Pending(c)' PROVE FALSE
        OBVIOUS
      <4>1. \E i \in Checkouts' : i.no = k.no /\ i.c = c /\ Open(i)' BY DEF Pending
      <4> QED BY <1>4, <1>6, <3>1, <4>1
    <3>5. ASSUME NEW u \in Free(c)', u # k.t PROVE u \in Free(c)
      <4>1. u \in Tabs BY DEF Free
      <4>2. Waiting(u, c) => Waiting(u, c)'
        <5> SUFFICES ASSUME Waiting(u, c) PROVE Waiting(u, c)'
          OBVIOUS
        <5>1. PICK i \in Checkouts : i.t = u /\ i.no \in tab[u].busy /\ i.c = c BY DEF Waiting
        <5> QED BY <2>3, <3>5, <5>1
      <4> QED BY <1>1, <1>3, <4>1, <4>2, WasFree
    <3>6. Free(c)' \subseteq Free(c) \cup {k.t} BY <3>5
    <3>7. Pending(c)' \subseteq Pending(c) \ {k.no} BY <2>2, <3>4
    <3> QED BY <1>1, <2>1, <3>3, <3>6, <3>7, CountFreed
  <2>5. CASE ~(k.what = "checkout" /\ k.no \in tab[k.t].busy /\ k.c = c)
    <3>1. \A u \in Tabs : Waiting(u, c) => Waiting(u, c)'
      <4> SUFFICES ASSUME NEW u \in Tabs, Waiting(u, c) PROVE Waiting(u, c)'
        OBVIOUS
      <4>1. PICK i \in Checkouts : i.t = u /\ i.no \in tab[u].busy /\ i.c = c BY DEF Waiting
      <4>2. i # k BY <2>5, <4>1 DEF Checkouts
      <4> QED BY <2>3, <4>1, <4>2
    <3>2. Free(c)' \subseteq Free(c) BY <1>1, <1>3, <3>1, FreeShrinks
    <3> QED BY <1>1, <2>1, <2>2, <3>2, CountKept, StateIs
  <2> QED BY <2>4, <2>5
<1> QED BY <1>0, <1>1, <1>4, <1>7, DifferKept DEF OnceInv, OrdersCounted, Counted

LEMMA AnsweredCounts ==
    ASSUME TypeInv, TypeInv', OnceInv, NEW k \in calls, CartChanged(k) \/ CartLoaded(k) \/ Quoted(k)
    PROVE  OrdersCounted' /\ CheckoutsDiffer'
<1>0. /\ k \in Calls /\ k.t \in Tabs /\ tab \in [Tabs -> Tab] /\ tab[k.t] \in Tab /\ acts \in Nat
      /\ tab[k.t].cart \in CartIds \cup {NoCart}
  BY StateIs, CallIs, TabIs DEF TypeInv, StorefrontTypeOK
<1>1. UNCHANGED <<acts, acted, walkouts, faults>> BY DEF CartChanged, CartLoaded, Quoted, Arrives, shopper
<1>2. PICK T, new : Browses(k.t, T, new) BY ChangedReceives, LoadedReceives DEF Receives
<1>3. \A x : \A l \in Requotes(k.t, tab[k.t].cart, x) : l.what = "quote"
  BY <1>0, ReadIs DEF Requotes
<1>4. tab'[k.t].busy = tab[k.t].busy
  <2>1. CASE CartChanged(k)
    <3>1. Held(k) \in Tab /\ Held(k).busy = tab[k.t].busy BY HeldIs
    <3> QED BY <1>0, <2>1, <3>1 DEF CartChanged, Tab
  <2>2. CASE CartLoaded(k) BY <1>0, <2>2 DEF CartLoaded, Tab
  <2>3. CASE Quoted(k) BY <1>0, <2>3 DEF Quoted, Tab
  <2> QED BY <2>1, <2>2, <2>3
<1>5. Checkouts' = Checkouts
  <2>1. CASE CartChanged(k)
    <3>1. k \in Edit BY <1>0, <2>1, CallIs DEF CartChanged
    <3>2. \A l \in NextOfBundle(k) : l.what \in {"create", "add"} BY <3>1, NextIs
    <3> QED BY <1>3, <2>1, <3>2 DEF CartChanged, Checkouts
  <2>2. CASE CartLoaded(k) BY <1>3, <2>2 DEF CartLoaded, Checkouts
  <2>3. CASE Quoted(k) BY <2>3 DEF Quoted, Checkouts
  <2> QED BY <2>1, <2>2, <2>3
<1>6. faults <= faults' /\ walkouts <= walkouts' /\ acted \subseteq acted' /\ acts <= acts' BY <1>0, <1>1, StateIs
<1> QED BY <1>0, <1>2, <1>4, <1>5, <1>6, QuietCounts, DifferKept DEF OnceInv

(* A new cart has no orders and no checkout asks about it. *)
LEMMA NewCartCounts ==
    ASSUME TypeInv, TypeInv', OnceInv, NEW k \in calls, NEW T, NEW new, NewCart(k, T, new)
    PROVE  OrdersCounted' /\ CheckoutsDiffer'
<1>0. /\ k \in Calls /\ k.t \in Tabs /\ tab \in [Tabs -> Tab] /\ acts \in Nat /\ faults \in Nat /\ walkouts \in Nat
      /\ \A u \in Tabs : IF u = k.t THEN tab'[u].cart = k.c /\ tab'[u].busy = tab[u].busy ELSE tab'[u] = tab[u]
  BY StateIs, CallIs DEF TypeInv, StorefrontTypeOK, NewCart
<1>1. UNCHANGED <<orders, acts, acted, walkouts, faults>> /\ stored' = k.c BY DEF NewCart, server, shopper
<1>2. Checkouts' = Checkouts BY DEF NewCart, Checkouts
<1>3. \A i \in Checkouts : Open(i)' => Open(i) BY <1>0, CheckoutsAre DEF Open
<1>4. ASSUME NEW c \in CartIds PROVE Counted(c)'
  <2>1. Counted(c) BY DEF OnceInv, OrdersCounted, Counted
  <2>2. Pending(c)' \subseteq Pending(c) \cup {} BY <1>2, <1>3, PendingShrinks
  <2>3. CASE c = k.c
    <3>1. Hidden(c) BY <2>3 DEF Hidden, NewCart
    <3>2. ~Used(c) BY <3>1 DEF OnceInv, HiddenUnused
    <3>3. orders[c] = 0 BY <3>2, UsedIs
    <3>4. Pending(c) = {} BY <3>2 DEF Pending, Checkouts, Used
    <3>5. Pending(c)' = {} BY <2>2, <3>4
    <3>6. Cardinality(Pending(c)') = 0 BY <3>5, FS_EmptySet
    <3> QED BY <1>0, <1>1, <3>3, <3>6, NewNumbers DEF Counted
  <2>4. CASE c # k.c
    <3>1. \A u \in Tabs : Waiting(u, c) => Waiting(u, c)'
      <4> SUFFICES ASSUME NEW u \in Tabs, Waiting(u, c) PROVE Waiting(u, c)'
        OBVIOUS
      <4>1. PICK i \in Checkouts : i.t = u /\ i.no \in tab[u].busy /\ i.c = c BY DEF Waiting
      <4>2. i \in Checkouts' /\ i.t = u /\ i.no \in tab'[u].busy /\ i.c = c BY <1>0, <1>2, <4>1
      <4> QED BY <4>2 DEF Waiting
    <3>2. Free(c)' \subseteq Free(c)
      <4> SUFFICES ASSUME NEW u \in Free(c)' PROVE u \in Free(c)
        OBVIOUS
      <4>1. u \in Tabs /\ (tab'[u].cart = c \/ stored' = c) /\ ~Waiting(u, c)' BY DEF Free
      <4>2. u # k.t /\ tab[u].cart = c /\ ~Waiting(u, c) BY <1>0, <1>1, <2>4, <3>1, <4>1
      <4> QED BY <4>1, <4>2 DEF Free
    <3> QED BY <1>0, <1>1, <2>1, <2>2, <3>2, CountKept
  <2> QED BY <2>3, <2>4
<1> QED BY <1>0, <1>1, <1>2, <1>4, DifferKept DEF OnceInv, OrdersCounted, Counted

LEMMA InitOnce ==
    ASSUME StorefrontInit
    PROVE  OnceInv
<1>1. TypeInv BY InitTyped
<1>2. calls = {} /\ stored = NoCart /\ created = 0 /\ \A c \in CartIds : orders[c] = 0
  BY DEF StorefrontInit
<1>3. \A t \in Tabs : tab[t].cart = NoCart /\ tab[t].into = NoCart BY BlankTyped DEF StorefrontInit
<1>4. HiddenUnused
  <2>1. \A c \in CartIds : ~Used(c) BY <1>2, <1>3, NoCartIs DEF Used
  <2> QED BY <1>2, <2>1 DEF HiddenUnused
<1>5. CheckoutsDiffer BY <1>2 DEF CheckoutsDiffer, Checkouts
<1>6. ASSUME NEW c \in CartIds PROVE Counted(c)
  <2>1. Pending(c) = {} BY <1>2 DEF Pending, Checkouts
  <2>2. Cardinality(Pending(c)) = 0 BY <2>1, FS_EmptySet
  <2> QED BY <1>1, <1>2, <2>2, CountedNumbers DEF Counted
<1> QED BY <1>4, <1>5, <1>6 DEF OnceInv, OrdersCounted, Counted

LEMMA NextOnce ==
    ASSUME TypeInv, TypeInv', OnceInv, [StorefrontNext]_storefrontVars
    PROVE  OnceInv'
<1>1. HiddenUnused' BY NextHides DEF OnceInv
<1>2. CASE UNCHANGED storefrontVars
  <2>1. UNCHANGED <<orders, stored, tab, calls, acts, faults, walkouts, acted>> BY <1>2 DEF storefrontVars, server, shopper
  <2> QED BY <1>1, <2>1 DEF OnceInv, CheckoutsDiffer, OrdersCounted, Checkouts, Pending, Free, Waiting, Open
<1>3. ASSUME NEW t \in Tabs, Shops(t) PROVE OrdersCounted' /\ CheckoutsDiffer'
  BY <1>3, EditsCount, LeavingCounts, ReloadCounts, PressCounts DEF Shops
<1>4. ASSUME NEW k \in calls, ServerSteps(k) \/ LoseCall(k) PROVE OrdersCounted' /\ CheckoutsDiffer'
  BY <1>4, ServerCounts
<1>5. ASSUME NEW k \in calls, TabSteps(k) PROVE OrdersCounted' /\ CheckoutsDiffer'
  BY <1>5, CreatedReceives, NewCartCounts, AnsweredCounts, ConfirmedCounts, FailureCounts DEF TabSteps
<1> QED BY <1>1, <1>2, <1>3, <1>4, <1>5 DEF StorefrontNext, OnceInv

LEMMA OnceIs ==
    ASSUME TypeInv, OnceInv
    PROVE  OrderedOnce
<1> SUFFICES ASSUME NEW c \in CartIds PROVE orders[c] <= Cardinality(acted) + faults + walkouts
    BY DEF OrderedOnce
<1>1. /\ orders[c] \in Nat /\ faults \in Nat /\ walkouts \in Nat /\ Cardinality(Pending(c)) \in Nat
      /\ Cardinality(acted \ Free(c)) \in Nat /\ IsFiniteSet(acted) /\ Cardinality(acted) \in Nat
  BY CountedNumbers, Finite
<1>2. Cardinality(acted \ Free(c)) <= Cardinality(acted)
  <2>1. acted \ Free(c) \subseteq acted OBVIOUS
  <2> QED BY <1>1, <2>1, FS_Subset
<1>3. Counted(c) BY DEF OnceInv, OrdersCounted, Counted
<1> QED BY <1>1, <1>2, <1>3 DEF Counted
----------------------------------------------------------------------------
(* One thing at a time. *)

LEMMA OneOnly ==
    ASSUME NEW S, IsFiniteSet(S), Cardinality(S) <= 1, NEW x \in S, NEW y \in S
    PROVE  x = y
<1> SUFFICES ASSUME x # y PROVE FALSE
    OBVIOUS
<1>1. IsFiniteSet(S \ {x}) /\ Cardinality(S \ {x}) = Cardinality(S) - 1 BY FS_RemoveElement
<1>2. Cardinality(S \ {x}) \in Nat /\ Cardinality(S) \in Nat BY <1>1, FS_CardinalityType
<1>3. Cardinality(S \ {x}) = 0 BY <1>1, <1>2
<1>4. S \ {x} = {} BY <1>1, <1>3, FS_EmptySet
<1> QED BY <1>4

LEMMA ContentIs ==
    ASSUME TypeInv
    PROVE  /\ ContentOf(stored) \in Contents
           /\ stored # NoCart => stored \in CartIds /\ ContentOf(stored) = carts[stored]
           /\ stored = NoCart => ContentOf(stored) = Empty
           /\ Lines(Empty) = {}
<1>1. stored \in CartIds \cup {NoCart} /\ \A c \in CartIds : carts[c] \in Contents BY StateIs
<1>2. Lines(Empty) = {} BY DEF Lines, Empty
<1> QED BY <1>1, <1>2, EmptyTyped DEF ContentOf

LEMMA ActorsFinite ==
    ASSUME TypeInv
    PROVE  acted \subseteq Tabs /\ IsFiniteSet(acted) /\ Cardinality(acted) \in Nat
<1>1. acted \subseteq Tabs BY DEF TypeInv, StorefrontTypeOK
<1>2. IsFiniteSet(acted) BY <1>1, StorefrontAssumption, FS_Subset
<1> QED BY <1>1, <1>2, FS_CardinalityType

(* A shopper who acts undisturbed acts in one tab, and nothing is in flight. *)
LEMMA ActsUndisturbed ==
    ASSUME TypeInv, TypeInv', Undisturbed', NEW t \in Tabs, NEW several, ActsAs(t, several)
    PROVE  Undisturbed /\ calls = {} /\ ~several /\ acted' = {t} /\ (acted = {} \/ acted = {t})
<1>1. rushed \in Nat /\ faults \in Nat BY StateIs
<1>2. /\ rushed' = rushed + (IF calls # {} \/ several THEN 1 ELSE 0) /\ faults' = faults
      /\ acted' = acted \cup {t}
  BY DEF ActsAs
<1>3. rushed' = 0 /\ faults' = 0 /\ Cardinality(acted') <= 1 BY DEF Undisturbed
<1>4. rushed = 0 /\ ~(calls # {} \/ several) BY <1>1, <1>2, <1>3
<1>5. IsFiniteSet(acted') /\ Cardinality(acted') \in Nat
  <2>1. acted' \subseteq Tabs BY <1>2, ActorsFinite
  <2>2. IsFiniteSet(acted') BY <2>1, StorefrontAssumption, FS_Subset
  <2> QED BY <2>2, FS_CardinalityType
<1>6. Cardinality(acted) <= 1
  <2>1. Cardinality(acted) <= Cardinality(acted') BY <1>2, <1>5, FS_Subset
  <2> QED BY <1>3, <1>5, <2>1, ActorsFinite
<1>7. acted' = {t} BY <1>2, <1>3, <1>5, OneOnly
<1> QED BY <1>2, <1>3, <1>4, <1>6, <1>7 DEF Undisturbed

(* What the tab of an undisturbed shopper shows when nothing is in flight. *)
AtRest(t) ==
    /\ tab[t].cart = stored /\ tab[t].shown = ContentOf(stored) /\ Fits(tab[t].quote, ContentOf(stored))
    /\ tab[t].adding = FALSE /\ (tab[t].page = "shop" => tab[t].quote = {})
    /\ \A u \in Tabs \ {t} : tab[u] = Blank

LEMMA Rests ==
    ASSUME TypeInv, CalmInv, Undisturbed, calls = {}, NEW t \in Tabs, acted = {} \/ acted = {t}
    PROVE  AtRest(t)
<1>0. tab[t].adding \in BOOLEAN BY StateIs, TabIs
<1>1. Calm BY DEF CalmInv
<1>2. CASE acted = {t}
  <2>1. CalmTab(t) BY <1>1, <1>2 DEF Calm
  <2>2. Reads(t) /\ tab[t].cart = stored /\ (tab[t].page = "shop" => tab[t].quote = {}) BY <2>1 DEF CalmTab
  <2>3. tab[t].shown = ContentOf(stored) /\ Fits(tab[t].quote, ContentOf(stored)) /\ tab[t].adding = FALSE
    BY <1>0, <2>2 DEF Reads
  <2>4. \A u \in Tabs \ {t} : tab[u] = Blank BY <1>1, <1>2 DEF Calm
  <2> QED BY <2>2, <2>3, <2>4 DEF AtRest
<1>3. CASE acted = {}
  <2>1. stored = NoCart /\ \A u \in Tabs : tab[u] = Blank BY <1>1, <1>3 DEF Calm
  <2> QED BY <2>1, BlankTyped, ContentIs DEF AtRest, Fits
<1> QED BY <1>2, <1>3

(* How a calm state is reached. *)
LEMMA CalmFrom ==
    ASSUME TypeInv, NEW t \in Tabs, NEW T, acted' = {t}, tab' = [tab EXCEPT ![t] = T],
           \A u \in Tabs \ {t} : tab[u] = Blank,
           T.cart = stored', T.page = "shop" => T.quote = {}, \A k \in calls' : k.t = t,
           Reads(t)' \/ \E k \in calls' : calls' = {k} /\ (Edits(t, k)' \/ Orders(t, k)')
    PROVE  Calm'
<1>1. \A u \in Tabs : tab'[u] = IF u = t THEN T ELSE tab[u] BY DEF TypeInv, StorefrontTypeOK
<1>2. tab'[t].cart = stored' /\ (tab'[t].page = "shop" => tab'[t].quote = {}) BY <1>1
<1>3. CalmTab(t)' BY <1>2 DEF CalmTab
<1> QED BY <1>1, <1>3 DEF Calm

(* An act leaves what was ordered and what is in the carts. *)
LEMMA ActKeeps ==
    ASSUME TypeInv, CalmInv, Undisturbed, calls = {}, UNCHANGED <<server, stored>>
    PROVE  CartsAreNotForgotten' /\ OrderedAsShown'
<1>1. carts' = carts /\ created' = created /\ orders' = orders /\ charged' = charged BY DEF server
<1>2. \A c \in 1..created : Lines(carts[c]) = {} \/ orders[c] > 0 \/ c = stored
  BY DEF CalmInv, CartsAreNotForgotten
<1>3. \A o \in charged : o.got = o.saw /\ \A q \in o.quote : Lines(q) = Lines(o.got)
  BY DEF CalmInv, OrderedAsShown
<1> QED BY <1>1, <1>2, <1>3 DEF CartsAreNotForgotten, OrderedAsShown

(* An edit is sent. *)
Changes(k) == k.what \in {"create", "add", "set", "remove"}

LEMMA EditSent ==
    ASSUME TypeInv, CalmInv, NEW t \in Tabs, Undisturbed, calls = {}, AtRest(t), acted' = {t},
           UNCHANGED <<server, stored>>, NEW T, T \in Tab,
           NEW k, Changes(k), k.t = t, k.at = "sent",
           calls' = calls \cup {k}, tab' = [tab EXCEPT ![t] = T],
           T.cart = tab[t].cart, T.shown = tab[t].shown, T.quote = tab[t].quote, T.page = tab[t].page,
           k.c = tab[t].cart, k.what = "create" <=> tab[t].cart = NoCart,
           k.what = "set" => tab[t].shown[k.p] > 0, k.bundle = T.adding,
           k.bundle = TRUE => Bundling(t, k)'
    PROVE  CalmInv'
<1>1. carts' = carts /\ stored' = stored BY DEF server
<1>2. CartsAreNotForgotten' /\ OrderedAsShown' BY ActKeeps
<1>3. calls' = {k} OBVIOUS
<1>4. tab'[t] = T BY DEF TypeInv, StorefrontTypeOK
<1>5. Edits(t, k)'
  <2>1. T.shown \in Contents BY StateIs, TabIs
  <2>2. T.shown = ContentOf(stored) /\ ContentOf(stored)' = ContentOf(stored) BY <1>1 DEF AtRest, ContentOf
  <2>3. Fits(T.quote, T.shown) BY <2>2 DEF AtRest
  <2>4. IF k.what = "create" THEN stored' = NoCart ELSE stored' # NoCart /\ k.c = stored' BY <1>1 DEF AtRest
  <2>5. k.what = "create" => k.c = NoCart OBVIOUS
  <2>6. k.what = "set" => carts'[stored'][k.p] > 0
    <3>1. k.what = "set" => stored # NoCart /\ tab[t].shown = carts[stored] BY ContentIs DEF AtRest
    <3> QED BY <1>1, <3>1
  <2> QED BY <1>4, <2>1, <2>2, <2>3, <2>4, <2>5, <2>6 DEF Edits, Fits, Changes
<1>6. Calm'
  <2>1. T.cart = stored' /\ (T.page = "shop" => T.quote = {}) /\ \A u \in Tabs \ {t} : tab[u] = Blank
    BY <1>1 DEF AtRest
  <2>2. \A l \in calls' : l.t = t BY <1>3
  <2>3. \E l \in calls' : calls' = {l} /\ (Edits(t, l)' \/ Orders(t, l)') BY <1>3, <1>5
  <2> QED BY <2>1, <2>2, <2>3, CalmFrom
<1> QED BY <1>2, <1>6 DEF CalmInv

(* A checkout is sent. *)
LEMMA OrderSent ==
    ASSUME TypeInv, CalmInv, NEW t \in Tabs, Undisturbed, calls = {}, AtRest(t), acted' = {t},
           UNCHANGED <<server, stored>>, NEW T, NEW k, k.what = "checkout", k.t = t, k.at = "sent",
           calls' = calls \cup {k}, tab' = [tab EXCEPT ![t] = T],
           T.cart = tab[t].cart, T.shown = tab[t].shown, T.quote = tab[t].quote, T.page = tab[t].page,
           T.adding = tab[t].adding,
           k.c = tab[t].cart, k.saw = tab[t].shown, k.quote = tab[t].quote, Lines(tab[t].shown) # {}
    PROVE  CalmInv'
<1>1. carts' = carts /\ stored' = stored BY DEF server
<1>2. CartsAreNotForgotten' /\ OrderedAsShown' BY ActKeeps
<1>3. calls' = {k} OBVIOUS
<1>4. tab'[t] = T BY DEF TypeInv, StorefrontTypeOK
<1>5. Orders(t, k)'
  <2>1. stored # NoCart /\ tab[t].shown = carts[stored] /\ ContentOf(stored) = carts[stored]
    BY ContentIs DEF AtRest
  <2>2. k.c = stored' /\ stored' # NoCart /\ ~tab'[t].adding BY <1>1, <1>4, <2>1 DEF AtRest
  <2>3. k.saw = carts'[stored'] /\ Lines(carts'[stored']) # {} BY <1>1, <2>1
  <2>4. Fits(k.quote, carts'[stored']) BY <1>1, <2>1 DEF AtRest
  <2>5. Fits(k.quote, carts[stored])' BY <2>4 DEF Fits
  <2> QED BY <2>2, <2>3, <2>5 DEF Orders
<1>6. Calm'
  <2>1. T.cart = stored' /\ (T.page = "shop" => T.quote = {}) /\ \A u \in Tabs \ {t} : tab[u] = Blank
    BY <1>1 DEF AtRest
  <2>2. \A l \in calls' : l.t = t BY <1>3
  <2>3. \E l \in calls' : calls' = {l} /\ (Edits(t, l)' \/ Orders(t, l)') BY <1>3, <1>5
  <2> QED BY <2>1, <2>2, <2>3, CalmFrom
<1> QED BY <1>2, <1>6 DEF CalmInv

LEMMA EditsCalm ==
    ASSUME TypeInv, TypeInv', CalmInv, Undisturbed', NEW t \in Tabs, NEW p \in Products,
           AddToCart(t, p) \/ RemoveItem(t, p) \/ \E n \in 0..MaxActs : SetQty(t, p, n)
    PROVE  CalmInv'
<1>1. PICK T : T = tab[t] /\ T \in Tab BY StateIs
<1>2. tab' = tab /\ tab' = [tab EXCEPT ![t] = T] /\ ActsAs(t, FALSE)
  <2>1. tab' = tab /\ ActsAs(t, FALSE) BY DEF AddToCart, RemoveItem, SetQty, Acts
  <2> QED BY <1>1, <2>1, Stays
<1>3. Undisturbed /\ calls = {} /\ acted' = {t} /\ (acted = {} \/ acted = {t}) BY <1>2, ActsUndisturbed
<1>4. AtRest(t) /\ UNCHANGED <<server, stored>> BY <1>2, <1>3, Rests DEF ActsAs
<1>5. T.adding = FALSE BY <1>1, <1>4 DEF AtRest
<1>6. T.cart = tab[t].cart /\ T.shown = tab[t].shown /\ T.quote = tab[t].quote /\ T.page = tab[t].page BY <1>1
<1>7. ASSUME NEW k, calls' = calls \cup {k}, k.what \in {"create", "add", "set", "remove"}, k.t = t, k.at = "sent",
             k.c = tab[t].cart, k.what = "create" <=> tab[t].cart = NoCart,
             k.what = "set" => tab[t].shown[k.p] > 0, k.bundle = FALSE
      PROVE  CalmInv'
  <2>1. k.bundle = T.adding BY <1>5, <1>7
  <2>2. k.bundle = TRUE => Bundling(t, k)' BY <1>7
  <2>3. Changes(k) BY <1>7 DEF Changes
  <2> QED BY ONLY TypeInv, CalmInv, t \in Tabs, <1>1, <1>2, <1>3, <1>4, <1>6, <1>7, <2>1, <2>2, <2>3, EditSent
<1>8. CASE AddToCart(t, p)
  <2>1. PICK k : k = AddTo(t, tab[t].cart, p, acts, FALSE) OBVIOUS
  <2>2. calls' = calls \cup {k} BY <1>8, <2>1 DEF AddToCart
  <2>3. /\ k.what \in {"create", "add"} /\ k.t = t /\ k.at = "sent" /\ k.c = tab[t].cart
        /\ (k.what = "create" <=> tab[t].cart = NoCart) /\ k.bundle = FALSE
    BY <2>1 DEF AddTo, Change
  <2> QED BY <1>7, <2>2, <2>3
<1>9. CASE RemoveItem(t, p)
  <2>1. PICK k : k = Change("remove", t, tab[t].cart, p, 0, acts, FALSE) OBVIOUS
  <2>2. calls' = calls \cup {k} BY <1>9, <2>1 DEF RemoveItem
  <2>3. k.what = "remove" /\ k.t = t /\ k.at = "sent" /\ k.c = tab[t].cart /\ k.bundle = FALSE BY <2>1 DEF Change
  <2>4. tab[t].cart # NoCart BY <1>9 DEF RemoveItem
  <2> QED BY <1>7, <2>2, <2>3, <2>4
<1>10. ASSUME NEW n \in 0..MaxActs, SetQty(t, p, n) PROVE CalmInv'
  <2>1. PICK k : k = Change("set", t, tab[t].cart, p, n, acts, FALSE) OBVIOUS
  <2>2. calls' = calls \cup {k} BY <1>10, <2>1 DEF SetQty
  <2>3. k.what = "set" /\ k.t = t /\ k.at = "sent" /\ k.c = tab[t].cart /\ k.bundle = FALSE /\ k.p = p
    BY <2>1 DEF Change
  <2>4. tab[t].cart # NoCart /\ tab[t].shown[p] > 0 BY <1>10 DEF SetQty, Lines
  <2> QED BY <1>7, <2>2, <2>3, <2>4
<1> QED BY <1>8, <1>9, <1>10

LEMMA BundleCalm ==
    ASSUME TypeInv, TypeInv', CalmInv, Undisturbed', NEW t \in Tabs, AddBundle(t)
    PROVE  CalmInv'
<1>0. tab[t] \in Tab /\ tab[t].cart \in CartIds \cup {NoCart} BY StateIs, TabIs
<1>1. PICK T : T = [tab[t] EXCEPT !.adding = TRUE, !.into = tab[t].cart, !.left = Tail(Bundle)] OBVIOUS
<1>2. PICK k : k = AddTo(t, tab[t].cart, Head(Bundle), acts, TRUE) OBVIOUS
<1>3. calls' = calls \cup {k} /\ tab' = [tab EXCEPT ![t] = T] BY <1>1, <1>2 DEF AddBundle
<1>4. /\ T \in Tab /\ T.cart = tab[t].cart /\ T.shown = tab[t].shown /\ T.quote = tab[t].quote
      /\ T.page = tab[t].page /\ T.adding = TRUE /\ T.left = Tail(Bundle) /\ T.into = tab[t].cart
  BY <1>0, <1>1, BundleIs DEF Tab
<1>5. /\ k.what \in {"create", "add"} /\ k.t = t /\ k.at = "sent" /\ k.c = tab[t].cart /\ k.p = Head(Bundle) /\ k.n = 1
      /\ (k.what = "create" <=> tab[t].cart = NoCart) /\ k.bundle = TRUE
  BY <1>2 DEF AddTo, Change
<1>6. tab[t].page = "shop" BY DEF AddBundle
<1>7. /\ Undisturbed /\ calls = {} /\ acted' = {t} /\ (acted = {} \/ acted = {t})
      /\ ~(tab[t].cart = NoCart /\ Len(Bundle) > 1) /\ UNCHANGED <<server, stored>>
  <2>1. PICK several : ActsAs(t, several) /\ several = (tab[t].cart = NoCart /\ Len(Bundle) > 1) BY DEF AddBundle
  <2>2. Undisturbed /\ calls = {} /\ acted' = {t} /\ (acted = {} \/ acted = {t}) /\ ~several BY <2>1, ActsUndisturbed
  <2> QED BY <2>1, <2>2 DEF ActsAs
<1>8. AtRest(t) BY <1>7, Rests
<1>9. Bundling(t, k)'
  <2>1. tab'[t] = T BY <1>3 DEF TypeInv, StorefrontTypeOK
  <2>2. tab'[t].left = Tail(Bundle) /\ tab'[t].page = "shop" /\ tab'[t].into = stored'
    BY <1>4, <1>6, <1>7, <1>8, <2>1 DEF AtRest
  <2>3. Len(Bundle) - Len(tab'[t].left) = 1 BY <2>2, BundleIs
  <2>4. \A j \in 1..Len(tab'[t].left) : tab'[t].left[j] = Bundle[1 + j] BY <2>2, BundleIs
  <2>5. k.p = Bundle[1] BY <1>5, BundleIs
  <2>6. k.what = "create" => Len(Bundle) = 1 BY <1>5, <1>7, BundleIs
  <2>7. \A i \in 1..1 : (i < 1 \/ k.at = "answered") => carts'[stored'][Bundle[i]] > 0 BY <1>5
  <2>8. 1 > 0 OBVIOUS
  <2> QED BY ONLY <1>5, <2>2, <2>3, <2>4, <2>5, <2>6, <2>7, <2>8 DEF Bundling
<1>10. Changes(k) /\ (k.what = "set" => tab[t].shown[k.p] > 0) BY <1>5 DEF Changes
<1>11. k.bundle = T.adding BY <1>4, <1>5
<1>12. k.bundle = TRUE => Bundling(t, k)' BY <1>9
<1>13. Undisturbed /\ calls = {} /\ acted' = {t} /\ UNCHANGED <<server, stored>> BY <1>7
<1>14. /\ T \in Tab /\ T.cart = tab[t].cart /\ T.shown = tab[t].shown /\ T.quote = tab[t].quote
       /\ T.page = tab[t].page
  BY <1>4
<1>15. k.t = t /\ k.at = "sent" /\ k.c = tab[t].cart /\ (k.what = "create" <=> tab[t].cart = NoCart) BY <1>5
<1> QED BY ONLY TypeInv, CalmInv, t \in Tabs, <1>3, <1>8, <1>10, <1>11, <1>12, <1>13, <1>14, <1>15, EditSent

(* Nothing but readings of the stored cart is sent. *)
LEMMA ReadsSent ==
    ASSUME TypeInv, CalmInv, NEW t \in Tabs, Undisturbed, calls = {}, AtRest(t), acted' = {t},
           UNCHANGED <<server, stored>>, NEW T, tab' = [tab EXCEPT ![t] = T], T.cart = stored, T.page = "shop" => T.quote = {},
           T.adding = FALSE,
           \A k \in calls' : /\ k.what \in {"load", "quote"} /\ k.t = t /\ k.c = stored /\ k.at = "sent"
                             /\ (k.what = "quote" => T.page = "cart"),
           T.shown = ContentOf(stored) \/ \E k \in calls' : k.what = "load",
           Fits(T.quote, ContentOf(stored))
    PROVE  CalmInv'
<1>1. carts' = carts /\ stored' = stored BY DEF server
<1>2. CartsAreNotForgotten' /\ OrderedAsShown' BY ActKeeps
<1>3. tab'[t] = T BY DEF TypeInv, StorefrontTypeOK
<1>4. ContentOf(stored)' = ContentOf(stored) BY <1>1 DEF ContentOf
<1>5. Reads(t)' BY <1>1, <1>3, <1>4 DEF Reads, Fits
<1>6. Calm'
  <2>1. \A u \in Tabs \ {t} : tab[u] = Blank BY DEF AtRest
  <2> QED BY <1>1, <1>5, <2>1, CalmFrom
<1> QED BY <1>2, <1>6 DEF CalmInv

LEMMA PagesCalm ==
    ASSUME TypeInv, TypeInv', CalmInv, Undisturbed', NEW t \in Tabs, OpenCartPage(t) \/ LeaveCartPage(t) \/ Reload(t)
    PROVE  CalmInv'
<1>0. tab[t] \in Tab /\ stored \in CartIds \cup {NoCart} BY StateIs
<1>1. ActsAs(t, FALSE) BY DEF OpenCartPage, LeaveCartPage, Reload, Acts
<1>2. Undisturbed /\ calls = {} /\ acted' = {t} /\ (acted = {} \/ acted = {t}) BY <1>1, ActsUndisturbed
<1>3. AtRest(t) /\ UNCHANGED <<server, stored>> BY <1>1, <1>2, Rests DEF ActsAs
<1>4. /\ tab[t].cart = stored /\ tab[t].shown = ContentOf(stored) /\ Fits(tab[t].quote, ContentOf(stored))
      /\ tab[t].adding = FALSE
  BY <1>3 DEF AtRest
<1>5. CASE OpenCartPage(t)
  <2> DEFINE T == [tab[t] EXCEPT !.page = "cart"]
  <2>1. tab' = [tab EXCEPT ![t] = T] /\ calls' = Read("quote", t, stored) BY <1>2, <1>4, <1>5 DEF OpenCartPage
  <2>2. /\ T.cart = stored /\ T.page = "cart" /\ T.shown = ContentOf(stored) /\ T.adding = FALSE
        /\ Fits(T.quote, ContentOf(stored))
    BY <1>0, <1>4 DEF Tab
  <2>3. \A k \in calls' : k.what \in {"load", "quote"} /\ k.t = t /\ k.c = stored /\ k.at = "sent"
    BY <1>0, <2>1, ReadIs
  <2> HIDE DEF T
  <2>4. T.page = "shop" => T.quote = {} BY <2>2
  <2>5. \A k \in calls' : /\ k.what \in {"load", "quote"} /\ k.t = t /\ k.c = stored /\ k.at = "sent"
                          /\ (k.what = "quote" => T.page = "cart")
    BY <2>2, <2>3
  <2> QED BY <1>2, <1>3, <2>1, <2>2, <2>4, <2>5, ReadsSent
<1>6. CASE LeaveCartPage(t)
  <2> DEFINE T == Left(t)
  <2>1. tab' = [tab EXCEPT ![t] = T] /\ calls' = {} BY <1>2, <1>6 DEF LeaveCartPage
  <2>2. /\ T.cart = stored /\ T.page = "shop" /\ T.quote = {} /\ T.shown = ContentOf(stored) /\ T.adding = FALSE
        /\ Fits(T.quote, ContentOf(stored))
    BY <1>4, LeftIs DEF Fits
  <2> HIDE DEF T
  <2> QED BY <1>2, <1>3, <2>1, <2>2, ReadsSent
<1>7. CASE Reload(t)
  <2> DEFINE T == [Blank EXCEPT !.cart = stored, !.page = tab[t].page]
  <2>1. /\ tab' = [tab EXCEPT ![t] = T]
        /\ calls' = Read("load", t, stored) \cup (IF tab[t].page = "cart" THEN Read("quote", t, stored) ELSE {})
    BY <1>2, <1>7 DEF Reload
  <2>2. T.cart = stored /\ T.page = tab[t].page /\ T.quote = {} /\ T.adding = FALSE /\ T.shown = Empty
    BY DEF Blank
  <2>3. \A k \in Read("load", t, stored) : k.what = "load" /\ k.t = t /\ k.c = stored /\ k.at = "sent"
    BY <1>0, ReadIs
  <2>4. \A k \in Read("quote", t, stored) : k.what = "quote" /\ k.t = t /\ k.c = stored /\ k.at = "sent"
    BY <1>0, ReadIs
  <2> HIDE DEF T
  <2>5. \A k \in calls' : /\ k.what \in {"load", "quote"} /\ k.t = t /\ k.c = stored /\ k.at = "sent"
                          /\ (k.what = "quote" => T.page = "cart")
    BY <2>1, <2>2, <2>3, <2>4
  <2>6. Fits(T.quote, ContentOf(stored)) BY <2>2 DEF Fits
  <2>7. T.shown = ContentOf(stored) \/ \E k \in calls' : k.what = "load"
    <3>1. CASE stored = NoCart BY <2>2, <3>1, ContentIs
    <3>2. CASE stored # NoCart
      <4>1. Read("load", t, stored) # {} BY <3>2 DEF Read
      <4> QED BY <2>1, <2>3, <4>1
    <3> QED BY <3>1, <3>2
  <2>8. T.page = "shop" => T.quote = {} BY <2>2
  <2>9. T.cart = stored /\ T.adding = FALSE BY <2>2
  <2>10. tab' = [tab EXCEPT ![t] = T] BY <2>1
  <2> QED BY ONLY TypeInv, CalmInv, t \in Tabs, <1>2, <1>3, <2>5, <2>6, <2>7, <2>8, <2>9, <2>10, ReadsSent
<1> QED BY <1>5, <1>6, <1>7

LEMMA PressCalm ==
    ASSUME TypeInv, TypeInv', CalmInv, Undisturbed', NEW t \in Tabs, PressCheckout(t)
    PROVE  CalmInv'
<1> DEFINE T == [tab[t] EXCEPT !.busy = {acts}]
           k == CheckoutCall(t)
<1>0. tab[t] \in Tab BY StateIs
<1>1. ActsAs(t, FALSE) /\ Lines(tab[t].shown) # {} /\ tab' = [tab EXCEPT ![t] = T] /\ calls' = calls \cup {k}
  BY DEF PressCheckout, Acts, MayPress, CheckoutCall
<1>2. Undisturbed /\ calls = {} /\ acted' = {t} /\ (acted = {} \/ acted = {t}) BY <1>1, ActsUndisturbed
<1>3. AtRest(t) BY <1>2, Rests
<1>4. UNCHANGED <<server, stored>> BY <1>1 DEF ActsAs
<1>5. /\ T.cart = tab[t].cart /\ T.shown = tab[t].shown /\ T.quote = tab[t].quote /\ T.page = tab[t].page
      /\ T.adding = tab[t].adding
  BY <1>0 DEF Tab
<1>6. /\ k.t = t /\ k.what = "checkout" /\ k.c = tab[t].cart /\ k.at = "sent" /\ k.saw = tab[t].shown
      /\ k.quote = tab[t].quote
  BY CheckoutCallIs
<1> HIDE DEF T, k
<1> QED BY <1>1, <1>2, <1>3, <1>4, <1>5, <1>6, OrderSent

(* What is in flight for an undisturbed shopper. *)
LEMMA Phase ==
    ASSUME TypeInv, CalmInv, Undisturbed, NEW k \in calls
    PROVE  /\ k.t \in Tabs /\ acted = {k.t} /\ CalmTab(k.t) /\ \A u \in Tabs \ {k.t} : tab[u] = Blank
           /\ k.what \in {"load", "quote"} => Reads(k.t)
           /\ Changes(k) => calls = {k} /\ Edits(k.t, k)
           /\ k.what = "checkout" => calls = {k} /\ Orders(k.t, k)
           /\ k.at \in {"sent", "answered"}
<1>1. Calm BY DEF CalmInv
<1>2. acted # {} BY <1>1 DEF Calm
<1>3. PICK t : t \in acted BY <1>2
<1>4. CalmTab(t) BY <1>1, <1>3 DEF Calm
<1>5. k.t = t BY <1>4 DEF CalmTab
<1>6. acted = {t}
  <2>1. \A u \in acted : u = t BY <1>3, ActorsFinite, OneOnly DEF Undisturbed
  <2> QED BY <1>3, <2>1
<1>7. Reads(t) \/ \E m \in calls : calls = {m} /\ (Edits(t, m) \/ Orders(t, m)) BY <1>4 DEF CalmTab
<1>8. t \in Tabs /\ \A u \in Tabs \ {t} : tab[u] = Blank BY <1>1, <1>3, <1>6, ActorsFinite DEF Calm
<1>9. CASE Reads(t)
  <2>1. k.what \in {"load", "quote"} /\ k.at \in {"sent", "answered"} BY <1>9 DEF Reads
  <2>2. ~Changes(k) BY <2>1 DEF Changes
  <2> QED BY <1>4, <1>5, <1>6, <1>8, <1>9, <2>1, <2>2
<1>10. ASSUME NEW m \in calls, calls = {m}, Edits(t, m) \/ Orders(t, m) PROVE calls = {k} /\ (Edits(t, k) \/ Orders(t, k))
  <2>1. m = k BY <1>10
  <2> QED BY <1>10, <2>1
<1>11. CASE calls = {k} /\ Edits(t, k)
  <2>1. k.what \in {"create", "add", "set", "remove"} /\ k.at \in {"sent", "answered"} BY <1>11 DEF Edits
  <2> QED BY <1>4, <1>5, <1>6, <1>8, <1>11, <2>1
<1>12. CASE calls = {k} /\ Orders(t, k)
  <2>1. k.what = "checkout" /\ k.at \in {"sent", "answered"} BY <1>12 DEF Orders
  <2>2. ~Changes(k) BY <2>1 DEF Changes
  <2> QED BY <1>4, <1>5, <1>6, <1>8, <1>12, <2>1, <2>2
<1> QED BY <1>7, <1>9, <1>10, <1>11, <1>12

LEMMA StillUndisturbed ==
    ASSUME Undisturbed', UNCHANGED <<shopper, faults>>
    PROVE  Undisturbed /\ acted' = acted
<1>1. rushed' = rushed /\ faults' = faults /\ acted' = acted BY DEF shopper
<1> QED BY <1>1 DEF Undisturbed

(* The server's answer. *)
LEMMA ServedCalm ==
    ASSUME TypeInv, CalmInv, Undisturbed, acted' = acted, NEW k \in calls, NEW l, Served(k, l),
           Reads(k.t)' \/ \E m \in calls' : calls' = {m} /\ (Edits(k.t, m)' \/ Orders(k.t, m)')
    PROVE  Calm'
<1>1. k.t \in Tabs /\ acted = {k.t} /\ CalmTab(k.t) /\ \A u \in Tabs \ {k.t} : tab[u] = Blank BY Phase
<1>2. stored' = stored /\ tab' = tab /\ calls' = (calls \ {k}) \cup {l} /\ l.t = k.t BY DEF Served
<1>3. PICK T : T = tab[k.t] OBVIOUS
<1>4. PICK t \in Tabs : t = k.t BY <1>1
<1>5. tab' = [tab EXCEPT ![t] = T] BY <1>1, <1>2, <1>3, <1>4, Stays
<1>6. T.cart = stored' /\ (T.page = "shop" => T.quote = {}) BY <1>1, <1>2, <1>3 DEF CalmTab
<1>7. \A m \in calls' : m.t = t BY <1>1, <1>2, <1>4 DEF CalmTab
<1>8. acted' = {t} /\ \A u \in Tabs \ {t} : tab[u] = Blank BY <1>1, <1>4
<1>9. Reads(t)' \/ \E m \in calls' : calls' = {m} /\ (Edits(t, m)' \/ Orders(t, m)') BY <1>4
<1> QED BY <1>5, <1>6, <1>7, <1>8, <1>9, CalmFrom

LEMMA ReadingCalm ==
    ASSUME TypeInv, CalmInv, Undisturbed', NEW k \in calls, NEW l, ReadsCart(k, l)
    PROVE  CalmInv'
<1>1. /\ Served(k, l) /\ k.at = "sent" /\ k.what \in {"load", "quote"} /\ k.c \in CartIds
      /\ l.at = "answered" /\ l.c = k.c /\ l.got = carts[k.c]
      /\ UNCHANGED <<server, shopper, faults>>
  BY DEF ReadsCart
<1>2. Undisturbed /\ acted' = acted BY <1>1, StillUndisturbed
<1>3. Reads(k.t) BY <1>1, <1>2, Phase
<1>4. /\ stored' = stored /\ tab' = tab /\ calls' = (calls \ {k}) \cup {l} /\ l.t = k.t /\ l.what = k.what
      /\ carts' = carts /\ created' = created /\ orders' = orders /\ charged' = charged
  BY <1>1 DEF Served, server
<1>5. Reads(k.t)'
  <2>1. \A m \in calls' : /\ m.what \in {"load", "quote"} /\ m.c = stored'
                          /\ m.at = "sent" \/ (m.at = "answered" /\ m.got = carts'[stored'])
                          /\ m.what = "quote" => tab'[k.t].page = "cart"
    BY <1>1, <1>3, <1>4 DEF Reads
  <2>2. tab'[k.t].shown = ContentOf(stored)' \/ \E m \in calls' : m.what = "load" BY <1>3, <1>4 DEF Reads, ContentOf
  <2>3. Fits(tab[k.t].quote, ContentOf(stored))' \/ \E m \in calls' : m.what = "quote"
    BY <1>3, <1>4 DEF Reads, ContentOf, Fits
  <2>4. ~tab'[k.t].adding BY <1>3, <1>4 DEF Reads
  <2> QED BY <2>1, <2>2, <2>3, <2>4 DEF Reads
<1>6. Calm' BY <1>1, <1>2, <1>5, ServedCalm
<1>7. CartsAreNotForgotten'
  <2>1. \A c \in 1..created : \/ Lines(carts[c]) = {} \/ orders[c] > 0 \/ c = stored
                              \/ \E m \in calls : m.what = "create" /\ m.c = c
    BY <1>2 DEF CalmInv, CartsAreNotForgotten
  <2>2. \A m \in calls : m.what # "create" BY <1>3 DEF Reads
  <2> QED BY <1>4, <2>1, <2>2 DEF CartsAreNotForgotten
<1>8. OrderedAsShown' BY <1>2, <1>4 DEF CalmInv, OrderedAsShown
<1> QED BY <1>6, <1>7, <1>8 DEF CalmInv

LEMMA OrderingCalm ==
    ASSUME TypeInv, CalmInv, Undisturbed', NEW k \in calls, NEW l, OrdersCart(k, l)
    PROVE  CalmInv'
<1>1. /\ Served(k, l) /\ k.at = "sent" /\ k.what = "checkout" /\ k.c \in CartIds /\ k \in Checkout
      /\ l.at = "answered" /\ l.c = k.c /\ orders' = [orders EXCEPT ![k.c] = @ + 1]
      /\ charged' = charged \cup {[saw |-> k.saw, quote |-> k.quote, got |-> carts[k.c]]}
      /\ UNCHANGED <<carts, created, shopper, faults>>
  BY DEF OrdersCart
<1>2. Undisturbed /\ acted' = acted BY <1>1, StillUndisturbed
<1>3. Orders(k.t, k) /\ calls = {k} BY <1>1, <1>2, Phase
<1>4. /\ k.c = stored /\ stored # NoCart /\ ~tab[k.t].adding /\ k.saw = carts[stored]
      /\ Fits(k.quote, carts[stored])
  BY <1>1, <1>3 DEF Orders
<1>5. stored' = stored /\ tab' = tab /\ calls' = {l} /\ l.t = k.t /\ l.what = k.what BY <1>1, <1>3 DEF Served
<1>6. orders' \in [CartIds -> Nat] /\ orders'[k.c] > 0 /\ \A c \in CartIds : orders[c] > 0 => orders'[c] > 0
  <2>1. orders \in [CartIds -> Nat] BY DEF TypeInv, StorefrontTypeOK
  <2> QED BY <1>1, <2>1
<1>7. Orders(k.t, l)' BY <1>1, <1>4, <1>5, <1>6 DEF Orders
<1>8. Calm'
  <2>1. \E m \in calls' : calls' = {m} /\ (Edits(k.t, m)' \/ Orders(k.t, m)') BY <1>5, <1>7
  <2> QED BY <1>1, <1>2, <2>1, ServedCalm
<1>9. CartsAreNotForgotten'
  <2>1. \A c \in 1..created : Lines(carts[c]) = {} \/ orders[c] > 0 \/ c = stored
    BY <1>1, <1>2, <1>3 DEF CalmInv, CartsAreNotForgotten
  <2>2. \A c \in 1..created : c \in CartIds BY StateIs, NoCartIs DEF CartIds
  <2> QED BY <1>1, <1>5, <1>6, <2>1, <2>2 DEF CartsAreNotForgotten
<1>10. OrderedAsShown'
  <2>1. \A o \in charged : o.got = o.saw /\ \A q \in o.quote : Lines(q) = Lines(o.got)
    BY <1>2 DEF CalmInv, OrderedAsShown
  <2>2. \A q \in k.quote : Lines(q) = Lines(carts[k.c]) BY <1>4 DEF Fits
  <2>3. \A o \in charged' : o.got = o.saw /\ \A q \in o.quote : Lines(q) = Lines(o.got) BY <1>1, <1>4, <2>1, <2>2
  <2> QED BY <2>3 DEF OrderedAsShown
<1> QED BY <1>8, <1>9, <1>10 DEF CalmInv

LEMMA CreatingCalm ==
    ASSUME TypeInv, CalmInv, Undisturbed', NEW k \in calls, NEW l, CreatesCart(k, l)
    PROVE  CalmInv'
<1>1. /\ Served(k, l) /\ k.at = "sent" /\ k.what = "create" /\ k \in Edit
      /\ l.at = "answered" /\ l.c = created' /\ l.got = carts'[l.c]
      /\ created < MaxCarts /\ created' = created + 1
      /\ carts' = [carts EXCEPT ![created'] = [Empty EXCEPT ![k.p] = k.n]]
      /\ UNCHANGED <<orders, charged, shopper, faults>>
  BY DEF CreatesCart
<1>2. Undisturbed /\ acted' = acted BY <1>1, StillUndisturbed
<1>3. Edits(k.t, k) /\ calls = {k} BY <1>1, <1>2, Phase DEF Changes
<1>4. /\ tab[k.t].shown \in Contents /\ Fits(tab[k.t].quote, tab[k.t].shown) /\ stored = NoCart /\ k.c = NoCart
      /\ k.bundle = tab[k.t].adding /\ (k.bundle => Bundling(k.t, k))
  BY <1>1, <1>3 DEF Edits
<1>5. /\ stored' = stored /\ tab' = tab /\ calls' = {l} /\ l.t = k.t /\ l.what = k.what
      /\ l.p = k.p /\ l.n = k.n /\ l.bundle = k.bundle
  BY <1>1, <1>3 DEF Served
<1>6. created \in Nat /\ NoCart = 0 BY StateIs, NoCartIs
<1>7. l.c # NoCart BY <1>1, <1>6
<1>8. k.bundle => Bundling(k.t, l)'
  <2> SUFFICES ASSUME k.bundle PROVE Bundling(k.t, l)'
    OBVIOUS
  <2>1. Bundling(k.t, k) BY <1>4
  <2> QED BY <1>1, <1>5, <2>1 DEF Bundling
<1>9. Edits(k.t, l)'
  <2>1. Fits(tab[k.t].quote, tab[k.t].shown)' BY <1>4, <1>5 DEF Fits
  <2> QED BY <1>1, <1>4, <1>5, <1>7, <1>8, <2>1 DEF Edits
<1>10. Calm'
  <2>1. \E m \in calls' : calls' = {m} /\ (Edits(k.t, m)' \/ Orders(k.t, m)') BY <1>5, <1>9
  <2> QED BY <1>1, <1>2, <2>1, ServedCalm
<1>11. CartsAreNotForgotten'
  <2>1. \A c \in 1..created : Lines(carts[c]) = {} \/ orders[c] > 0 \/ c = stored
    <3>1. \A c \in 1..created : c # NoCart BY <1>6
    <3> QED BY <1>2, <1>3, <1>4, <3>1 DEF CalmInv, CartsAreNotForgotten
  <2>2. \A c \in 1..created' : c = created' \/ (c \in 1..created /\ c # created') BY <1>1, <1>6
  <2>3. \A c \in 1..created : c # created' => carts'[c] = carts[c]
    <3>1. \A c \in 1..created : c \in CartIds BY StateIs, NoCartIs DEF CartIds
    <3>2. carts \in [CartIds -> Contents] BY DEF TypeInv, StorefrontTypeOK
    <3> QED BY <1>1, <3>1, <3>2
  <2>4. \A c \in 1..created' : \/ Lines(carts'[c]) = {} \/ orders'[c] > 0 \/ c = stored'
                               \/ \E m \in calls' : m.what = "create" /\ m.c = c
    BY <1>1, <1>5, <2>1, <2>2, <2>3
  <2> QED BY <2>4 DEF CartsAreNotForgotten
<1>12. OrderedAsShown' BY <1>1, <1>2 DEF CalmInv, OrderedAsShown
<1> QED BY <1>10, <1>11, <1>12 DEF CalmInv

LEMMA EditingCalm ==
    ASSUME TypeInv, CalmInv, Undisturbed', NEW k \in calls, NEW l, EditsCart(k, l)
    PROVE  CalmInv'
<1>1. /\ Served(k, l) /\ k.at = "sent" /\ k.what \in {"add", "set", "remove"} /\ k.c \in CartIds /\ k \in Edit
      /\ l.at = "answered" /\ l.c = k.c /\ l.got = carts'[k.c]
      /\ carts' = [carts EXCEPT ![k.c][k.p] = IF k.what = "add" THEN @ + k.n ELSE k.n]
      /\ UNCHANGED <<created, orders, charged, shopper, faults>>
  BY DEF EditsCart
<1>2. Undisturbed /\ acted' = acted BY <1>1, StillUndisturbed
<1>3. Edits(k.t, k) /\ calls = {k} BY <1>1, <1>2, Phase DEF Changes
<1>4. /\ tab[k.t].shown \in Contents /\ Fits(tab[k.t].quote, tab[k.t].shown) /\ stored # NoCart /\ k.c = stored
      /\ tab[k.t].shown = ContentOf(stored)
      /\ k.bundle = tab[k.t].adding /\ (k.bundle => Bundling(k.t, k))
  BY <1>1, <1>3 DEF Edits
<1>5. /\ stored' = stored /\ tab' = tab /\ calls' = {l} /\ l.t = k.t /\ l.what = k.what
      /\ l.p = k.p /\ l.n = k.n /\ l.bundle = k.bundle
  BY <1>1, <1>3 DEF Served
<1>6. /\ carts \in [CartIds -> Contents] /\ k.p \in Products /\ k.n \in Nat
      /\ ContentOf(stored) = carts[stored] /\ \A p \in Products : carts[stored][p] \in Nat
  <2>1. k.p \in Products /\ k.n \in Nat BY <1>1, EditIs
  <2>2. carts \in [CartIds -> Contents] BY DEF TypeInv, StorefrontTypeOK
  <2> QED BY <1>1, <1>4, <2>1, <2>2, ContentIs DEF Contents
<1>7. /\ \A p \in Products : carts'[stored][p] = IF p # k.p THEN carts[stored][p]
                                                 ELSE IF k.what = "add" THEN carts[stored][p] + k.n ELSE k.n
      /\ \A c \in CartIds : c # stored => carts'[c] = carts[c]
  BY <1>1, <1>4, <1>6 DEF Contents
<1>8. k.bundle => Bundling(k.t, l)'
  <2> SUFFICES ASSUME k.bundle PROVE Bundling(k.t, l)'
    OBVIOUS
  <2>1. Bundling(k.t, k) BY <1>4
  <2> DEFINE done == Len(Bundle) - Len(tab[k.t].left)
  <2>2. /\ done > 0 /\ \A j \in 1..Len(tab[k.t].left) : tab[k.t].left[j] = Bundle[done + j]
        /\ k.p = Bundle[done] /\ k.n = 1 /\ tab[k.t].page = "shop" /\ k.what = "add" /\ tab[k.t].into = stored
        /\ \A i \in 1..done : i < done => carts[stored][Bundle[i]] > 0
    BY <1>1, <2>1 DEF Bundling
  <2>3. done \in Nat /\ done <= Len(Bundle)
    <3>1. Len(tab[k.t].left) \in Nat
      <4>1. tab[k.t].left \in Seq(Products) BY <1>2, Phase, StateIs, TabIs
      <4> QED BY <4>1, LenProperties
    <3> QED BY <2>2, <3>1, BundleIs
  <2> HIDE DEF done
  <2>4. ASSUME NEW i \in 1..done PROVE carts'[stored][Bundle[i]] > 0
    <3>1. Bundle[i] \in Products
      <4>1. i \in 1..Len(Bundle) BY <2>3, BundleIs
      <4> QED BY <4>1, BundleIs
    <3>2. i < done => carts[stored][Bundle[i]] > 0 BY <2>2
    <3>3. carts'[stored][Bundle[i]] = IF Bundle[i] # k.p THEN carts[stored][Bundle[i]] ELSE carts[stored][Bundle[i]] + 1
      BY <1>7, <2>2, <3>1
    <3>4. carts[stored][Bundle[i]] \in Nat BY <1>6, <3>1
    <3>5. i = done => Bundle[i] = k.p BY <2>2
    <3>6. i < done \/ i = done BY <2>3
    <3> QED BY <3>2, <3>3, <3>4, <3>5, <3>6
  <2> QED BY <1>5, <2>2, <2>4 DEF Bundling, done
<1>9. Edits(k.t, l)'
  <2>1. Fits(tab[k.t].quote, tab[k.t].shown)' BY <1>4, <1>5 DEF Fits
  <2>2. \A p \in Products \ {l.p} : l.got[p] = tab'[k.t].shown[p] BY <1>1, <1>4, <1>5, <1>6, <1>7
  <2> QED BY <1>1, <1>4, <1>5, <1>8, <2>1, <2>2 DEF Edits
<1>10. Calm'
  <2>1. \E m \in calls' : calls' = {m} /\ (Edits(k.t, m)' \/ Orders(k.t, m)') BY <1>5, <1>9
  <2> QED BY <1>1, <1>2, <2>1, ServedCalm
<1>11. CartsAreNotForgotten'
  <2>1. \A c \in 1..created : Lines(carts[c]) = {} \/ orders[c] > 0 \/ c = stored
    BY <1>1, <1>2, <1>3 DEF CalmInv, CartsAreNotForgotten
  <2>2. \A c \in 1..created : c \in CartIds BY StateIs, NoCartIs DEF CartIds
  <2> QED BY <1>1, <1>5, <1>7, <2>1, <2>2 DEF CartsAreNotForgotten
<1>12. OrderedAsShown' BY <1>1, <1>2 DEF CalmInv, OrderedAsShown
<1> QED BY <1>10, <1>11, <1>12 DEF CalmInv

LEMMA ServerCalm ==
    ASSUME TypeInv, CalmInv, Undisturbed', NEW k \in calls, ServerSteps(k) \/ LoseCall(k)
    PROVE  CalmInv'
<1>1. PICK l : \/ Refuses(k, l) \/ Loses(k, l) \/ CreatesCart(k, l) \/ EditsCart(k, l)
               \/ ReadsCart(k, l) \/ OrdersCart(k, l)
  BY ServerDoes
<1>2. CASE Loses(k, l)
  <2>1. faults' = faults + 1 /\ faults \in Nat BY <1>2, StateIs DEF Loses
  <2> QED BY <2>1 DEF Undisturbed
<1>3. CASE Refuses(k, l)
  <2>1. Undisturbed /\ k.at = "sent" /\ Refused(k) BY <1>3, StillUndisturbed DEF Refuses
  <2>2. k \in Calls /\ NoCart \notin CartIds BY StateIs, NoCartIs
  <2>3. k.what \in {"load", "quote", "create", "add", "set", "remove", "checkout"} BY <2>2, CallIs
  <2>4. CASE k.what \in {"load", "quote"}
    <3>1. k.c \in CartIds BY <2>2, <2>4, CallIs DEF Reading
    <3> QED BY <2>1, <2>2, <2>4, <3>1 DEF Refused
  <2>5. CASE Changes(k)
    <3>1. Edits(k.t, k) BY <2>1, <2>5, Phase
    <3> QED BY <2>1, <2>5, <3>1 DEF Refused, Edits, Changes
  <2>6. CASE k.what = "checkout"
    <3>1. Orders(k.t, k) BY <2>1, <2>6, Phase
    <3> QED BY <2>1, <2>6, <3>1 DEF Refused, Orders
  <2> QED BY <2>3, <2>4, <2>5, <2>6 DEF Changes
<1> QED BY <1>1, <1>2, <1>3, CreatingCalm, EditingCalm, ReadingCalm, OrderingCalm

(* As many lines, if one product at most has changed, are the same lines. *)
LEMMA SameLines ==
    ASSUME NEW x \in Contents, NEW y \in Contents, NEW p, \A q \in Products \ {p} : x[q] = y[q],
           Cardinality(Lines(x)) = Cardinality(Lines(y))
    PROVE  Lines(x) = Lines(y)
<1>1. /\ IsFiniteSet(Lines(x)) /\ IsFiniteSet(Lines(y))
      /\ Cardinality(Lines(x)) \in Nat /\ Cardinality(Lines(y)) \in Nat
  <2>1. Lines(x) \subseteq Products /\ Lines(y) \subseteq Products BY DEF Lines
  <2>2. IsFiniteSet(Lines(x)) /\ IsFiniteSet(Lines(y)) BY <2>1, StorefrontAssumption, FS_Subset
  <2> QED BY <2>2, FS_CardinalityType
<1>2. Lines(x) \ {p} = Lines(y) \ {p} BY DEF Lines
<1>3. CASE p \in Lines(x) <=> p \in Lines(y) BY <1>2, <1>3
<1>4. CASE p \in Lines(x) /\ p \notin Lines(y)
  <2>1. Lines(y) = Lines(x) \ {p} BY <1>2, <1>4
  <2>2. Cardinality(Lines(y)) = Cardinality(Lines(x)) - 1 BY <1>1, <1>4, <2>1, FS_RemoveElement
  <2> QED BY <1>1, <2>2
<1>5. CASE p \notin Lines(x) /\ p \in Lines(y)
  <2>1. Lines(x) = Lines(y) \ {p} BY <1>2, <1>5
  <2>2. Cardinality(Lines(x)) = Cardinality(Lines(y)) - 1 BY <1>1, <1>5, <2>1, FS_RemoveElement
  <2> QED BY <1>1, <2>2
<1> QED BY <1>3, <1>4, <1>5

(* A tab that has an answer and knows what it will ask next. *)
LEMMA ReceivedCalm ==
    ASSUME TypeInv, CalmInv, Undisturbed, acted' = acted, NEW k \in calls, NEW t, t = k.t, NEW T,
           tab' = [tab EXCEPT ![t] = T],
           T.cart = stored', T.page = "shop" => T.quote = {}, \A m \in calls' : m.t = t,
           Reads(t)' \/ \E m \in calls' : calls' = {m} /\ (Edits(t, m)' \/ Orders(t, m)')
    PROVE  Calm'
<1>1. t \in Tabs /\ acted' = {t} /\ \A u \in Tabs \ {t} : tab[u] = Blank BY Phase
<1> QED BY <1>1, CalmFrom

LEMMA ReceivedKeeps ==
    ASSUME TypeInv, CalmInv, Undisturbed, UNCHANGED server, stored' = stored,
           \A m \in calls : m.what # "create"
    PROVE  CartsAreNotForgotten' /\ OrderedAsShown'
<1>1. carts' = carts /\ created' = created /\ orders' = orders /\ charged' = charged BY DEF server
<1>2. \A c \in 1..created : Lines(carts[c]) = {} \/ orders[c] > 0 \/ c = stored
  BY DEF CalmInv, CartsAreNotForgotten
<1>3. \A o \in charged : o.got = o.saw /\ \A q \in o.quote : Lines(q) = Lines(o.got)
  BY DEF CalmInv, OrderedAsShown
<1> QED BY <1>1, <1>2, <1>3 DEF CartsAreNotForgotten, OrderedAsShown

LEMMA LoadedCalm ==
    ASSUME TypeInv, CalmInv, Undisturbed', NEW k \in calls, CartLoaded(k) \/ Quoted(k)
    PROVE  CalmInv'
<1>0. PICK t \in Tabs : t = k.t BY StateIs, CallIs
<1>1. /\ k.at = "answered" /\ k.what \in {"load", "quote"} /\ UNCHANGED <<server, shopper, faults>>
      /\ stored' = stored
  BY DEF CartLoaded, Quoted, Arrives
<1>2. Undisturbed /\ acted' = acted BY <1>1, StillUndisturbed
<1>3. Reads(t) /\ CalmTab(t) BY <1>0, <1>1, <1>2, Phase
<1>4. carts' = carts /\ k.c = stored /\ k.got = carts[stored] /\ stored \in CartIds /\ ContentOf(stored) = carts[stored]
  <2>1. k.c = stored /\ k.got = carts[stored] BY <1>1, <1>3 DEF Reads
  <2>2. k \in Reading(CartIds) BY <1>1, StateIs, CallIs
  <2>3. k.c \in CartIds BY <2>2 DEF Reading
  <2> QED BY <1>1, <2>1, <2>3, NoCartIs DEF server, ContentOf
<1>5. tab[t] \in Tab /\ tab[t].cart = stored /\ (tab[t].page = "shop" => tab[t].quote = {}) /\ \A m \in calls : m.t = t
  BY <1>3, StateIs DEF CalmTab
<1>6. CartsAreNotForgotten' /\ OrderedAsShown'
  <2>1. \A m \in calls : m.what # "create" BY <1>3 DEF Reads
  <2> QED BY <1>1, <1>2, <2>1, ReceivedKeeps
<1>7. ContentOf(stored)' = carts[stored] BY <1>1, <1>4 DEF ContentOf
<1>8. CASE CartLoaded(k)
  <2>1. PICK T : T = [tab[t] EXCEPT !.shown = k.got] OBVIOUS
  <2>2. /\ tab' = [tab EXCEPT ![t] = T] /\ calls' = (calls \ {k}) \cup Requotes(t, stored, k.got) /\ k.what = "load"
    BY <1>0, <1>5, <1>8, <2>1 DEF CartLoaded
  <2>3. /\ T.cart = stored /\ T.shown = carts[stored] /\ T.page = tab[t].page /\ T.quote = tab[t].quote
        /\ T.adding = tab[t].adding
    BY <1>4, <1>5, <2>1 DEF Tab
  <2>4. tab'[t] = T BY <2>2 DEF TypeInv, StorefrontTypeOK
  <2>5. \A m \in Requotes(t, stored, k.got) :
           m.what = "quote" /\ m.t = t /\ m.c = stored /\ m.at = "sent" /\ tab[t].page = "cart"
    <3>1. \A m \in Read("quote", t, stored) : m.what = "quote" /\ m.t = t /\ m.c = stored /\ m.at = "sent"
      BY <1>4, ReadIs
    <3> QED BY <3>1 DEF Requotes
  <2>6. Reads(t)'
    <3>1. \A m \in calls' : /\ m.what \in {"load", "quote"} /\ m.c = stored'
                            /\ m.at = "sent" \/ (m.at = "answered" /\ m.got = carts'[stored'])
                            /\ m.what = "quote" => tab'[t].page = "cart"
      BY <1>1, <1>3, <1>4, <2>2, <2>3, <2>4, <2>5 DEF Reads
    <3>2. tab'[t].shown = ContentOf(stored)' BY <1>7, <2>3, <2>4
    <3>3. Fits(tab[t].quote, ContentOf(stored))' \/ \E m \in calls' : m.what = "quote"
      <4>1. CASE Fits(tab[t].quote, ContentOf(stored))
        BY <1>4, <1>7, <2>3, <2>4, <4>1 DEF Fits
      <4>2. CASE \E m \in calls : m.what = "quote" BY <2>2, <4>2
      <4> QED BY <1>3, <4>1, <4>2 DEF Reads
    <3>4. ~tab'[t].adding BY <1>3, <2>3, <2>4 DEF Reads
    <3> QED BY <3>1, <3>2, <3>3, <3>4 DEF Reads
  <2>7. \A m \in calls' : m.t = t BY <1>5, <2>2, <2>5
  <2>8. T.cart = stored' /\ (T.page = "shop" => T.quote = {}) BY <1>1, <1>5, <2>3
  <2>9. Calm' BY <1>0, <1>2, <2>2, <2>6, <2>7, <2>8, ReceivedCalm
  <2> QED BY <1>6, <2>9 DEF CalmInv
<1>9. CASE Quoted(k)
  <2>1. PICK T : T = [tab[t] EXCEPT !.quote = {k.got}] OBVIOUS
  <2>2. tab' = [tab EXCEPT ![t] = T] /\ calls' = calls \ {k} /\ k.what = "quote" BY <1>0, <1>9, <2>1 DEF Quoted
  <2>3. /\ T.cart = stored /\ T.shown = tab[t].shown /\ T.page = tab[t].page /\ T.quote = {carts[stored]}
        /\ T.adding = tab[t].adding
    BY <1>4, <1>5, <2>1 DEF Tab
  <2>4. tab'[t] = T BY <2>2 DEF TypeInv, StorefrontTypeOK
  <2>5. tab[t].page = "cart" BY <1>3, <2>2 DEF Reads
  <2>6. Reads(t)'
    <3>1. \A m \in calls' : /\ m.what \in {"load", "quote"} /\ m.c = stored'
                            /\ m.at = "sent" \/ (m.at = "answered" /\ m.got = carts'[stored'])
                            /\ m.what = "quote" => tab'[t].page = "cart"
      BY <1>1, <1>3, <1>4, <2>2, <2>3, <2>4 DEF Reads
    <3>2. tab'[t].shown = ContentOf(stored)' \/ \E m \in calls' : m.what = "load"
      <4>1. CASE tab[t].shown = ContentOf(stored) BY <1>4, <1>7, <2>3, <2>4, <4>1
      <4>2. CASE \E m \in calls : m.what = "load" BY <2>2, <4>2
      <4> QED BY <1>3, <4>1, <4>2 DEF Reads
    <3>3. Fits(tab[t].quote, ContentOf(stored))' BY <1>7, <2>3, <2>4 DEF Fits
    <3>4. ~tab'[t].adding BY <1>3, <2>3, <2>4 DEF Reads
    <3> QED BY <3>1, <3>2, <3>3, <3>4 DEF Reads
  <2>7. \A m \in calls' : m.t = t BY <1>5, <2>2
  <2>8. T.cart = stored' /\ (T.page = "shop" => T.quote = {}) BY <1>1, <2>3, <2>5
  <2>9. Calm' BY <1>0, <1>2, <2>2, <2>6, <2>7, <2>8, ReceivedCalm
  <2> QED BY <1>6, <2>9 DEF CalmInv
<1> QED BY <1>8, <1>9

LEMMA ConfirmedCalm ==
    ASSUME TypeInv, CalmInv, Undisturbed', NEW k \in calls, CheckedOut(k)
    PROVE  CalmInv'
<1>0. PICK t \in Tabs : t = k.t BY StateIs, CallIs
<1>1. /\ k.at = "answered" /\ k.what = "checkout" /\ UNCHANGED <<server, shopper, faults>> /\ stored' = NoCart
      /\ calls' \subseteq calls \ {k}
  BY DEF CheckedOut, Arrives
<1>2. Undisturbed /\ acted' = acted BY <1>1, StillUndisturbed
<1>3. calls = {k} /\ Orders(t, k) BY <1>0, <1>1, <1>2, Phase
<1>4. orders[stored] > 0 /\ ~tab[t].adding BY <1>1, <1>3 DEF Orders
<1>5. PICK T : T = [Left(t) EXCEPT !.cart = NoCart, !.shown = Empty] OBVIOUS
<1>6. /\ T.cart = NoCart /\ T.shown = Empty /\ T.page = "shop" /\ T.quote = {} /\ T.adding = tab[t].adding
  <2>1. Left(t) \in Tab /\ Left(t).page = "shop" /\ Left(t).quote = {} /\ Left(t).adding = tab[t].adding BY LeftIs
  <2> QED BY <1>5, <2>1 DEF Tab
<1>7. tab' = [tab EXCEPT ![t] = T] BY <1>0, <1>5 DEF CheckedOut
<1>8. tab'[t] = T BY <1>7 DEF TypeInv, StorefrontTypeOK
<1>9. calls' = {} BY <1>1, <1>3
<1>10. Reads(t)'
  <2>1. ContentOf(stored)' = Empty BY <1>1 DEF ContentOf
  <2>2. tab'[t].shown = ContentOf(stored)' BY <1>6, <1>8, <2>1
  <2>3. tab'[t].quote = {} /\ ~tab'[t].adding BY <1>4, <1>6, <1>8
  <2> QED BY <1>9, <2>2, <2>3 DEF Reads, Fits
<1>11. Calm' BY <1>0, <1>1, <1>2, <1>6, <1>7, <1>9, <1>10, ReceivedCalm
<1>12. CartsAreNotForgotten'
  <2>1. \A c \in 1..created : Lines(carts[c]) = {} \/ orders[c] > 0
    BY <1>1, <1>2, <1>3, <1>4 DEF CalmInv, CartsAreNotForgotten
  <2>2. carts' = carts /\ created' = created /\ orders' = orders BY <1>1 DEF server
  <2> QED BY <2>1, <2>2 DEF CartsAreNotForgotten
<1>13. OrderedAsShown'
  <2>1. charged' = charged BY <1>1 DEF server
  <2> QED BY <1>2, <2>1 DEF CalmInv, OrderedAsShown
<1> QED BY <1>11, <1>12, <1>13 DEF CalmInv

LEMMA CreatedCalm ==
    ASSUME TypeInv, CalmInv, Undisturbed', NEW k \in calls, CartCreated(k)
    PROVE  CalmInv'
<1>0. PICK t \in Tabs : t = k.t BY StateIs, CallIs
<1>1. /\ k.at = "answered" /\ k.what = "create" /\ UNCHANGED <<server, shopper, faults>> /\ stored' = k.c
  BY DEF CartCreated, Arrives
<1>2. Undisturbed /\ acted' = acted BY <1>1, StillUndisturbed
<1>3. calls = {k} /\ Edits(t, k) /\ CalmTab(t) BY <1>0, <1>1, <1>2, Phase DEF Changes
<1>4. /\ stored = NoCart /\ k.c # NoCart /\ k.got = carts[k.c] /\ k.bundle = tab[t].adding
      /\ (k.bundle => Bundling(t, k)) /\ carts' = carts
  BY <1>1, <1>3 DEF Edits, server
<1>5. /\ k \in Edit /\ k.c \in CartIds /\ k.bundle \in BOOLEAN /\ k.got \in Contents /\ tab[t] \in Tab
      /\ tab[t].left \in Seq(Products)
  BY <1>1, <1>4, StateIs, CallIs, EditIs, TabIs
<1>6. tab[t].cart = stored /\ (tab[t].page = "shop" => tab[t].quote = {}) /\ tab[t].page \in {"shop", "cart"}
  BY <1>3, <1>5, TabIs DEF CalmTab
<1>7. k.bundle => tab[t].left = << >>
  <2> SUFFICES ASSUME k.bundle PROVE tab[t].left = << >>
    OBVIOUS
  <2>1. Len(Bundle) - Len(tab[t].left) > 0 /\ Len(Bundle) = 1 BY <1>1, <1>4 DEF Bundling
  <2>2. Len(tab[t].left) \in Nat BY <1>5, LenProperties
  <2>3. Len(tab[t].left) = 0 BY <2>1, <2>2
  <2> QED BY <1>5, <2>3, EmptySeq
<1>8. NextOfBundle(k) = {} BY <1>0, <1>7 DEF NextOfBundle
<1>9. PICK T : T = [Held(k) EXCEPT !.cart = k.c, !.shown = k.got] OBVIOUS
<1>10. /\ T.cart = k.c /\ T.shown = k.got /\ T.page = tab[t].page /\ T.quote = tab[t].quote /\ ~T.adding
  <2>1. /\ Held(k) \in Tab /\ Held(k).page = tab[t].page /\ Held(k).quote = tab[t].quote
        /\ Held(k).adding = (tab[t].adding /\ ~(k.bundle /\ tab[t].left = << >>))
    BY <1>0, HeldIs
  <2>2. T.adding = Held(k).adding /\ T.cart = k.c /\ T.shown = k.got /\ T.page = Held(k).page /\ T.quote = Held(k).quote
    BY <1>9, <2>1 DEF Tab
  <2>3. ~(tab[t].adding /\ ~(k.bundle /\ tab[t].left = << >>))
    <3>1. tab[t].adding => k.bundle BY <1>4
    <3> QED BY <1>7, <3>1
  <2> QED BY <2>1, <2>2, <2>3
<1>11. /\ tab' = [tab EXCEPT ![t] = T] /\ calls' = Read("load", t, k.c) \cup Requotes(t, k.c, k.got)
  BY <1>0, <1>3, <1>8, <1>9 DEF CartCreated
<1>12. tab'[t] = T BY <1>11 DEF TypeInv, StorefrontTypeOK
<1>13. \A m \in Read("load", t, k.c) : m.what = "load" /\ m.t = t /\ m.c = k.c /\ m.at = "sent" BY <1>5, ReadIs
<1>14. \A m \in Requotes(t, k.c, k.got) :
          m.what = "quote" /\ m.t = t /\ m.c = k.c /\ m.at = "sent" /\ tab[t].page = "cart"
  <2>1. \A m \in Read("quote", t, k.c) : m.what = "quote" /\ m.t = t /\ m.c = k.c /\ m.at = "sent"
    BY <1>5, ReadIs
  <2> QED BY <2>1 DEF Requotes
<1>15. Reads(t)'
  <2>1. \A m \in calls' : /\ m.what \in {"load", "quote"} /\ m.c = stored'
                          /\ m.at = "sent" \/ (m.at = "answered" /\ m.got = carts'[stored'])
                          /\ m.what = "quote" => tab'[t].page = "cart"
    BY <1>1, <1>10, <1>11, <1>12, <1>13, <1>14
  <2>2. tab'[t].shown = ContentOf(stored)' BY <1>1, <1>4, <1>10, <1>12 DEF ContentOf
  <2>3. Fits(tab[t].quote, ContentOf(stored))' \/ \E m \in calls' : m.what = "quote"
    <3>1. CASE tab[t].page = "shop" BY <1>6, <1>10, <1>12, <3>1 DEF Fits
    <3>2. CASE tab[t].page = "cart"
      <4>1. Requotes(t, k.c, k.got) = Read("quote", t, k.c) BY <1>4, <1>6, <3>2, RequotesIs
      <4>2. Read("quote", t, k.c) # {} BY <1>4 DEF Read
      <4> QED BY <1>11, <1>14, <4>1, <4>2
    <3> QED BY <1>6, <3>1, <3>2
  <2>4. ~tab'[t].adding BY <1>10, <1>12
  <2> QED BY <2>1, <2>2, <2>3, <2>4 DEF Reads
<1>16. Calm'
  <2>1. \A m \in calls' : m.t = t BY <1>11, <1>13, <1>14
  <2>2. T.cart = stored' /\ (T.page = "shop" => T.quote = {}) BY <1>1, <1>6, <1>10
  <2> QED BY <1>0, <1>2, <1>11, <1>15, <2>1, <2>2, ReceivedCalm
<1>17. CartsAreNotForgotten'
  <2>1. created' = created /\ orders' = orders BY <1>1 DEF server
  <2>2. \A c \in 1..created : Lines(carts[c]) = {} \/ orders[c] > 0 \/ c = k.c
    <3>1. \A c \in 1..created : c # NoCart BY NoCartIs
    <3> QED BY <1>2, <1>3, <1>4, <3>1 DEF CalmInv, CartsAreNotForgotten
  <2> QED BY <1>1, <1>4, <2>1, <2>2 DEF CartsAreNotForgotten
<1>18. OrderedAsShown'
  <2>1. charged' = charged BY <1>1 DEF server
  <2> QED BY <1>2, <2>1 DEF CalmInv, OrderedAsShown
<1> QED BY <1>16, <1>17, <1>18 DEF CalmInv

(* An edit has been made, and a bundle goes on with its next item. *)
LEMMA ChangedCalm ==
    ASSUME TypeInv, CalmInv, Undisturbed', NEW k \in calls, CartChanged(k)
    PROVE  CalmInv'
<1>0. PICK t \in Tabs : t = k.t BY StateIs, CallIs
<1>1. /\ k.at = "answered" /\ k.what \in {"add", "set", "remove"} /\ UNCHANGED <<server, shopper, faults>>
      /\ stored' = stored
  BY DEF CartChanged, Arrives
<1>2. Undisturbed /\ acted' = acted BY <1>1, StillUndisturbed
<1>3. calls = {k} /\ Edits(t, k) /\ CalmTab(t) BY <1>0, <1>1, <1>2, Phase DEF Changes
<1>4. /\ stored # NoCart /\ k.c = stored /\ k.got = carts[stored] /\ k.bundle = tab[t].adding
      /\ (k.bundle => Bundling(t, k)) /\ carts' = carts /\ tab[t].shown \in Contents
      /\ Fits(tab[t].quote, tab[t].shown) /\ \A p \in Products \ {k.p} : k.got[p] = tab[t].shown[p]
  BY <1>1, <1>3 DEF Edits, server
<1>5. /\ k \in Edit /\ k.bundle \in BOOLEAN /\ k.got \in Contents /\ tab[t] \in Tab
      /\ tab[t].left \in Seq(Products) /\ stored \in CartIds
  BY <1>1, <1>4, StateIs, CallIs, EditIs, TabIs
<1>6. tab[t].cart = stored /\ (tab[t].page = "shop" => tab[t].quote = {}) /\ tab[t].page \in {"shop", "cart"}
  BY <1>3, <1>5, TabIs DEF CalmTab
<1>7. PICK T : T = [Held(k) EXCEPT !.shown = k.got] OBVIOUS
<1>8. /\ T \in Tab /\ T.cart = stored /\ T.shown = k.got /\ T.page = tab[t].page /\ T.quote = tab[t].quote
      /\ T.adding = (tab[t].adding /\ ~(k.bundle /\ tab[t].left = << >>)) /\ T.into = tab[t].into
      /\ T.left = IF k.bundle /\ tab[t].left # << >> THEN Tail(tab[t].left) ELSE tab[t].left
  <2>1. /\ Held(k) \in Tab /\ Held(k).cart = tab[t].cart /\ Held(k).into = tab[t].into
        /\ Held(k).page = tab[t].page /\ Held(k).quote = tab[t].quote
        /\ Held(k).adding = (tab[t].adding /\ ~(k.bundle /\ tab[t].left = << >>))
        /\ Held(k).left = IF k.bundle /\ tab[t].left # << >> THEN Tail(tab[t].left) ELSE tab[t].left
    BY <1>0, HeldIs
  <2>2. /\ T \in Tab /\ T.cart = Held(k).cart /\ T.shown = k.got /\ T.page = Held(k).page /\ T.quote = Held(k).quote
        /\ T.adding = Held(k).adding /\ T.into = Held(k).into /\ T.left = Held(k).left
    BY <1>5, <1>7, <2>1 DEF Tab
  <2> QED BY <1>6, <2>1, <2>2
<1>9. /\ tab' = [tab EXCEPT ![t] = T] /\ calls' = NextOfBundle(k) \cup Requotes(t, stored, k.got)
  BY <1>0, <1>3, <1>6, <1>7 DEF CartChanged
<1>10. tab'[t] = T BY <1>9 DEF TypeInv, StorefrontTypeOK
<1>11. \A m \in Requotes(t, stored, k.got) :
          m.what = "quote" /\ m.t = t /\ m.c = stored /\ m.at = "sent" /\ tab[t].page = "cart"
  <2>1. \A m \in Read("quote", t, stored) : m.what = "quote" /\ m.t = t /\ m.c = stored /\ m.at = "sent"
    BY <1>5, ReadIs
  <2> QED BY <2>1 DEF Requotes
<1>12. T.cart = stored' /\ (T.page = "shop" => T.quote = {}) BY <1>1, <1>6, <1>8
<1>13. CartsAreNotForgotten' /\ OrderedAsShown'
  <2>1. \A m \in calls : m.what # "create" BY <1>1, <1>3
  <2> QED BY <1>1, <1>2, <2>1, ReceivedKeeps
<1>14. CASE ~(k.bundle /\ tab[t].left # << >>)
  <2>1. calls' = Requotes(t, stored, k.got) BY <1>0, <1>9, <1>14 DEF NextOfBundle
  <2>2. Reads(t)'
    <3>1. \A m \in calls' : /\ m.what \in {"load", "quote"} /\ m.c = stored'
                            /\ m.at = "sent" \/ (m.at = "answered" /\ m.got = carts'[stored'])
                            /\ m.what = "quote" => tab'[t].page = "cart"
      BY <1>1, <1>8, <1>10, <1>11, <2>1
    <3>2. ContentOf(stored)' = k.got BY <1>1, <1>4 DEF ContentOf
    <3>3. tab'[t].shown = ContentOf(stored)' BY <1>8, <1>10, <3>2
    <3>4. Fits(tab[t].quote, ContentOf(stored))' \/ \E m \in calls' : m.what = "quote"
      <4>1. CASE tab[t].page = "shop" BY <1>6, <1>8, <1>10, <4>1 DEF Fits
      <4>2. CASE tab[t].page = "cart" /\ Cardinality(Lines(k.got)) # Cardinality(Lines(tab[t].shown))
        <5>1. Requotes(t, stored, k.got) = Read("quote", t, stored) BY <4>2 DEF Requotes
        <5>2. Read("quote", t, stored) # {} BY <1>4 DEF Read
        <5> QED BY <1>11, <2>1, <5>1, <5>2
      <4>3. CASE Cardinality(Lines(k.got)) = Cardinality(Lines(tab[t].shown))
        <5>1. Lines(k.got) = Lines(tab[t].shown) BY <1>4, <1>5, <4>3, SameLines
        <5> QED BY <1>4, <1>8, <1>10, <3>2, <5>1 DEF Fits
      <4> QED BY <1>6, <4>1, <4>2, <4>3
    <3>5. ~tab'[t].adding
      <4>1. ~T.adding
        <5>1. tab[t].adding => k.bundle BY <1>4
        <5> QED BY <1>8, <1>14, <5>1
      <4> QED BY <1>10, <4>1
    <3> QED BY <3>1, <3>3, <3>4, <3>5 DEF Reads
  <2>3. \A m \in calls' : m.t = t BY <1>11, <2>1
  <2>4. Calm' BY <1>0, <1>2, <1>9, <1>12, <2>2, <2>3, ReceivedCalm
  <2> QED BY <1>13, <2>4 DEF CalmInv
<1>15. CASE k.bundle /\ tab[t].left # << >>
  <2> DEFINE done == Len(Bundle) - Len(tab[t].left)
  <2>1. /\ done > 0 /\ \A j \in 1..Len(tab[t].left) : tab[t].left[j] = Bundle[done + j]
        /\ k.p = Bundle[done] /\ k.n = 1 /\ tab[t].page = "shop"
        /\ \/ k.what = "create" /\ Len(Bundle) = 1
           \/ /\ k.what = "add" /\ tab[t].into = stored
              /\ \A i \in 1..done : (i < done \/ k.at = "answered") => carts[stored][Bundle[i]] > 0
    BY <1>4, <1>15 DEF Bundling
  <2>2. /\ Len(tab[t].left) \in Nat /\ Len(tab[t].left) > 0 /\ Head(tab[t].left) = tab[t].left[1]
        /\ Len(Tail(tab[t].left)) = Len(tab[t].left) - 1
        /\ \A j \in 1..Len(Tail(tab[t].left)) : Tail(tab[t].left)[j] = tab[t].left[j + 1]
    BY <1>5, <1>15, EmptySeq, LenProperties, HeadTailProperties
  <2>3. tab[t].into = stored /\ \A i \in 1..done : carts[stored][Bundle[i]] > 0 BY <1>1, <2>1
  <2>4. PICK m : m = AddTo(t, stored, Head(tab[t].left), k.no, TRUE) OBVIOUS
  <2>5. /\ m.what = "add" /\ m.t = t /\ m.c = stored /\ m.p = Head(tab[t].left) /\ m.n = 1 /\ m.bundle = TRUE
        /\ m.at = "sent"
    BY <1>4, <2>4 DEF AddTo, Change
  <2>6. calls' = {m}
    <3>1. NextOfBundle(k) = {m} BY <1>0, <1>15, <2>3, <2>4 DEF NextOfBundle
    <3>2. Requotes(t, stored, k.got) = {} BY <2>1, RequotesIs
    <3> QED BY <1>9, <3>1, <3>2
  <2>7. T.left = Tail(tab[t].left) /\ T.adding = TRUE /\ T.quote = {} /\ T.page = "shop" /\ T.into = stored
    BY <1>4, <1>6, <1>8, <1>15, <2>1, <2>3
  <2>8. Bundling(t, m)'
    <3>1. done \in Nat /\ done > 0 /\ Len(Bundle) = done + Len(tab[t].left) BY <2>1, <2>2, BundleIs
    <3> HIDE DEF done
    <3>0. tab'[t].left = Tail(tab[t].left) BY <1>10, <2>7
    <3>2. Len(Bundle) - Len(tab'[t].left) = done + 1
      <4>1. Len(tab'[t].left) = Len(tab[t].left) - 1 BY <2>2, <3>0
      <4>2. Len(tab[t].left) \in Nat BY <2>2
      <4>3. ASSUME NEW b, NEW x \in Nat, NEW d \in Nat, NEW y, b = d + x, y = x - 1 PROVE b - y = d + 1
        BY <4>3
      <4>4. PICK d : d = done OBVIOUS
      <4>5. d \in Nat /\ Len(Bundle) = d + Len(tab[t].left) BY <3>1, <4>4
      <4>6. Len(Bundle) - Len(tab'[t].left) = d + 1 BY ONLY <4>1, <4>2, <4>3, <4>5
      <4> QED BY <4>4, <4>6
    <3>3. \A j \in 1..Len(tab'[t].left) : tab'[t].left[j] = Bundle[done + 1 + j]
      <4> SUFFICES ASSUME NEW j \in 1..Len(Tail(tab[t].left)) PROVE Tail(tab[t].left)[j] = Bundle[done + 1 + j]
        BY <1>10, <2>7
      <4>1. Tail(tab[t].left)[j] = tab[t].left[j + 1] /\ j + 1 \in 1..Len(tab[t].left) BY <2>2
      <4>2. tab[t].left[j + 1] = Bundle[done + (j + 1)] BY <2>1, <4>1
      <4>3. done + (j + 1) = done + 1 + j BY <2>2, <3>1
      <4> QED BY <4>1, <4>2, <4>3
    <3>4. m.p = Bundle[done + 1] BY <2>1, <2>2, <2>5
    <3>5. \A i \in 1..(done + 1) : (i < done + 1 \/ m.at = "answered") => carts'[stored'][Bundle[i]] > 0
      <4> SUFFICES ASSUME NEW i \in 1..(done + 1), i < done + 1 PROVE carts'[stored'][Bundle[i]] > 0
        BY <2>5
      <4>1. i \in 1..done BY <3>1
      <4> QED BY <1>1, <1>4, <2>3, <4>1
    <3>6. done + 1 > 0 BY <3>1
    <3>7. tab'[t].page = "shop" /\ tab'[t].into = stored' BY <1>1, <1>10, <2>7
    <3> QED BY ONLY <2>5, <3>2, <3>3, <3>4, <3>5, <3>6, <3>7 DEF Bundling
  <2>9. Edits(t, m)'
    <3>1. tab'[t].shown = ContentOf(stored)' /\ tab'[t].shown \in Contents
      BY <1>1, <1>4, <1>5, <1>8, <1>10 DEF ContentOf
    <3>2. Fits(tab[t].quote, tab[t].shown)' BY <1>10, <2>7 DEF Fits
    <3>3. stored' # NoCart /\ m.c = stored' /\ m.bundle = tab'[t].adding BY <1>1, <1>4, <1>10, <2>5, <2>7
    <3> QED BY <2>5, <2>8, <3>1, <3>2, <3>3 DEF Edits
  <2>10. \A n \in calls' : n.t = t BY <2>5, <2>6
  <2>11. \E n \in calls' : calls' = {n} /\ (Edits(t, n)' \/ Orders(t, n)') BY <2>6, <2>9
  <2>12. Calm' BY <1>0, <1>2, <1>9, <1>12, <2>10, <2>11, ReceivedCalm
  <2> QED BY <1>13, <2>12 DEF CalmInv
<1> QED BY <1>14, <1>15

LEMMA TabCalm ==
    ASSUME TypeInv, CalmInv, Undisturbed', NEW k \in calls, TabSteps(k)
    PROVE  CalmInv'
<1>1. CASE CallFails(k)
  <2>1. UNCHANGED <<shopper, faults>> /\ k.at = "failed" BY <1>1 DEF CallFails
  <2>2. Undisturbed BY <2>1, StillUndisturbed
  <2>3. k.at \in {"sent", "answered"} BY <2>2, Phase
  <2> QED BY <2>1, <2>3
<1> QED BY <1>1, CreatedCalm, ChangedCalm, LoadedCalm, ConfirmedCalm DEF TabSteps

LEMMA NextCalm ==
    ASSUME TypeInv, TypeInv', CalmInv, [StorefrontNext]_storefrontVars
    PROVE  CalmInv'
<1>1. CASE ~Undisturbed' BY <1>1 DEF CalmInv, CartsAreNotForgotten, OrderedAsShown
<1>2. ASSUME Undisturbed', UNCHANGED storefrontVars PROVE CalmInv'
  <2>1. UNCHANGED <<carts, created, orders, charged, stored, tab, calls, acts, acted, rushed, walkouts, faults>>
    BY <1>2 DEF storefrontVars, server, shopper
  <2>2. Undisturbed BY <1>2, <2>1 DEF Undisturbed
  <2>3. Calm BY <2>2 DEF CalmInv
  <2>4. Calm'
    <3>1. \A t, k : Bundling(t, k)' <=> Bundling(t, k) BY <2>1 DEF Bundling
    <3>2. \A t : Reads(t)' <=> Reads(t) BY <2>1 DEF Reads, ContentOf, Fits
    <3>3. \A t, k : Edits(t, k)' <=> Edits(t, k) BY <2>1, <3>1 DEF Edits, ContentOf, Fits
    <3>4. \A t, k : Orders(t, k)' <=> Orders(t, k) BY <2>1 DEF Orders, Fits
    <3>5. \A t : CalmTab(t)' <=> CalmTab(t) BY <2>1, <3>2, <3>3, <3>4 DEF CalmTab
    <3> QED BY <2>1, <2>3, <3>5 DEF Calm
  <2>5. CartsAreNotForgotten' /\ OrderedAsShown'
    BY <2>1, <2>2 DEF CalmInv, CartsAreNotForgotten, OrderedAsShown, Undisturbed
  <2> QED BY <2>4, <2>5 DEF CalmInv
<1>3. ASSUME Undisturbed', NEW t \in Tabs, Shops(t) PROVE CalmInv'
  BY <1>3, EditsCalm, BundleCalm, PagesCalm, PressCalm DEF Shops
<1>4. ASSUME Undisturbed', NEW k \in calls, ServerSteps(k) \/ LoseCall(k) PROVE CalmInv'
  BY <1>4, ServerCalm
<1>5. ASSUME Undisturbed', NEW k \in calls, TabSteps(k) PROVE CalmInv'
  BY <1>5, TabCalm
<1> QED BY <1>1, <1>2, <1>3, <1>4, <1>5 DEF StorefrontNext

LEMMA InitCalm ==
    ASSUME StorefrontInit
    PROVE  CalmInv
<1>1. created = 0 /\ charged = {} /\ calls = {} /\ acted = {} /\ stored = NoCart /\ \A t \in Tabs : tab[t] = Blank
  BY DEF StorefrontInit
<1> QED BY <1>1 DEF CalmInv, Calm, CartsAreNotForgotten, OrderedAsShown

(* What the calm invariant says of a tab that waits for nothing, and of a bundle. *)
LEMMA CalmIs ==
    ASSUME TypeInv, CalmInv
    PROVE  CartIsShown /\ BundleGrows
<1>1. CartIsShown
  <2> SUFFICES ASSUME Undisturbed, NEW t \in acted, CartCalls(t) = {}
               PROVE  tab[t].cart = stored /\ tab[t].shown = IF stored = NoCart THEN Empty ELSE carts[stored]
    BY DEF CartIsShown
  <2>1. CalmTab(t) BY DEF CalmInv, Calm
  <2>2. \A k \in calls : k.what = "quote" BY <2>1 DEF CalmTab, CartCalls
  <2>3. Reads(t) BY <2>1, <2>2 DEF CalmTab, Edits, Orders
  <2>4. tab[t].shown = ContentOf(stored) BY <2>2, <2>3 DEF Reads
  <2> QED BY <2>1, <2>4 DEF CalmTab, ContentOf
<1>2. BundleGrows
  <2> SUFFICES ASSUME Undisturbed, NEW t \in Tabs, NEW i \in DOMAIN Bundle,
                      tab[t].adding, i < Len(Bundle) - Len(tab[t].left)
               PROVE  carts[tab[t].into][Bundle[i]] > 0
    BY DEF BundleGrows
  <2>1. Calm BY DEF CalmInv
  <2>2. t \in acted BY <2>1, BlankTyped DEF Calm
  <2>3. CalmTab(t) BY <2>1, <2>2 DEF Calm
  <2>4. PICK k \in calls : Edits(t, k) BY <2>3 DEF CalmTab, Reads, Orders
  <2>5. Bundling(t, k) BY <2>4 DEF Edits
  <2>6. i \in Nat /\ i >= 1 /\ Len(tab[t].left) \in Nat
    <3>1. i \in 1..Len(Bundle) BY BundleIs
    <3>2. tab[t].left \in Seq(Products) BY StateIs, TabIs
    <3> QED BY <3>1, <3>2, LenProperties, BundleIs
  <2>7. i \in 1..(Len(Bundle) - Len(tab[t].left)) BY <2>6, BundleIs
  <2>8. ~(k.what = "create" /\ Len(Bundle) = 1) BY <2>6, BundleIs
  <2> QED BY <2>5, <2>7, <2>8 DEF Bundling
<1> QED BY <1>1, <1>2

(* What the shopper sees is what the shop has and sells: undisturbed, the cart that is shown
   is the one the server has and a reload would find, nothing put into a cart is forgotten
   before it is ordered, the order is for the cart that was shown, and a bundle gets in
   as far as its button; and whatever is in flight, a tab orders a cart once, but for
   orders whose answer is lost and for shoppers who walk out. *)
THEOREM ShownSold == StorefrontSpec => []ShownIsSold
<1> DEFINE Inv == TypeInv /\ OnceInv /\ CalmInv
<1>1. StorefrontInit => Inv BY InitTyped, InitOnce, InitCalm
<1>2. Inv /\ [StorefrontNext]_storefrontVars => Inv'
  <2> SUFFICES ASSUME Inv, [StorefrontNext]_storefrontVars PROVE Inv'
    OBVIOUS
  <2>1. TypeInv' BY NextTyped
  <2>2. OnceInv' BY <2>1, NextOnce
  <2>3. CalmInv' BY <2>1, NextCalm
  <2> QED BY <2>1, <2>2, <2>3
<1>3. Inv => ShownIsSold BY OnceIs, CalmIs DEF ShownIsSold, CalmInv
<1> QED BY <1>1, <1>2, <1>3, PTL DEF StorefrontSpec
=============================================================================
