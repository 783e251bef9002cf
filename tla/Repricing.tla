------------------------------ MODULE Repricing ------------------------------
(***************************************************************************)
(* Repricing a store's variants against its competitors (PricingService).  *)
(* A repricing reads the rule, then the variants with their costs and      *)
(* competitors, works out every price and writes the changed ones one by   *)
(* one, while merchants change costs and prices (ProductService).  Amounts *)
(* are integers of the minor unit; margins are whole percents.             *)
(***************************************************************************)
EXTENDS Integers, FiniteSetsExt

CONSTANTS
    Priced,          \* variants
    Repricers,       \* repricings that may overlap
    Editors,         \* product edits that may overlap
    PriceRules,      \* rules a merchant may set
    Prices,          \* prices and "was" prices a merchant may set
    Costs,           \* 0: unknown
    RivalPrices,     \* prices of competitors
    MaxPriceCalls    \* bound: calls of any kind

Strategies == {"FIXED_MARGIN", "MATCH_LOWEST", "BEAT_LOWEST"}
PriceRule == [strategy : Strategies, adjust : Nat, percent : BOOLEAN, minMargin : 0..99,
              roundTo99 : BOOLEAN]

ASSUME PricingAssumption ==
    /\ PriceRules \subseteq PriceRule /\ Prices \subseteq Nat /\ Costs \subseteq Nat
    /\ RivalPrices \subseteq Nat \ {0} /\ MaxPriceCalls \in Nat

VARIABLES
    rule,         \* the store's pricing rule
    goods,        \* per variant: price, compare-at ("was") price or 0, cost
    rivals,       \* per variant: what competitors ask, in stock or not
    repricer,     \* per repricing: where it stands, what it read and has to write
    editing,      \* per edit: where it stands, what it will write
    basis,        \* per variant: what the price a repricing gave it rests on
    crossed,      \* variants repriced, or edited by two at once, since they had no "was" price
    priceCalls    \* calls so far

pricingVars == <<rule, goods, rivals, repricer, editing, basis, crossed, priceCalls>>

Good == [price : Nat, was : Nat, cost : Nat]
Rival == [asks : Nat \ {0}, inStock : BOOLEAN]
NoReprice == [at |-> "free"]
Repricing == [at : {"read"}, rule : PriceRules]
             \cup [at : {"write"}, rule : PriceRules, todo : SUBSET (Priced \X Nat),
                   goods : [Priced -> Good], rivals : [Priced -> SUBSET Rival]]
NoEdit == [at |-> "free"]
Editing == [at : {"write"}, v : Priced, field : {"price", "was"}, to : Nat, clean : BOOLEAN]
NoBasis == [on |-> "none"]
Basis == [on : {"repricing"}, rule : PriceRules, cost : Nat, rivals : SUBSET Rival]

PricingTypeOK ==
    /\ rule \in PriceRules /\ goods \in [Priced -> Good]
    /\ \A v \in Priced : rivals[v] \in SUBSET Rival
    /\ \A h \in Repricers : repricer[h] = NoReprice \/ repricer[h].at \in {"read", "write"}
    /\ editing \in [Editors -> {NoEdit} \cup Editing]
    /\ \A v \in Priced : basis[v] = NoBasis \/ basis[v] \in Basis
    /\ crossed \subseteq Priced /\ priceCalls \in Nat

PricingInit ==
    /\ rule \in PriceRules
    /\ goods \in [Priced -> [price : Prices, was : {0}, cost : Costs]]
    /\ rivals = [v \in Priced |-> {}]
    /\ repricer = [h \in Repricers |-> NoReprice] /\ editing = [e \in Editors |-> NoEdit]
    /\ basis = [v \in Priced |-> NoBasis] /\ crossed = {} /\ priceCalls = 0

PriceCall == priceCalls < MaxPriceCalls /\ priceCalls' = priceCalls + 1

(* Math.round and Math.ceil of a quotient of natural numbers. *)
Nearest(a, b) == (2 * a + b) \div (2 * b)
Ceiling(a, b) == (a + b - 1) \div b
----------------------------------------------------------------------------
(* marginFloor(): the lowest price that leaves the margin; 0 if the cost is unknown. *)
MarginFloor(cost, margin) == IF cost = 0 THEN 0 ELSE Ceiling(cost * 100, 100 - Min({99, margin}))

(* charm(): to the nearest rupee, then .99. *)
Charm(price) == Max({1, Nearest(price, 100)}) * 100 - 1

(* recommend(): what the strategy aims at, *)
Asked(seen) == {r.asks : r \in {x \in seen : x.inStock}}

Target(r, g, seen) ==
    IF r.strategy = "FIXED_MARGIN"
    THEN IF g.cost > 0 THEN MarginFloor(g.cost, r.adjust) ELSE g.price
    ELSE IF Asked(seen) = {} THEN g.price
    ELSE IF r.strategy = "MATCH_LOWEST" THEN Min(Asked(seen))
    ELSE Min(Asked(seen))
         - (IF r.percent THEN Nearest(Min(Asked(seen)) * r.adjust, 100) ELSE r.adjust)

(* kept above the margin floor, then charmed. *)
AboveCost(target, g, r) == Max({1, target, g.cost})
AboveFloorIfAny(target, g, r) == IF g.cost = 0 THEN target ELSE Max({target, MarginFloor(g.cost, r.minMargin)})
AboveFloor(target, g, r) == Max({1, target, MarginFloor(g.cost, r.minMargin)})

Recommend(r, g, seen) ==
    LET price == AboveFloor(Target(r, g, seen), g, r)
    IN  IF r.roundTo99 THEN Charm(price) ELSE price
----------------------------------------------------------------------------
SetRule(r) ==
    /\ r # rule /\ PriceCall
    /\ rule' = r
    /\ UNCHANGED <<goods, rivals, repricer, editing, basis, crossed>>

(* setCost; updateVariant may set it too. *)
SetCost(v, cost) ==
    /\ cost # goods[v].cost /\ PriceCall
    /\ goods' = [goods EXCEPT ![v].cost = cost]
    /\ UNCHANGED <<rule, rivals, repricer, editing, basis, crossed>>

AddCompetitor(v, asks, inStock) ==
    /\ PriceCall
    /\ rivals' = [rivals EXCEPT ![v] = @ \cup {[asks |-> asks, inStock |-> inStock]}]
    /\ UNCHANGED <<rule, goods, repricer, editing, basis, crossed>>

RemoveCompetitor(v, r) ==
    /\ PriceCall
    /\ rivals' = [rivals EXCEPT ![v] = @ \ {r}]
    /\ UNCHANGED <<rule, goods, repricer, editing, basis, crossed>>

(* refreshCompetitors moves every price by up to five percent. *)
Moved(r) == {[r EXCEPT !.asks = Max({1, Nearest(r.asks * f, 100)})] : f \in {95, 100, 105}}

RefreshCompetitors(v) ==
    /\ PriceCall
    /\ \E moved \in [rivals[v] -> UNION {Moved(r) : r \in rivals[v]}] :
          /\ \A r \in rivals[v] : moved[r] \in Moved(r)
          /\ rivals' = [rivals EXCEPT ![v] = {moved[r] : r \in rivals[v]}]
    /\ UNCHANGED <<rule, goods, repricer, editing, basis, crossed>>
----------------------------------------------------------------------------
(* updateVariant reads the variant and compares the price with the "was" price, *)
Accepts(g) == g.was = 0 \/ g.was >= g.price

Edit(e, v, field, to) ==
    /\ editing[e] = NoEdit /\ PriceCall
    /\ Accepts(IF field = "price" THEN [goods[v] EXCEPT !.price = to]
               ELSE [goods[v] EXCEPT !.was = to])
    /\ editing' = [editing EXCEPT ![e] =
                     [at |-> "write", v |-> v, field |-> field, to |-> to, clean |-> TRUE]]
    /\ UNCHANGED <<rule, goods, rivals, repricer, basis, crossed>>

(* Whoever is editing a variant that another one writes has compared old prices. *)
Outdated(v) == [e \in Editors |-> IF editing[e] # NoEdit /\ editing[e].v = v
                                  THEN [editing[e] EXCEPT !.clean = FALSE] ELSE editing[e]]

(* and writes the one field. *)
SaveEdit(e) ==
    LET x == editing[e] IN
    /\ x # NoEdit
    /\ goods' = IF x.field = "price" THEN [goods EXCEPT ![x.v].price = x.to]
                ELSE [goods EXCEPT ![x.v].was = x.to]
    /\ editing' = [Outdated(x.v) EXCEPT ![e] = NoEdit]
    /\ basis' = IF x.field = "price" THEN [basis EXCEPT ![x.v] = NoBasis] ELSE basis
    /\ crossed' = IF goods'[x.v].was = 0 THEN crossed \ {x.v}
                  ELSE IF x.clean THEN crossed ELSE crossed \cup {x.v}
    /\ UNCHANGED <<rule, rivals, repricer, priceCalls>>
----------------------------------------------------------------------------
(* reprice(), with apply: analyze() reads the rule, *)
StartReprice(h) ==
    /\ repricer[h] = NoReprice /\ PriceCall
    /\ repricer' = [repricer EXCEPT ![h] = [at |-> "read", rule |-> rule]]
    /\ UNCHANGED <<rule, goods, rivals, editing, basis, crossed>>

(* then the variants and their competitors; only changed prices are written, *)
Analyze(h) ==
    /\ repricer[h] # NoReprice /\ repricer[h].at = "read"
    /\ LET r == repricer[h].rule
           new(v) == Recommend(r, goods[v], rivals[v])
       IN  repricer' = [repricer EXCEPT ![h] =
             [at |-> "write", rule |-> r, goods |-> goods, rivals |-> rivals,
              todo |-> {<<v, new(v)>> : v \in {x \in Priced : new(x) # goods[x].price}}]]
    /\ UNCHANGED <<rule, goods, rivals, editing, basis, crossed, priceCalls>>

(* one after the other, whatever has happened to them since. *)
WritePrice(h) ==
    /\ repricer[h] # NoReprice /\ repricer[h].at = "write"
    /\ \E c \in repricer[h].todo :
          LET v == c[1] IN
          /\ goods' = [goods EXCEPT ![v].price = c[2]]
          /\ basis' = [basis EXCEPT ![v] =
                         [on |-> "repricing", rule |-> repricer[h].rule,
                          cost |-> repricer[h].goods[v].cost, rivals |-> repricer[h].rivals[v]]]
          /\ editing' = Outdated(v)
          /\ crossed' = IF goods[v].was = 0 THEN crossed ELSE crossed \cup {v}
          /\ repricer' = [repricer EXCEPT ![h].todo = @ \ {c}]
    /\ UNCHANGED <<rule, rivals, priceCalls>>

EndReprice(h) ==
    /\ repricer[h] # NoReprice /\ repricer[h].at = "write" /\ repricer[h].todo = {}
    /\ repricer' = [repricer EXCEPT ![h] = NoReprice]
    /\ UNCHANGED <<rule, goods, rivals, editing, basis, crossed, priceCalls>>
----------------------------------------------------------------------------
PricingNext ==
    \/ \E r \in PriceRules : SetRule(r)
    \/ \E v \in Priced :
          \/ RefreshCompetitors(v)
          \/ \E c \in Costs : SetCost(v, c)
          \/ \E p \in RivalPrices, b \in BOOLEAN : AddCompetitor(v, p, b)
          \/ \E r \in rivals[v] : RemoveCompetitor(v, r)
          \/ \E e \in Editors, f \in {"price", "was"}, p \in Prices : Edit(e, v, f, p)
    \/ \E e \in Editors : SaveEdit(e)
    \/ \E h \in Repricers : StartReprice(h) \/ Analyze(h) \/ WritePrice(h) \/ EndReprice(h)

PricingSpec == PricingInit /\ [][PricingNext]_pricingVars
----------------------------------------------------------------------------
(* "The margin floor is always honored": a price that a repricing wrote leaves the
   minimum margin as long as the cost and the margin are those it has read, up to
   the half rupee that charm pricing may take off. *)
MarginFloorHonored ==
    \A v \in Priced :
       (basis[v] # NoBasis /\ basis[v].cost = goods[v].cost /\ basis[v].rule = rule) =>
          goods[v].price >= MarginFloor(goods[v].cost, rule.minMargin)
                            - (IF rule.roundTo99 THEN 50 ELSE 0)

(* Repricing settles: as long as the rule, the cost and the competitors are those a
   price rests on, another repricing would leave that price alone, even if the
   analysis it came from was made of an older price. *)
RepricingSettles ==
    \A v \in Priced :
       (basis[v] # NoBasis /\ basis[v].cost = goods[v].cost /\ basis[v].rule = rule
          /\ basis[v].rivals = rivals[v]) =>
          Recommend(rule, goods[v], rivals[v]) = goods[v].price

(* "The 'was' price must be at least the selling price": it is, unless the variant
   was repriced meanwhile, which never looks at it, or edited by two at once. *)
WasPriceAbovePrice ==
    \A v \in Priced \ crossed : goods[v].was = 0 \/ goods[v].was >= goods[v].price

(* The prices of a store keep to its margin, to its rule and to the "was" price. *)
PricesKeepTheirRules == MarginFloorHonored /\ RepricingSettles /\ WasPriceAbovePrice
============================================================================
