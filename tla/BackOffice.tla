----------------------------- MODULE BackOffice -----------------------------
(***************************************************************************)
(* What people do behind the counter, each part among its own concurrent   *)
(* requests: the team's roles, a support conversation, charging and        *)
(* invoicing, importing history, repricing, a page experiment.  The parts  *)
(* share no state that matters to these properties, so a behaviour shows   *)
(* one of them, its `scene`, and the others stand still.                   *)
(***************************************************************************)
EXTENDS Team, SupportDesk, Invoices, HistoryImport, Repricing, Experiments

VARIABLE scene   \* the part that a behaviour shows; it never changes

backVars == <<scene, teamVars, supportVars, invoiceVars, importVars, pricingVars, experimentVars>>

Scenes == {"team", "support", "invoices", "import", "pricing", "experiment"}

BackOfficeTypeOK ==
    /\ scene \in Scenes
    /\ TeamTypeOK /\ SupportTypeOK /\ InvoiceTypeOK
    /\ ImportTypeOK /\ PricingTypeOK /\ ExperimentTypeOK

(* The parts that stand still do so in one of their initial states. *)
SetAside ==
    /\ scene # "team" => ~platform /\ rank[CHOOSE u \in Users : TRUE] = Top
    /\ scene # "support" => maxRebuttals = CHOOSE n \in Caps : TRUE
    /\ scene # "invoices" => settings = CHOOSE row \in CheckoutRows : TRUE
    /\ scene # "pricing" =>
          /\ rule = CHOOSE r \in PriceRules : TRUE
          /\ \A v \in Priced : goods[v] = [price |-> CHOOSE p \in Prices : TRUE, was |-> 0,
                                           cost |-> CHOOSE c \in Costs : TRUE]
    /\ scene # "experiment" =>
          /\ livePage = CHOOSE c \in Contents : TRUE
          /\ arms[ControlArm].weight = CHOOSE w \in Weights : TRUE

BackOfficeInit ==
    /\ scene \in Scenes
    /\ TeamInit /\ SupportInit /\ InvoiceInit /\ ImportInit /\ PricingInit /\ ExperimentInit
    /\ SetAside
----------------------------------------------------------------------------
TeamScene ==
    /\ scene = "team" /\ TeamNext
    /\ UNCHANGED <<scene, supportVars, invoiceVars, importVars, pricingVars, experimentVars>>

SupportScene ==
    /\ scene = "support" /\ SupportNext
    /\ UNCHANGED <<scene, teamVars, invoiceVars, importVars, pricingVars, experimentVars>>

InvoiceScene ==
    /\ scene = "invoices" /\ InvoiceNext
    /\ UNCHANGED <<scene, teamVars, supportVars, importVars, pricingVars, experimentVars>>

ImportScene ==
    /\ scene = "import" /\ ImportNext
    /\ UNCHANGED <<scene, teamVars, supportVars, invoiceVars, pricingVars, experimentVars>>

PricingScene ==
    /\ scene = "pricing" /\ PricingNext
    /\ UNCHANGED <<scene, teamVars, supportVars, invoiceVars, importVars, experimentVars>>

ExperimentScene ==
    /\ scene = "experiment" /\ ExperimentNext
    /\ UNCHANGED <<scene, teamVars, supportVars, invoiceVars, importVars, pricingVars>>

BackOfficeNext ==
    \/ TeamScene \/ SupportScene \/ InvoiceScene
    \/ ImportScene \/ PricingScene \/ ExperimentScene

BackOfficeSpec == BackOfficeInit /\ [][BackOfficeNext]_backVars
============================================================================
