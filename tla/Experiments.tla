----------------------------- MODULE Experiments -----------------------------
(***************************************************************************)
(* One storefront experiment (ExperimentService): the variants of a page   *)
(* among which visitors are split by weight, and the promotion of one of   *)
(* them, which rewrites the live page, then the theme, and only then ends  *)
(* the experiment, while merchants edit the page and the variants.         *)
(***************************************************************************)
EXTENDS Integers, FiniteSetsExt

CONSTANTS
    Arms,            \* identifiers of variants, in the order of their ids
    ControlArm,      \* the variant an experiment starts with
    Weights,         \* weights a merchant may give
    Contents,        \* contents of a page
    Promoters,       \* handlers that promote or set the status
    MaxTrials        \* bound: calls of merchants, and promotions that die

ASSUME ExperimentAssumption ==
    /\ Arms \subseteq Nat /\ ControlArm \in Arms
    /\ Weights \subseteq Int /\ MaxTrials \in Nat

VARIABLES
    status,       \* of the experiment
    arms,         \* its variants: their weights and contents
    winner,       \* winningVariantId, 0 if none
    livePage,     \* the content of the published page
    liveTheme,    \* the content the theme goes with
    promoter,     \* per handler: where it stands, what it has read
    edited,       \* has anything else written the page, a variant or the experiment meanwhile?
    shrunk,       \* has a variant been removed since the variants were counted?
    trials        \* calls so far

experimentVars == <<status, arms, winner, livePage, liveTheme, promoter, edited, shrunk, trials>>

Statuses == {"DRAFT", "RUNNING", "PAUSED", "ENDED"}
Arm == [weight : Weights, content : Contents, themed : BOOLEAN]   \* themed: it has a theme of its own
NoPromotion == [at |-> "free"]
Promotion == [at : {"page", "theme", "end"}, arm : Arms, content : Contents, themed : BOOLEAN]
             \cup [at : {"status"}, to : Statuses]

ExperimentTypeOK ==
    /\ status \in Statuses /\ winner \in Arms \cup {0}
    /\ ControlArm \in DOMAIN arms /\ DOMAIN arms \subseteq Arms
    /\ \A a \in DOMAIN arms : arms[a] \in Arm
    /\ livePage \in Contents /\ liveTheme \in Contents
    /\ promoter \in [Promoters -> {NoPromotion} \cup Promotion]
    /\ edited \in BOOLEAN /\ shrunk \in BOOLEAN /\ trials \in Nat

(* create(): the control is cloned from the live page. *)
ExperimentInit ==
    /\ status = "DRAFT" /\ winner = 0
    /\ livePage \in Contents /\ liveTheme = livePage
    /\ \E w \in Weights :
          arms = [a \in {ControlArm} |-> [weight |-> w, content |-> livePage, themed |-> FALSE]]
    /\ promoter = [h \in Promoters |-> NoPromotion]
    /\ edited = FALSE /\ shrunk = FALSE /\ trials = 0

Trial == trials < MaxTrials /\ trials' = trials + 1
Promoting == \E h \in Promoters : promoter[h].at \in {"page", "theme", "end"}
----------------------------------------------------------------------------
(* addVariant, updateVariant and removeVariant look at no status. *)
PutVariant(a, arm) ==
    /\ \A b \in Arms : b < a => b \in DOMAIN arms      \* a new one gets the next identifier
    /\ Trial
    /\ arms' = [b \in DOMAIN arms \cup {a} |-> IF b = a THEN arm ELSE arms[b]]
    /\ edited' = (edited \/ Promoting \/ a = winner)
    /\ UNCHANGED <<status, winner, livePage, liveTheme, promoter, shrunk>>

RemoveVariant(a) ==
    /\ a \in DOMAIN arms \ {ControlArm} /\ Trial
    /\ arms' = [b \in DOMAIN arms \ {a} |-> arms[b]]
    /\ shrunk' = TRUE
    /\ edited' = (edited \/ Promoting \/ a = winner)
    /\ UNCHANGED <<status, winner, livePage, liveTheme, promoter>>

(* The merchant edits the page, and the theme. *)
EditPage(c) ==
    /\ c # livePage /\ Trial
    /\ livePage' = c
    /\ edited' = TRUE
    /\ UNCHANGED <<status, arms, winner, liveTheme, promoter, shrunk>>

EditTheme(c) ==
    /\ c # liveTheme /\ Trial
    /\ liveTheme' = c
    /\ edited' = TRUE
    /\ UNCHANGED <<status, arms, winner, livePage, promoter, shrunk>>

(* setStatus: the variants are counted, *)
MayStart(s) == s = "RUNNING" => Cardinality(DOMAIN arms) >= 2

AskStatus(h, s) ==
    /\ promoter[h] = NoPromotion /\ s # status /\ Trial
    /\ MayStart(s)
    /\ promoter' = [promoter EXCEPT ![h] = [at |-> "status", to |-> s]]
    /\ shrunk' = (shrunk /\ s # "RUNNING")
    /\ UNCHANGED <<status, arms, winner, livePage, liveTheme, edited>>

(* and the status is written. *)
WriteStatus(h) ==
    /\ promoter[h].at = "status"
    /\ status' = promoter[h].to
    /\ edited' = (edited \/ Promoting)
    /\ promoter' = [promoter EXCEPT ![h] = NoPromotion]
    /\ UNCHANGED <<arms, winner, livePage, liveTheme, shrunk, trials>>
----------------------------------------------------------------------------
(* promoteWinner: the variant is read; *)
Promote(h, a) ==
    /\ promoter[h] = NoPromotion /\ a \in DOMAIN arms /\ Trial
    /\ promoter' = [promoter EXCEPT ![h] =
                      [at |-> "page", arm |-> a, content |-> arms[a].content,
                       themed |-> arms[a].themed]]
    /\ edited' = Promoting
    /\ UNCHANGED <<status, arms, winner, livePage, liveTheme, shrunk>>

(* its sections become the live page, *)
NextStepEnds(p) == "end"
NextStep(p) == IF p.themed THEN "theme" ELSE "end"

WritePage(h) ==
    /\ promoter[h].at = "page"
    /\ livePage' = promoter[h].content
    /\ promoter' = [promoter EXCEPT ![h].at = NextStep(promoter[h])]
    /\ UNCHANGED <<status, arms, winner, liveTheme, edited, shrunk, trials>>

(* its theme the live theme, *)
WriteTheme(h) ==
    /\ promoter[h].at = "theme"
    /\ liveTheme' = promoter[h].content
    /\ promoter' = [promoter EXCEPT ![h].at = "end"]
    /\ UNCHANGED <<status, arms, winner, livePage, edited, shrunk, trials>>

(* and the experiment ends. *)
EndExperiment(h) ==
    /\ promoter[h].at = "end"
    /\ status' = "ENDED" /\ winner' = promoter[h].arm
    /\ promoter' = [promoter EXCEPT ![h] = NoPromotion]
    /\ UNCHANGED <<arms, livePage, liveTheme, edited, shrunk, trials>>

(* A write that fails leaves the rest undone. *)
PromotionFails(h) ==
    /\ promoter[h].at \in {"page", "theme", "end"} /\ Trial
    /\ edited' = TRUE
    /\ promoter' = [promoter EXCEPT ![h] = NoPromotion]
    /\ UNCHANGED <<status, arms, winner, livePage, liveTheme, shrunk>>
----------------------------------------------------------------------------
(* pickSplit: a visitor's bucket of a hundred, scaled to the total weight, is used
   up by the variants in order; one without weight counts as an average one.
   Amounts are multiplied by a hundred times the number of variants. *)
Weighty == [a \in DOMAIN arms |-> Max({0, arms[a].weight})]
TotalWeight == LET sum == SumFunction(Weighty)
               IN  IF sum = 0 THEN Cardinality(DOMAIN arms) ELSE sum
Width == [a \in DOMAIN arms |->
            100 * (IF Weighty[a] > 0 THEN Weighty[a] * Cardinality(DOMAIN arms) ELSE TotalWeight)]

Buckets == 0..99
UsedUp(amount, width) == amount < width

(* The buckets that are used up by a and those before it, and those that are a's. *)
Within(a) == LET scale == TotalWeight * Cardinality(DOMAIN arms)
                 width == SumFunctionOnSet(Width, {b \in DOMAIN arms : b <= a})
             IN  {b \in Buckets : UsedUp(b * scale, width)}
ShareOf(a) == Cardinality(Within(a) \ UNION {Within(b) : b \in {c \in DOMAIN arms : c < a}})
----------------------------------------------------------------------------
ExperimentNext ==
    \/ \E a \in Arms :
          \/ RemoveVariant(a)
          \/ \E arm \in Arm : PutVariant(a, arm)
          \/ \E h \in Promoters : Promote(h, a)
    \/ \E c \in Contents : EditPage(c) \/ EditTheme(c)
    \/ \E h \in Promoters :
          \/ WriteStatus(h) \/ WritePage(h) \/ WriteTheme(h) \/ EndExperiment(h) \/ PromotionFails(h)
          \/ \E s \in Statuses : AskStatus(h, s)

ExperimentSpec == ExperimentInit /\ [][ExperimentNext]_experimentVars
----------------------------------------------------------------------------
(* Visitors are split in proportion to the weights, to less than one of a hundred
   buckets, whichever variants come and go, as long as each has a weight. *)
SplitFollowsWeights ==
    (\A a \in DOMAIN arms : arms[a].weight > 0) =>
       \A a \in DOMAIN arms :
          LET off == ShareOf(a) * TotalWeight - 100 * arms[a].weight
          IN  -TotalWeight < off /\ off < TotalWeight

(* An experiment that ended with a winner shows it: the live page is the winner's,
   and the theme, if the winner has one, unless someone wrote them, the variant or
   the experiment meanwhile, or another promotion overlapped or died half-way. *)
WinnerIsLive ==
    (status = "ENDED" /\ winner # 0 /\ ~edited /\ ~Promoting) =>
       /\ livePage = arms[winner].content
       /\ arms[winner].themed => liveTheme = arms[winner].content

(* "Add at least one variant beyond Control before running": a running experiment
   compares two variants at least, unless one was removed since they were counted. *)
RunningHasChallenger == (status = "RUNNING" /\ ~shrunk) => Cardinality(DOMAIN arms) >= 2

(* An experiment splits as set, compares two variants, and ends with its winner live. *)
ExperimentsAreFair == SplitFollowsWeights /\ WinnerIsLive /\ RunningHasChallenger
============================================================================
