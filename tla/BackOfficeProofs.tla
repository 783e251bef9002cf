--------------------------- MODULE BackOfficeProofs ---------------------------
(***************************************************************************)
(* Proofs about the parts of BackOffice, for any number of people, orders, *)
(* rows, prices and variants, and about the parts taken together: the      *)
(* team's roles, the support conversation, charging and invoicing, the     *)
(* import of history, repricing, experiments.  Each part has an inductive  *)
(* invariant of its own, stated before the lemmas about its actions.       *)
(***************************************************************************)
EXTENDS BackOffice, FiniteSetTheorems, Sums, TLAPS

----------------------------------------------------------------------------
(* The team. TopRoleIsHeld is not inductive: it needs what a handler between its
   count and its write knows (CountsHold). *)

Demotes(u, to) == rank[u] = Top /\ to # Top

(* A handler whose count nobody has overtaken is right about it. *)
CountsHold ==
    \A h \in TeamRequests :
        pending[h].at = "write" /\ pending[h].valid => \E v \in Users : v # pending[h].u /\ rank[v] = Top

TeamInv == TeamTypeOK /\ CountsHold /\ TopRoleIsHeld

LEMMA RecordsOfHandlers ==
    ASSUME TeamTypeOK, NEW h \in TeamRequests
    PROVE  /\ pending[h].at = "free" => pending[h] = NoRequest
           /\ pending[h].at = "join" => pending[h] \in Joining /\ pending[h].i.for \in Users
                                        /\ pending[h].i.to \in Ranks
           /\ pending[h].at \in {"count", "write"} =>
                 pending[h] \in Changing /\ pending[h].u \in Users /\ pending[h].to \in 0..Top
  BY DEF TeamTypeOK, NoRequest, Changing, Joining, Invitation

LEMMA OvertakesType ==
    ASSUME TeamTypeOK, NEW h \in TeamRequests, NEW u, NEW to
    PROVE  Overtakes(h, u, to) \in [TeamRequests -> {NoRequest} \cup Changing \cup Joining]
<1> SUFFICES ASSUME NEW g \in TeamRequests
             PROVE  Overtakes(h, u, to)[g] \in {NoRequest} \cup Changing \cup Joining
    BY DEF Overtakes
<1>1. CASE g = h BY <1>1 DEF Overtakes
<1>2. CASE g # h /\ pending[g].at = "write" /\ Demotes(u, to)
  <2>1. pending[g] \in Changing BY <1>2, RecordsOfHandlers
  <2>2. [pending[g] EXCEPT !.valid = FALSE] \in Changing BY <2>1 DEF Changing
  <2> QED BY <1>2, <2>2 DEF Overtakes, Demotes
<1>3. CASE g # h /\ ~(pending[g].at = "write" /\ Demotes(u, to))
  BY <1>3 DEF Overtakes, Demotes, TeamTypeOK
<1> QED BY <1>1, <1>2, <1>3

(* A new rank for u, written by h: counts that hold stay valid only if they
   still hold. *)
LEMMA OvertakenCountsHold ==
    ASSUME TeamTypeOK, CountsHold, NEW h \in TeamRequests, NEW u \in Users, NEW to,
           rank' = [rank EXCEPT ![u] = to], pending' = Overtakes(h, u, to)
    PROVE  CountsHold'
<1> SUFFICES ASSUME NEW g \in TeamRequests, pending'[g].at = "write", pending'[g].valid
             PROVE  \E v \in Users : v # pending'[g].u /\ rank'[v] = Top
    BY DEF CountsHold
<1>1. g # h BY DEF Overtakes, NoRequest
<1>2. ~(pending[g].at = "write" /\ Demotes(u, to))
  <2> SUFFICES ASSUME pending[g].at = "write", Demotes(u, to) PROVE FALSE
    OBVIOUS
  <2>1. pending[g] \in Changing BY RecordsOfHandlers
  <2>2. pending'[g] = [pending[g] EXCEPT !.valid = FALSE] BY <1>1 DEF Overtakes, Demotes
  <2> QED BY <2>1, <2>2 DEF Changing
<1>3. pending'[g] = pending[g] BY <1>1, <1>2 DEF Overtakes, Demotes
<1>4. PICK v \in Users : v # pending[g].u /\ rank[v] = Top BY <1>3 DEF CountsHold
<1>5. ~Demotes(u, to) BY <1>2, <1>3
<1>6. rank'[v] = Top BY <1>4, <1>5 DEF Demotes, TeamTypeOK
<1> QED BY <1>3, <1>4, <1>6

(* If nobody is demoted, whoever held the top role still does. *)
LEMMA HoldersStay ==
    ASSUME TeamTypeOK, TopRoleIsHeld, NEW u \in Users, NEW to, ~Demotes(u, to),
           rank' = [rank EXCEPT ![u] = to], slips = {}
    PROVE  \E v \in Users : rank'[v] = Top
<1>1. PICK v \in Users : rank[v] = Top BY DEF TopRoleIsHeld
<1> QED BY <1>1 DEF Demotes, TeamTypeOK

LEMMA InviteKeeps ==
    ASSUME TeamInv, NEW u \in Users, NEW to \in Ranks, Invite(u, to)
    PROVE  TeamInv'
<1> USE DEF TeamInv, Invite
<1>1. TeamTypeOK' BY DEF TeamTypeOK, CallsTeam, Ranks, Top, Invitation
<1>2. CASE platform
  <2>1. ~Demotes(u, to) BY DEF Demotes, Top
  <2>2. rank' = [rank EXCEPT ![u] = to] /\ pending' = pending /\ slips' = slips BY <1>2
  <2>3. \A v \in Users : rank[v] = Top => rank'[v] = Top BY <2>2, <2>1 DEF TeamTypeOK, Demotes
  <2>4. CountsHold' BY <2>2, <2>3 DEF CountsHold
  <2>5. TopRoleIsHeld' BY <2>2, <2>3 DEF TopRoleIsHeld
  <2> QED BY <1>1, <2>4, <2>5
<1>3. CASE ~platform BY <1>1, <1>3 DEF CountsHold, TopRoleIsHeld
<1> QED BY <1>2, <1>3

LEMMA RevokeInviteKeeps ==
    ASSUME TeamInv, NEW i, RevokeInvite(i)
    PROVE  TeamInv'
  BY DEF TeamInv, RevokeInvite, TeamTypeOK, CallsTeam, CountsHold, TopRoleIsHeld

LEMMA ReadInviteKeeps ==
    ASSUME TeamInv, NEW h \in TeamRequests, NEW i \in invites, ReadInvite(h, i)
    PROVE  TeamInv'
<1> USE DEF TeamInv, ReadInvite
<1>1. [at |-> "join", i |-> i] \in Joining BY DEF Joining, TeamTypeOK
<1>2. TeamTypeOK' BY <1>1 DEF TeamTypeOK, CallsTeam
<1>3. CountsHold' BY DEF CountsHold, TeamTypeOK
<1> QED BY <1>2, <1>3 DEF TopRoleIsHeld

LEMMA JoinKeeps ==
    ASSUME TeamInv, NEW h \in TeamRequests, Join(h)
    PROVE  TeamInv'
<1> DEFINE u == pending[h].i.for
           to == pending[h].i.to
<1>1. u \in Users /\ to \in Ranks BY RecordsOfHandlers DEF TeamInv, Join
<1>2. /\ rank' = [rank EXCEPT ![u] = to]
      /\ pending' = Overtakes(h, u, to)
      /\ slips' = IF Demotes(u, to) THEN slips \cup {"invited"} ELSE slips
      /\ invites' = invites \ {pending[h].i}
      /\ UNCHANGED <<platform, teamCalls>>
    BY DEF Join, Demotes
<1> HIDE DEF u, to
<1>3. pending' \in [TeamRequests -> {NoRequest} \cup Changing \cup Joining]
  BY <1>2, OvertakesType DEF TeamInv
<1>4. rank' \in [Users -> 0..Top] BY <1>1, <1>2 DEF TeamInv, TeamTypeOK, Ranks, Top
<1>5. TeamTypeOK' BY <1>2, <1>3, <1>4 DEF TeamInv, TeamTypeOK
<1>6. CountsHold' BY <1>1, <1>2, OvertakenCountsHold DEF TeamInv
<1>7. TopRoleIsHeld'
  <2> SUFFICES ASSUME slips' = {} PROVE \E v \in Users : rank'[v] = Top
    BY DEF TopRoleIsHeld
  <2>1. ~Demotes(u, to) /\ slips = {} BY <1>2
  <2> QED BY <1>1, <1>2, <2>1, HoldersStay DEF TeamInv
<1> QED BY <1>5, <1>6, <1>7 DEF TeamInv

LEMMA AskKeeps ==
    ASSUME TeamInv, NEW h \in TeamRequests, NEW u \in Users, NEW to \in 0..Top, Ask(h, u, to)
    PROVE  TeamInv'
<1> DEFINE p == [at |-> IF rank[u] = Top /\ to # Top THEN "count" ELSE "write",
                 u |-> u, to |-> to, counted |-> FALSE, valid |-> FALSE]
<1>1. p \in Changing BY DEF Changing
<1>2. pending' = [pending EXCEPT ![h] = p] /\ UNCHANGED <<platform, rank, invites, slips>>
  BY DEF Ask
<1>3. TeamTypeOK' BY <1>1, <1>2 DEF TeamInv, TeamTypeOK, Ask, CallsTeam
<1>4. CountsHold'
  <2> SUFFICES ASSUME NEW g \in TeamRequests, pending'[g].at = "write", pending'[g].valid
               PROVE  \E v \in Users : v # pending'[g].u /\ rank'[v] = Top
    BY DEF CountsHold
  <2>1. g # h BY <1>2 DEF TeamInv, TeamTypeOK
  <2>2. pending'[g] = pending[g] BY <1>2, <2>1 DEF TeamInv, TeamTypeOK
  <2> QED BY <1>2, <2>2 DEF TeamInv, CountsHold
<1>5. TopRoleIsHeld' BY <1>2 DEF TeamInv, TopRoleIsHeld
<1> QED BY <1>3, <1>4, <1>5 DEF TeamInv

LEMMA CountTopKeeps ==
    ASSUME TeamInv, NEW h \in TeamRequests, CountTop(h)
    PROVE  TeamInv'
<1> DEFINE q == [pending[h] EXCEPT !.at = "write", !.counted = TRUE, !.valid = TRUE]
<1>1. pending[h] \in Changing BY RecordsOfHandlers DEF TeamInv, CountTop
<1>2. q \in Changing /\ q.u = pending[h].u BY <1>1 DEF Changing
<1>3. /\ pending' = [pending EXCEPT ![h] = IF OthersThan(pending[h].u) = {} THEN NoRequest ELSE q]
      /\ UNCHANGED <<platform, rank, invites, slips, teamCalls>>
  BY DEF CountTop, TeamInv, TeamTypeOK
<1> HIDE DEF q
<1>4. TeamTypeOK' BY <1>2, <1>3 DEF TeamInv, TeamTypeOK
<1>5. CountsHold'
  <2> SUFFICES ASSUME NEW g \in TeamRequests, pending'[g].at = "write", pending'[g].valid
               PROVE  \E v \in Users : v # pending'[g].u /\ rank'[v] = Top
    BY DEF CountsHold
  <2>1. CASE g # h
    <3>1. pending'[g] = pending[g] BY <1>3, <2>1 DEF TeamInv, TeamTypeOK
    <3> QED BY <1>3, <3>1 DEF TeamInv, CountsHold
  <2>2. CASE g = h
    <3>1. pending'[h] = IF OthersThan(pending[h].u) = {} THEN NoRequest ELSE q
      BY <1>3 DEF TeamInv, TeamTypeOK
    <3>2. OthersThan(pending[h].u) # {} /\ pending'[h] = q BY <2>2, <3>1 DEF NoRequest
    <3>3. PICK v \in Users : v # pending[h].u /\ rank[v] = Top BY <3>2 DEF OthersThan
    <3> QED BY <1>2, <1>3, <2>2, <3>2, <3>3
  <2> QED BY <2>1, <2>2
<1>6. TopRoleIsHeld' BY <1>3 DEF TeamInv, TopRoleIsHeld
<1> QED BY <1>4, <1>5, <1>6 DEF TeamInv

LEMMA WriteRankKeeps ==
    ASSUME TeamInv, NEW h \in TeamRequests, WriteRank(h)
    PROVE  TeamInv'
<1> DEFINE u == pending[h].u
           to == pending[h].to
<1>1. pending[h] \in Changing /\ u \in Users /\ to \in 0..Top
  BY RecordsOfHandlers DEF TeamInv, WriteRank
<1>2. /\ pending[h].at = "write"
      /\ rank' = IF rank[u] = 0 THEN rank ELSE [rank EXCEPT ![u] = to]
      /\ pending' = Overtakes(h, u, to)
      /\ slips' = IF ~Demotes(u, to) \/ pending[h].valid THEN slips
                  ELSE slips \cup {IF pending[h].counted THEN "overtaken" ELSE "unchecked"}
      /\ UNCHANGED <<platform, invites, teamCalls>>
  BY DEF WriteRank, Demotes
<1>a. pending[h].valid \in BOOLEAN BY <1>1 DEF Changing
<1> HIDE DEF u, to
<1>3. pending' \in [TeamRequests -> {NoRequest} \cup Changing \cup Joining]
  BY <1>2, OvertakesType DEF TeamInv
<1>4. rank' \in [Users -> 0..Top] BY <1>1, <1>2 DEF TeamInv, TeamTypeOK
<1>5. slips' \subseteq {"unchecked", "overtaken", "invited"} BY <1>2 DEF TeamInv, TeamTypeOK
<1>6. TeamTypeOK' BY <1>2, <1>3, <1>4, <1>5 DEF TeamInv, TeamTypeOK
<1>7. CASE rank[u] = 0     \* the member is gone: the write fails
  <2>1. rank' = [rank EXCEPT ![u] = rank[u]] BY <1>1, <1>2, <1>7 DEF TeamInv, TeamTypeOK
  <2>2. ~Demotes(u, to) /\ ~Demotes(u, rank[u]) BY <1>7 DEF Demotes, Top
  <2>3. pending' = Overtakes(h, u, rank[u]) BY <1>2, <2>2 DEF Overtakes, Demotes
  <2>4. CountsHold' BY <1>1, <2>1, <2>3, OvertakenCountsHold DEF TeamInv
  <2>5. TopRoleIsHeld' BY <1>2, <1>7, <2>2 DEF TeamInv, TopRoleIsHeld
  <2> QED BY <1>6, <2>4, <2>5 DEF TeamInv
<1>8. CASE rank[u] # 0
  <2>1. rank' = [rank EXCEPT ![u] = to] BY <1>2, <1>8
  <2>2. CountsHold' BY <1>1, <1>2, <2>1, OvertakenCountsHold DEF TeamInv
  <2>3. TopRoleIsHeld'
    <3> SUFFICES ASSUME slips' = {} PROVE \E v \in Users : rank'[v] = Top
      BY DEF TopRoleIsHeld
    <3>1. slips = {} BY <1>2
    <3>2. CASE ~Demotes(u, to) BY <1>1, <2>1, <3>1, <3>2, HoldersStay DEF TeamInv
    <3>3. CASE Demotes(u, to)     \* the count has not been overtaken
      <4>1. pending[h].valid BY <1>2, <3>3
      <4>2. PICK v \in Users : v # u /\ rank[v] = Top
        BY <1>2, <4>1 DEF TeamInv, CountsHold, u
      <4> QED BY <2>1, <4>2 DEF TeamInv, TeamTypeOK
    <3> QED BY <3>2, <3>3
  <2> QED BY <1>6, <2>2, <2>3 DEF TeamInv
<1> QED BY <1>7, <1>8

LEMMA TeamInitInv ==
    ASSUME TeamInit
    PROVE  TeamInv
<1>1. PICK u \in Users : rank = [v \in Users |-> IF v = u THEN Top ELSE 0] BY DEF TeamInit
<1>2. rank \in [Users -> 0..Top] /\ rank[u] = Top BY <1>1 DEF Top
<1>3. TeamTypeOK BY <1>2 DEF TeamInit, TeamTypeOK
<1>4. CountsHold BY DEF TeamInit, CountsHold, NoRequest
<1> QED BY <1>2, <1>3, <1>4 DEF TeamInv, TopRoleIsHeld

LEMMA TeamStep == TeamInv /\ [TeamNext]_teamVars => TeamInv'
<1> SUFFICES ASSUME TeamInv, [TeamNext]_teamVars PROVE TeamInv'
    OBVIOUS
<1>1. ASSUME NEW u \in Users, NEW to \in Ranks, Invite(u, to) PROVE TeamInv' BY <1>1, InviteKeeps
<1>2. ASSUME NEW i \in invites, RevokeInvite(i) PROVE TeamInv' BY <1>2, RevokeInviteKeeps
<1>3. ASSUME NEW h \in TeamRequests, Join(h) PROVE TeamInv' BY <1>3, JoinKeeps
<1>4. ASSUME NEW h \in TeamRequests, CountTop(h) PROVE TeamInv' BY <1>4, CountTopKeeps
<1>5. ASSUME NEW h \in TeamRequests, WriteRank(h) PROVE TeamInv' BY <1>5, WriteRankKeeps
<1>6. ASSUME NEW h \in TeamRequests, NEW i \in invites, ReadInvite(h, i) PROVE TeamInv'
  BY <1>6, ReadInviteKeeps
<1>7. ASSUME NEW h \in TeamRequests, NEW u \in Users, NEW to \in 0..Top, Ask(h, u, to) PROVE TeamInv'
  BY <1>7, AskKeeps
<1>8. ASSUME UNCHANGED teamVars PROVE TeamInv'
  BY <1>8 DEF TeamInv, TeamTypeOK, CountsHold, TopRoleIsHeld, teamVars
<1> QED BY <1>1, <1>2, <1>3, <1>4, <1>5, <1>6, <1>7, <1>8 DEF TeamNext

LEMMA TeamInvariant == TeamSpec => []TeamInv
<1> QED BY TeamInitInv, TeamStep, PTL DEF TeamSpec

(* Users, invitations and handlers keep their shape whatever is asked. *)
THEOREM TeamType == TeamSpec => []TeamTypeOK
<1>1. TeamInv => TeamTypeOK BY DEF TeamInv
<1> QED BY <1>1, TeamInvariant, PTL

(* A workspace keeps an owner, and the platform a super admin, for any number of
   people and of overlapping requests, unless a write takes the top role on a
   count that was overtaken, without one, or as an old invitation
   (MemberService.assertNotLastOwner, PlatformAuthService.assertNotLastSuperAdmin). *)
THEOREM TopRoleHeld == TeamSpec => []TopRoleIsHeld
<1>1. TeamInv => TopRoleIsHeld BY DEF TeamInv
<1> QED BY <1>1, TeamInvariant, PTL
----------------------------------------------------------------------------
(* The support desk. *)

(* Chats that are about to alert the owner, those that still may, and those whose
   pushback is not saved yet. *)
MayAlert(c) == c.at = "alert" \/ (c.at \in {"answer", "save"} /\ c.saw # "ESCALATED")
Uncounted(c) == c.at \in {"answer", "save"} /\ c.pushy
Alerting == {h \in Chats : chat[h].at = "alert"}
Doubtful == {h \in Chats : MayAlert(chat[h])}
Unsaved == {h \in Chats : Uncounted(chat[h])}

(* However chats overlap, each alerts once for what it read: those under way when
   the conversation was escalated, and those under way when it was last open. *)
AlertsBounded ==
    /\ talk.status # "ESCALATED" => told + Cardinality(Alerting) <= Cardinality(Chats)
    /\ talk.status = "ESCALATED" => told + Cardinality(Doubtful) <= 2 * Cardinality(Chats)

OneAboutTo == told = 0 /\ \E h \in Chats : Alerting = {h}

OneAlert ==
    ~mixed /\ ~byHand =>
       /\ talk.status \in {"OPEN", "ESCALATED"}
       /\ talk.status = "OPEN" => told = 0 /\ Alerting = {}
       /\ talk.status = "ESCALATED" => handed /\ ((told = 1 /\ Alerting = {}) \/ OneAboutTo)

ChatCounts(c) ==
    /\ c.at \in {"answer", "save"} => c.counted = c.base + (IF c.pushy THEN 1 ELSE 0)
    /\ c.at = "save" /\ AtCap(c) => c.escalates

PushbackCounted == ~mixed => pushback = talk.rebuttals + Cardinality(Unsaved)
BelowCap == ~mixed /\ ~byHand /\ ~handed => talk.rebuttals < HighestRebuttals

SupportInv ==
    /\ AlertsBounded /\ OneAlert /\ PushbackCounted /\ BelowCap
    /\ \A h \in Chats : ChatCounts(chat[h])

LEMMA ChatKinds ==
    ASSUME SupportTypeOK, NEW h \in Chats
    PROVE  /\ chat[h] # Quiet <=> chat[h] \in Chatting
           /\ chat[h].at \in {"answer", "save", "alert"} <=> chat[h] \in Chatting
<1>1. chat[h] \in {Quiet} \cup Chatting BY DEF SupportTypeOK
<1>2. Quiet.at = "idle" BY DEF Quiet
<1>3. \A c \in Chatting : c.at \in {"answer", "save", "alert"} BY DEF Chatting
<1> QED BY <1>1, <1>2, <1>3

LEMMA ChatsFinite == IsFiniteSet(Chats) /\ Cardinality(Chats) \in Nat
  BY SupportAssumption, FS_CardinalityType

(* One chat goes on: what becomes of a set of chats, and of its size. *)
LEMMA OneMoves ==
    ASSUME NEW S \in SUBSET Chats, NEW T \in SUBSET Chats, NEW h \in Chats, NEW b \in BOOLEAN,
           T = IF b THEN S \cup {h} ELSE S \ {h}
    PROVE  /\ Cardinality(S) \in Nat /\ Cardinality(S) <= Cardinality(Chats)
           /\ Cardinality(T) = Cardinality(S) - (IF h \in S THEN 1 ELSE 0) + (IF b THEN 1 ELSE 0)
<1>1. IsFiniteSet(S) /\ Cardinality(S) <= Cardinality(Chats) BY ChatsFinite, FS_Subset
<1>2. Cardinality(S) \in Nat BY <1>1, FS_CardinalityType
<1>3. Cardinality(S \cup {h}) = IF h \in S THEN Cardinality(S) ELSE Cardinality(S) + 1
  BY <1>1, FS_AddElement
<1>4. Cardinality(S \ {h}) = IF h \in S THEN Cardinality(S) - 1 ELSE Cardinality(S)
  BY <1>1, FS_RemoveElement
<1> QED BY <1>1, <1>2, <1>3, <1>4

LEMMA ChatMoves ==
    ASSUME SupportTypeOK, NEW h \in Chats, NEW c, chat' = [chat EXCEPT ![h] = c]
    PROVE  /\ chat'[h] = c /\ \A g \in Chats \ {h} : chat'[g] = chat[g]
           /\ Alerting' = IF c.at = "alert" THEN Alerting \cup {h} ELSE Alerting \ {h}
           /\ Doubtful' = IF MayAlert(c) THEN Doubtful \cup {h} ELSE Doubtful \ {h}
           /\ Unsaved' = IF Uncounted(c) THEN Unsaved \cup {h} ELSE Unsaved \ {h}
<1>1. chat'[h] = c /\ \A g \in Chats \ {h} : chat'[g] = chat[g] BY DEF SupportTypeOK
<1>2. Alerting' = {g \in Chats : chat'[g].at = "alert"} BY DEF Alerting
<1>3. Doubtful' = {g \in Chats : MayAlert(chat'[g])} BY DEF Doubtful, MayAlert
<1>4. Unsaved' = {g \in Chats : Uncounted(chat'[g])} BY DEF Unsaved, Uncounted
<1>5. Alerting' = IF c.at = "alert" THEN Alerting \cup {h} ELSE Alerting \ {h}
  BY <1>1, <1>2 DEF Alerting
<1>6. Doubtful' = IF MayAlert(c) THEN Doubtful \cup {h} ELSE Doubtful \ {h}
  BY <1>1, <1>3 DEF Doubtful
<1>7. Unsaved' = IF Uncounted(c) THEN Unsaved \cup {h} ELSE Unsaved \ {h}
  BY <1>1, <1>4 DEF Unsaved
<1> QED BY <1>1, <1>5, <1>6, <1>7

(* The sizes, as numbers. *)
LEMMA ChatSizes ==
    ASSUME SupportTypeOK, NEW h \in Chats, NEW c, chat' = [chat EXCEPT ![h] = c]
    PROVE  /\ Cardinality(Alerting') = Cardinality(Alerting) - (IF chat[h].at = "alert" THEN 1 ELSE 0)
                                       + (IF c.at = "alert" THEN 1 ELSE 0)
           /\ Cardinality(Doubtful') = Cardinality(Doubtful) - (IF MayAlert(chat[h]) THEN 1 ELSE 0)
                                       + (IF MayAlert(c) THEN 1 ELSE 0)
           /\ Cardinality(Unsaved') = Cardinality(Unsaved) - (IF Uncounted(chat[h]) THEN 1 ELSE 0)
                                      + (IF Uncounted(c) THEN 1 ELSE 0)
<1>1. Alerting \in SUBSET Chats /\ Doubtful \in SUBSET Chats /\ Unsaved \in SUBSET Chats
  BY DEF Alerting, Doubtful, Unsaved
<1>2. /\ h \in Alerting <=> chat[h].at = "alert"
      /\ h \in Doubtful <=> MayAlert(chat[h])
      /\ h \in Unsaved <=> Uncounted(chat[h])
  BY DEF Alerting, Doubtful, Unsaved
<1>3. /\ Alerting' = IF c.at = "alert" THEN Alerting \cup {h} ELSE Alerting \ {h}
      /\ Doubtful' = IF MayAlert(c) THEN Doubtful \cup {h} ELSE Doubtful \ {h}
      /\ Unsaved' = IF Uncounted(c) THEN Unsaved \cup {h} ELSE Unsaved \ {h}
  BY ChatMoves
<1>4. ASSUME NEW S \in SUBSET Chats, NEW T, NEW b \in BOOLEAN, T = IF b THEN S \cup {h} ELSE S \ {h}
      PROVE  Cardinality(T) = Cardinality(S) - (IF h \in S THEN 1 ELSE 0) + (IF b THEN 1 ELSE 0)
  <2>1. T \in SUBSET Chats BY <1>4
  <2> QED BY <1>4, <2>1, OneMoves
<1>5. MayAlert(c) \in BOOLEAN /\ (c.at = "alert") \in BOOLEAN BY DEF MayAlert
<1>6. Cardinality(Alerting') = Cardinality(Alerting) - (IF h \in Alerting THEN 1 ELSE 0) + (IF c.at = "alert" THEN 1 ELSE 0)
  BY <1>1, <1>3, <1>4, <1>5
<1>7. Cardinality(Doubtful') = Cardinality(Doubtful) - (IF h \in Doubtful THEN 1 ELSE 0) + (IF MayAlert(c) THEN 1 ELSE 0)
  BY <1>1, <1>3, <1>4, <1>5
<1>8. Cardinality(Unsaved') = Cardinality(Unsaved) - (IF h \in Unsaved THEN 1 ELSE 0) + (IF Uncounted(c) THEN 1 ELSE 0)
  <2> DEFINE b == IF Uncounted(c) THEN TRUE ELSE FALSE
  <2>1. b \in BOOLEAN /\ (b <=> Uncounted(c)) OBVIOUS
  <2>2. Unsaved' = IF b THEN Unsaved \cup {h} ELSE Unsaved \ {h} BY <1>3
  <2> HIDE DEF b
  <2>3. Cardinality(Unsaved') = Cardinality(Unsaved) - (IF h \in Unsaved THEN 1 ELSE 0) + (IF b THEN 1 ELSE 0)
    BY <1>1, <1>4, <2>1, <2>2
  <2> QED BY <2>1, <2>3
<1> QED BY <1>2, <1>6, <1>7, <1>8

LEMMA SizesNat ==
    /\ Cardinality(Alerting) \in Nat /\ Cardinality(Doubtful) \in Nat /\ Cardinality(Unsaved) \in Nat
    /\ Cardinality(Alerting) <= Cardinality(Chats) /\ Cardinality(Doubtful) <= Cardinality(Chats)
<1>1. \A S \in SUBSET Chats : Cardinality(S) \in Nat /\ Cardinality(S) <= Cardinality(Chats)
  BY ChatsFinite, FS_Subset, FS_CardinalityType
<1>2. Alerting \in SUBSET Chats /\ Doubtful \in SUBSET Chats /\ Unsaved \in SUBSET Chats
  BY DEF Alerting, Doubtful, Unsaved
<1> QED BY <1>1, <1>2

LEMMA SupportTypeStep == SupportTypeOK /\ [SupportNext]_supportVars => SupportTypeOK'
<1> SUFFICES ASSUME SupportTypeOK, [SupportNext]_supportVars PROVE SupportTypeOK'
    OBVIOUS
<1>1. \A h \in Chats : \A c : c \in {Quiet} \cup Chatting /\ chat' = [chat EXCEPT ![h] = c] =>
        chat' \in [Chats -> {Quiet} \cup Chatting]
  BY DEF SupportTypeOK
<1>2. ASSUME NEW h \in Chats, NEW b \in BOOLEAN, CustomerWrites(h, b) PROVE SupportTypeOK'
  <2> DEFINE c == [at |-> "answer", saw |-> talk.status, base |-> talk.rebuttals,
                   counted |-> CountOf(b), pushy |-> b, cap |-> maxRebuttals, escalates |-> FALSE]
  <2>1. talk.status \in TalkStatus /\ talk.rebuttals \in Nat /\ CountOf(b) \in Nat
    BY DEF SupportTypeOK, CountOf
  <2>2. maxRebuttals \in Caps BY <1>2, SupportAssumption DEF CustomerWrites, SupportTypeOK
  <2>3. c \in Chatting BY <2>1, <2>2 DEF Chatting
  <2>4. chat' = [chat EXCEPT ![h] = c] BY <1>2 DEF CustomerWrites
  <2> HIDE DEF c
  <2>5. chat' \in [Chats -> {Quiet} \cup Chatting] BY <1>1, <2>3, <2>4
  <2> QED BY <1>2, <2>5 DEF CustomerWrites, Turn, SupportTypeOK
<1>3. ASSUME NEW h \in Chats, NEW e \in BOOLEAN, Answer(h, e) PROVE SupportTypeOK'
  <2> DEFINE c == [chat[h] EXCEPT !.at = "save", !.escalates = e]
  <2>1. chat[h] \in Chatting BY <1>3, ChatKinds DEF Answer
  <2>2. c \in Chatting BY <2>1 DEF Chatting
  <2>3. chat' = [chat EXCEPT ![h] = c] BY <1>3, <2>1 DEF Answer, SupportTypeOK, Chatting
  <2> HIDE DEF c
  <2>4. chat' \in [Chats -> {Quiet} \cup Chatting] BY <1>1, <2>2, <2>3
  <2> QED BY <1>3, <2>4 DEF Answer, SupportTypeOK
<1>4. ASSUME NEW h \in Chats, SaveTalk(h) PROVE SupportTypeOK'
  <2> DEFINE c == IF FirstTime(chat[h]) THEN [chat[h] EXCEPT !.at = "alert"] ELSE Quiet
  <2>1. chat[h] \in Chatting BY <1>4, ChatKinds DEF SaveTalk
  <2>2. c \in {Quiet} \cup Chatting BY <2>1 DEF Chatting
  <2>3. chat' = [chat EXCEPT ![h] = c] BY <1>4 DEF SaveTalk
  <2> HIDE DEF c
  <2>4. chat' \in [Chats -> {Quiet} \cup Chatting] BY <1>1, <2>2, <2>3
  <2>5. chat[h].counted \in Nat /\ chat[h].escalates \in BOOLEAN BY <2>1 DEF Chatting
  <2>6. talk' \in [status : TalkStatus, rebuttals : Nat]
    BY <1>4, <2>5 DEF SaveTalk, SupportTypeOK, TalkStatus
  <2>7. handed' \in BOOLEAN /\ mixed' \in BOOLEAN BY <1>4, <2>5 DEF SaveTalk, SupportTypeOK
  <2> QED BY <1>4, <2>4, <2>6, <2>7 DEF SaveTalk, SupportTypeOK
<1>5. ASSUME NEW h \in Chats, AlertOfTalk(h) \/ ChatFails(h) PROVE SupportTypeOK'
  <2>1. chat' \in [Chats -> {Quiet} \cup Chatting] BY <1>1, <1>5 DEF AlertOfTalk, ChatFails
  <2>2. mixed' \in BOOLEAN
    <3>1. chat[h] # Quiet => chat[h].pushy \in BOOLEAN BY ChatKinds DEF Chatting
    <3> QED BY <1>5, <3>1 DEF AlertOfTalk, ChatFails, SupportTypeOK
  <2> QED BY <1>5, <2>1, <2>2 DEF AlertOfTalk, ChatFails, SupportTypeOK
<1>6. CASE AgentReplies
  <2>1. mixed' \in BOOLEAN BY <1>6 DEF AgentReplies, SupportTypeOK
  <2>2. talk' \in [status : TalkStatus, rebuttals : Nat] BY <1>6 DEF AgentReplies, TalkStatus
  <2>3. /\ maxRebuttals' = maxRebuttals /\ chat' = chat /\ byHand' = byHand /\ turns' = turns + 1
        /\ told' = 0 /\ pushback' = 0 /\ handed' = FALSE
    BY <1>6 DEF AgentReplies, Turn
  <2>4. told' \in Nat /\ pushback' \in Nat /\ turns' \in Nat BY <2>3 DEF SupportTypeOK
  <2>5. handed' \in BOOLEAN /\ byHand' \in BOOLEAN BY <2>3 DEF SupportTypeOK
  <2>6. maxRebuttals' \in Caps \cup {0} /\ chat' \in [Chats -> {Quiet} \cup Chatting] BY <2>3 DEF SupportTypeOK
  <2> QED BY <2>1, <2>2, <2>4, <2>5, <2>6 DEF SupportTypeOK
<1>7. ASSUME NEW s \in TalkStatus, SetTalkStatus(s) PROVE SupportTypeOK'
  BY <1>7 DEF SetTalkStatus, Turn, SupportTypeOK
<1>8. ASSUME NEW n \in Caps \cup {0}, SetMaxRebuttals(n) PROVE SupportTypeOK'
  BY <1>8 DEF SetMaxRebuttals, Turn, SupportTypeOK
<1>9. CASE UNCHANGED supportVars BY <1>9 DEF supportVars, SupportTypeOK
<1> QED BY <1>2, <1>3, <1>4, <1>5, <1>6, <1>7, <1>8, <1>9 DEF SupportNext

LEMMA SupportTypeInit == SupportInit => SupportTypeOK
<1> SUFFICES ASSUME SupportInit PROVE SupportTypeOK
    OBVIOUS
<1>1. talk \in [status : TalkStatus, rebuttals : Nat] BY DEF SupportInit, TalkStatus
<1>2. chat \in [Chats -> {Quiet} \cup Chatting] BY DEF SupportInit
<1> QED BY <1>1, <1>2 DEF SupportInit, SupportTypeOK

(* A customer's conversation keeps its shape. *)
THEOREM SupportType == SupportSpec => []SupportTypeOK
  BY SupportTypeInit, SupportTypeStep, PTL DEF SupportSpec
----------------------------------------------------------------------------
LEMMA QuietIs == ~MayAlert(Quiet) /\ ~Uncounted(Quiet) /\ Quiet.at = "idle" /\ ChatCounts(Quiet)
  BY DEF MayAlert, Uncounted, Quiet, ChatCounts

(* A chat is stored, or answered. *)
LEMMA StartingKeeps ==
    ASSUME SupportTypeOK, SupportInv, NEW h \in Chats, NEW b \in BOOLEAN, CustomerWrites(h, b) \/ Answer(h, b)
    PROVE  SupportInv'
<1> DEFINE c == IF chat[h] = Quiet
                THEN [at |-> "answer", saw |-> talk.status, base |-> talk.rebuttals,
                      counted |-> CountOf(b), pushy |-> b, cap |-> maxRebuttals, escalates |-> FALSE]
                ELSE [chat[h] EXCEPT !.at = "save", !.escalates = b]
<1>1. UNCHANGED <<talk, told, handed, mixed, byHand>> BY DEF CustomerWrites, Answer
<1>a. talk' = talk /\ told' = told /\ handed' = handed /\ mixed' = mixed /\ byHand' = byHand BY <1>1
<1>2. CASE CustomerWrites(h, b)
  <2>1. chat[h] = Quiet /\ pushback' = pushback + (IF b THEN 1 ELSE 0) /\ chat' = [chat EXCEPT ![h] = c]
    BY <1>2 DEF CustomerWrites
  <2>2. /\ c.at = "answer" /\ c.saw = talk.status /\ c.base = talk.rebuttals /\ c.pushy = b
        /\ c.counted = talk.rebuttals + (IF b THEN 1 ELSE 0)
    BY <2>1 DEF CountOf
  <2> HIDE DEF c
  <2>3. /\ MayAlert(c) <=> talk.status # "ESCALATED"
        /\ Uncounted(c) <=> b
        /\ ChatCounts(c)
    BY <2>2 DEF MayAlert, Uncounted, ChatCounts
  <2>4. /\ Cardinality(Alerting') = Cardinality(Alerting)
        /\ talk.status = "ESCALATED" => Cardinality(Doubtful') = Cardinality(Doubtful)
        /\ Cardinality(Unsaved') = Cardinality(Unsaved) + (IF b THEN 1 ELSE 0)
    <3>1. /\ Cardinality(Alerting') = Cardinality(Alerting) - (IF chat[h].at = "alert" THEN 1 ELSE 0)
                                       + (IF c.at = "alert" THEN 1 ELSE 0)
          /\ Cardinality(Doubtful') = Cardinality(Doubtful) - (IF MayAlert(chat[h]) THEN 1 ELSE 0)
                                       + (IF MayAlert(c) THEN 1 ELSE 0)
          /\ Cardinality(Unsaved') = Cardinality(Unsaved) - (IF Uncounted(chat[h]) THEN 1 ELSE 0)
                                      + (IF Uncounted(c) THEN 1 ELSE 0)
      BY <2>1, ChatSizes
    <3>2. chat[h].at # "alert" /\ ~MayAlert(chat[h]) /\ ~Uncounted(chat[h]) /\ c.at # "alert"
      BY <2>1, <2>2, QuietIs
    <3> QED BY <2>3, <3>1, <3>2, SizesNat
  <2>5. Alerting' = Alerting
    <3>1. h \notin Alerting BY <2>1, QuietIs DEF Alerting
    <3>2. Alerting' = Alerting \ {h} BY <2>1, <2>2, ChatMoves
    <3> QED BY <3>1, <3>2
  <2>6. AlertsBounded' BY <1>a, <2>4 DEF SupportInv, AlertsBounded
  <2>7. OneAlert' BY <1>a, <2>5 DEF SupportInv, OneAlert, OneAboutTo
  <2>8. PushbackCounted'
    <3>1. talk.rebuttals \in Nat /\ pushback \in Nat BY DEF SupportTypeOK
    <3> QED BY <1>a, <2>1, <2>4, <3>1, SizesNat DEF SupportInv, PushbackCounted
  <2>9. BelowCap' BY <1>a DEF SupportInv, BelowCap
  <2>10. \A g \in Chats : ChatCounts(chat'[g]) BY <2>1, <2>3, ChatMoves DEF SupportInv
  <2> QED BY <2>6, <2>7, <2>8, <2>9, <2>10 DEF SupportInv, ChatCounts, AtCap
<1>3. CASE Answer(h, b)
  <2>1. chat[h] \in Chatting /\ chat[h].at = "answer" BY <1>3, ChatKinds DEF Answer
  <2>2. chat[h] # Quiet BY <2>1, QuietIs
  <2>3. chat' = [chat EXCEPT ![h] = c] /\ pushback' = pushback
    BY <1>3, <2>1, <2>2 DEF Answer, SupportTypeOK, Chatting
  <2>4. /\ c.at = "save" /\ c.saw = chat[h].saw /\ c.base = chat[h].base /\ c.pushy = chat[h].pushy
        /\ c.counted = chat[h].counted /\ c.cap = chat[h].cap /\ c.escalates = b
    BY <2>1, <2>2 DEF Chatting
  <2> HIDE DEF c
  <2>5. /\ MayAlert(c) <=> MayAlert(chat[h])
        /\ Uncounted(c) <=> Uncounted(chat[h])
    BY <2>1, <2>4 DEF MayAlert, Uncounted
  <2>6. AtCap(c) => b BY <1>3, <2>4 DEF Answer, AtCap
  <2>7. ChatCounts(c)
    <3>1. ChatCounts(chat[h]) BY DEF SupportInv
    <3> QED BY <2>1, <2>4, <2>6, <3>1 DEF ChatCounts
  <2>8. /\ Cardinality(Alerting') = Cardinality(Alerting)
        /\ Cardinality(Doubtful') = Cardinality(Doubtful)
        /\ Cardinality(Unsaved') = Cardinality(Unsaved)
    <3>1. /\ Cardinality(Alerting') = Cardinality(Alerting) - (IF chat[h].at = "alert" THEN 1 ELSE 0)
                                       + (IF c.at = "alert" THEN 1 ELSE 0)
          /\ Cardinality(Doubtful') = Cardinality(Doubtful) - (IF MayAlert(chat[h]) THEN 1 ELSE 0)
                                       + (IF MayAlert(c) THEN 1 ELSE 0)
          /\ Cardinality(Unsaved') = Cardinality(Unsaved) - (IF Uncounted(chat[h]) THEN 1 ELSE 0)
                                      + (IF Uncounted(c) THEN 1 ELSE 0)
      BY <2>3, ChatSizes
    <3>2. chat[h].at # "alert" /\ c.at # "alert" BY <2>1, <2>4
    <3> QED BY <2>5, <3>1, <3>2, SizesNat
  <2>9. Alerting' = Alerting
    <3>1. h \notin Alerting BY <2>1 DEF Alerting
    <3>2. Alerting' = Alerting \ {h} BY <2>3, <2>4, ChatMoves
    <3> QED BY <3>1, <3>2
  <2>10. AlertsBounded' BY <1>a, <2>8 DEF SupportInv, AlertsBounded
  <2>11. OneAlert' BY <1>a, <2>9 DEF SupportInv, OneAlert, OneAboutTo
  <2>12. PushbackCounted' BY <1>a, <2>3, <2>8 DEF SupportInv, PushbackCounted
  <2>13. BelowCap' BY <1>a DEF SupportInv, BelowCap
  <2>14. \A g \in Chats : ChatCounts(chat'[g]) BY <2>3, <2>7, ChatMoves DEF SupportInv
  <2> QED BY <2>10, <2>11, <2>12, <2>13, <2>14 DEF SupportInv, ChatCounts, AtCap
<1> QED BY <1>2, <1>3

(* The conversation is saved. *)
LEMMA SavingKeeps ==
    ASSUME SupportTypeOK, SupportInv, NEW h \in Chats, SaveTalk(h)
    PROVE  SupportInv'
<1> DEFINE c == chat[h]
           d == IF FirstTime(c) THEN [c EXCEPT !.at = "alert"] ELSE Quiet
<1>1. /\ c.at = "save" /\ c \in Chatting
      /\ talk' = [status |-> IF c.escalates THEN "ESCALATED" ELSE talk.status, rebuttals |-> c.counted]
      /\ handed' = (handed \/ c.escalates)
      /\ mixed' = (mixed \/ talk.rebuttals # c.base \/ talk.status # c.saw)
      /\ chat' = [chat EXCEPT ![h] = d]
      /\ told' = told /\ pushback' = pushback /\ byHand' = byHand
  BY ChatKinds DEF SaveTalk
<1>2. /\ c.escalates \in BOOLEAN /\ c.counted \in Nat /\ c.base \in Nat /\ c.pushy \in BOOLEAN
      /\ c.saw \in TalkStatus /\ c.cap \in Caps
  BY <1>1 DEF Chatting
<1>3. d.at = "alert" <=> FirstTime(c)
  BY <1>1, QuietIs DEF Chatting
<1>4. ~Uncounted(d) /\ ChatCounts(d) /\ (MayAlert(d) <=> FirstTime(c))
  BY <1>1, <1>3, QuietIs DEF Uncounted, ChatCounts, MayAlert, Chatting
<1>5. Uncounted(c) <=> c.pushy
  BY <1>1 DEF Uncounted
<1>6. MayAlert(c) <=> c.saw # "ESCALATED"
  BY <1>1 DEF MayAlert
<1>7. ChatCounts(c) BY DEF SupportInv
<1>8. talk'.status = (IF c.escalates THEN "ESCALATED" ELSE talk.status) /\ talk'.rebuttals = c.counted
  BY <1>1
<1> HIDE DEF c, d
<1>9. /\ Cardinality(Alerting') = Cardinality(Alerting) - (IF chat[h].at = "alert" THEN 1 ELSE 0)
                                  + (IF d.at = "alert" THEN 1 ELSE 0)
      /\ Cardinality(Doubtful') = Cardinality(Doubtful) - (IF MayAlert(chat[h]) THEN 1 ELSE 0)
                                  + (IF MayAlert(d) THEN 1 ELSE 0)
      /\ Cardinality(Unsaved') = Cardinality(Unsaved) - (IF Uncounted(chat[h]) THEN 1 ELSE 0)
                                 + (IF Uncounted(d) THEN 1 ELSE 0)
  BY <1>1, ChatSizes
<1>10. chat[h] = c BY DEF c
<1>11. Alerting' = IF FirstTime(c) THEN Alerting \cup {h} ELSE Alerting \ {h}
  BY <1>1, <1>3, ChatMoves
<1>12. h \notin Alerting BY <1>1, <1>10 DEF Alerting
<1>13. FirstTime(c) <=> c.escalates /\ c.saw # "ESCALATED" BY DEF FirstTime
<1>14. told \in Nat /\ talk.rebuttals \in Nat /\ talk.status \in TalkStatus /\ pushback \in Nat
       /\ handed \in BOOLEAN /\ mixed \in BOOLEAN /\ byHand \in BOOLEAN
  BY DEF SupportTypeOK
<1>15. AlertsBounded'
  <2>1. CASE talk.status = "ESCALATED"
    <3>1. told + Cardinality(Doubtful) <= 2 * Cardinality(Chats) BY <2>1 DEF SupportInv, AlertsBounded
    <3>2. Cardinality(Doubtful') <= Cardinality(Doubtful)
      BY <1>4, <1>6, <1>9, <1>10, <1>13, SizesNat
    <3>3. Cardinality(Doubtful') \in Int BY <1>9, SizesNat
    <3>4. told + Cardinality(Doubtful') <= 2 * Cardinality(Chats)
      BY <1>14, <3>1, <3>2, <3>3, SizesNat, ChatsFinite
    <3>5. talk'.status = "ESCALATED" BY <1>8, <2>1
    <3> QED BY <1>1, <3>4, <3>5 DEF AlertsBounded
  <2>2. CASE talk.status # "ESCALATED" /\ ~c.escalates
    <3>1. told + Cardinality(Alerting) <= Cardinality(Chats) BY <2>2 DEF SupportInv, AlertsBounded
    <3>2. Alerting' = Alerting BY <1>11, <1>12, <1>13, <2>2
    <3>3. talk'.status # "ESCALATED" BY <1>8, <2>2
    <3> QED BY <1>1, <3>1, <3>2, <3>3 DEF AlertsBounded
  <2>3. CASE talk.status # "ESCALATED" /\ c.escalates
    <3>1. told + Cardinality(Alerting) <= Cardinality(Chats) BY <2>3 DEF SupportInv, AlertsBounded
    <3>2. Cardinality(Doubtful') <= Cardinality(Chats)
      <4>1. Doubtful' \in SUBSET Chats BY DEF Doubtful
      <4> QED BY <4>1, ChatsFinite, FS_Subset
    <3>3. Cardinality(Doubtful') \in Int BY <1>9, SizesNat
    <3>4. told + Cardinality(Doubtful') <= 2 * Cardinality(Chats)
      BY <1>14, <3>1, <3>2, <3>3, SizesNat, ChatsFinite
    <3>5. talk'.status = "ESCALATED" BY <1>8, <2>3
    <3> QED BY <1>1, <3>4, <3>5 DEF AlertsBounded
  <2> QED BY <1>2, <2>1, <2>2, <2>3
<1>16. OneAlert'
  <2> SUFFICES ASSUME ~mixed', ~byHand'
               PROVE  /\ talk'.status \in {"OPEN", "ESCALATED"}
                      /\ talk'.status = "OPEN" => told' = 0 /\ Alerting' = {}
                      /\ talk'.status = "ESCALATED" =>
                            handed' /\ ((told' = 1 /\ Alerting' = {}) \/ (told' = 0 /\ \E g \in Chats : Alerting' = {g}))
    BY DEF OneAlert, OneAboutTo
  <2>1. ~mixed /\ ~byHand /\ talk.status = c.saw BY <1>1
  <2>2. /\ talk.status \in {"OPEN", "ESCALATED"}
        /\ talk.status = "OPEN" => told = 0 /\ Alerting = {}
        /\ talk.status = "ESCALATED" =>
              handed /\ ((told = 1 /\ Alerting = {}) \/ (told = 0 /\ \E g \in Chats : Alerting = {g}))
    BY <2>1 DEF SupportInv, OneAlert, OneAboutTo
  <2>3. CASE ~FirstTime(c)
    <3>1. Alerting' = Alerting BY <1>11, <1>12, <2>3
    <3>2. talk'.status = talk.status BY <1>2, <1>8, <1>13, <2>1, <2>3
    <3>3. handed => handed' BY <1>1
    <3> QED BY <1>1, <2>2, <3>1, <3>2, <3>3
  <2>4. CASE FirstTime(c)
    <3>1. talk.status = "OPEN" /\ told = 0 /\ Alerting = {} BY <1>13, <2>1, <2>2, <2>4
    <3>2. Alerting' = {h} BY <1>11, <2>4, <3>1
    <3>3. talk'.status = "ESCALATED" /\ handed' /\ told' = 0 BY <1>1, <1>8, <1>13, <2>4, <3>1
    <3> QED BY <3>2, <3>3
  <2> QED BY <2>3, <2>4
<1>17. PushbackCounted'
  <2> SUFFICES ASSUME ~mixed' PROVE pushback' = talk'.rebuttals + Cardinality(Unsaved')
    BY DEF PushbackCounted
  <2>1. ~mixed /\ talk.rebuttals = c.base BY <1>1
  <2>2. pushback = talk.rebuttals + Cardinality(Unsaved) BY <2>1 DEF SupportInv, PushbackCounted
  <2>3. c.counted = c.base + (IF c.pushy THEN 1 ELSE 0) BY <1>1, <1>7 DEF ChatCounts
  <2>4. Cardinality(Unsaved') = Cardinality(Unsaved) - (IF c.pushy THEN 1 ELSE 0)
    BY <1>4, <1>5, <1>9, <1>10, SizesNat
  <2> QED BY <1>1, <1>2, <1>8, <1>14, <2>1, <2>2, <2>3, <2>4, SizesNat
<1>18. BelowCap'
  <2> SUFFICES ASSUME ~mixed', ~byHand', ~handed' PROVE talk'.rebuttals < HighestRebuttals
    BY DEF BelowCap
  <2>1. /\ ~mixed /\ ~byHand /\ ~handed /\ ~c.escalates
        /\ talk.rebuttals = c.base /\ talk.status = c.saw
    BY <1>1
  <2>2. talk.rebuttals < HighestRebuttals BY <2>1 DEF SupportInv, BelowCap
  <2>3. c.saw # "ESCALATED" BY <2>1 DEF SupportInv, OneAlert
  <2>4. c.counted = c.base + (IF c.pushy THEN 1 ELSE 0) /\ ~AtCap(c) BY <1>1, <1>7, <2>1 DEF ChatCounts
  <2>5. c.cap \in 1..HighestRebuttals /\ HighestRebuttals \in Nat BY <1>2, SupportAssumption
  <2>6. CASE c.pushy
    <3>1. ~(c.counted >= c.cap) BY <2>3, <2>4, <2>6 DEF AtCap
    <3> QED BY <1>2, <1>8, <2>5, <3>1
  <2>7. CASE ~c.pushy
    BY <1>2, <1>8, <2>1, <2>2, <2>4, <2>7
  <2> QED BY <2>6, <2>7
<1>19. \A g \in Chats : ChatCounts(chat'[g])
  <2>1. chat'[h] = d /\ \A g \in Chats \ {h} : chat'[g] = chat[g] BY <1>1, ChatMoves
  <2> QED BY <1>4, <2>1 DEF SupportInv
<1> QED BY <1>15, <1>16, <1>17, <1>18, <1>19 DEF SupportInv, ChatCounts, AtCap

(* The owner is told, or the chat fails. *)
LEMMA EndingKeeps ==
    ASSUME SupportTypeOK, SupportInv, NEW h \in Chats, AlertOfTalk(h) \/ ChatFails(h)
    PROVE  SupportInv'
<1>1. /\ chat[h] \in Chatting /\ chat' = [chat EXCEPT ![h] = Quiet]
      /\ talk' = talk /\ pushback' = pushback /\ handed' = handed /\ byHand' = byHand
  BY ChatKinds DEF AlertOfTalk, ChatFails
<1>2. \/ chat[h].at = "alert" /\ told' = told + 1 /\ mixed' = mixed
      \/ told' = told /\ mixed' = (mixed \/ chat[h].pushy \/ chat[h].at = "alert")
  BY DEF AlertOfTalk, ChatFails
<1>3. /\ Cardinality(Alerting') = Cardinality(Alerting) - (IF chat[h].at = "alert" THEN 1 ELSE 0)
                                  + (IF Quiet.at = "alert" THEN 1 ELSE 0)
      /\ Cardinality(Doubtful') = Cardinality(Doubtful) - (IF MayAlert(chat[h]) THEN 1 ELSE 0)
                                  + (IF MayAlert(Quiet) THEN 1 ELSE 0)
      /\ Cardinality(Unsaved') = Cardinality(Unsaved) - (IF Uncounted(chat[h]) THEN 1 ELSE 0)
                                 + (IF Uncounted(Quiet) THEN 1 ELSE 0)
  BY <1>1, ChatSizes
<1>4. /\ Cardinality(Alerting') = Cardinality(Alerting) - (IF chat[h].at = "alert" THEN 1 ELSE 0)
      /\ Cardinality(Doubtful') = Cardinality(Doubtful) - (IF MayAlert(chat[h]) THEN 1 ELSE 0)
      /\ Cardinality(Unsaved') = Cardinality(Unsaved) - (IF Uncounted(chat[h]) THEN 1 ELSE 0)
  BY <1>3, QuietIs, SizesNat
<1>5. chat[h].at = "alert" => MayAlert(chat[h]) /\ ~Uncounted(chat[h]) BY DEF MayAlert, Uncounted
<1>6. Uncounted(chat[h]) => chat[h].pushy BY DEF Uncounted
<1>7. told \in Nat /\ mixed \in BOOLEAN /\ byHand \in BOOLEAN BY DEF SupportTypeOK
<1>8. AlertsBounded'
  <2> DEFINE a == Cardinality(Alerting)
             b == Cardinality(Doubtful)
             n == Cardinality(Chats)
  <2>1. /\ a \in Nat /\ b \in Nat /\ n \in Nat BY SizesNat, ChatsFinite
  <2>2. /\ talk.status # "ESCALATED" => told + a <= n
        /\ talk.status = "ESCALATED" => told + b <= 2 * n
    BY DEF SupportInv, AlertsBounded
  <2>3. told' + Cardinality(Alerting') <= told + a /\ told' + Cardinality(Doubtful') <= told + b
    BY <1>2, <1>4, <1>5, <1>7, <2>1
  <2>4. told' \in Nat /\ Cardinality(Alerting') \in Int /\ Cardinality(Doubtful') \in Int
    BY <1>2, <1>4, <1>7, <2>1
  <2>5. /\ talk.status # "ESCALATED" => told' + Cardinality(Alerting') <= n
        /\ talk.status = "ESCALATED" => told' + Cardinality(Doubtful') <= 2 * n
    <3> HIDE DEF a, b, n
    <3> QED BY <1>7, <2>1, <2>2, <2>3, <2>4
  <2> QED BY <1>1, <2>5 DEF AlertsBounded
<1>9. Alerting' = Alerting \ {h} BY <1>1, QuietIs, ChatMoves
<1>10. OneAlert'
  <2> SUFFICES ASSUME ~mixed', ~byHand'
               PROVE  /\ talk'.status \in {"OPEN", "ESCALATED"}
                      /\ talk'.status = "OPEN" => told' = 0 /\ Alerting' = {}
                      /\ talk'.status = "ESCALATED" =>
                            handed' /\ ((told' = 1 /\ Alerting' = {}) \/ (told' = 0 /\ \E g \in Chats : Alerting' = {g}))
    BY DEF OneAlert, OneAboutTo
  <2>1. ~mixed /\ ~byHand
    <3>1. ~mixed' => ~mixed BY DEF AlertOfTalk, ChatFails
    <3> QED BY <1>1, <3>1
  <2>2. /\ talk.status \in {"OPEN", "ESCALATED"}
        /\ talk.status = "OPEN" => told = 0 /\ Alerting = {}
        /\ talk.status = "ESCALATED" =>
              handed /\ ((told = 1 /\ Alerting = {}) \/ (told = 0 /\ \E g \in Chats : Alerting = {g}))
    BY <2>1 DEF SupportInv, OneAlert, OneAboutTo
  <2>3. CASE chat[h].at = "alert"
    <3>1. h \in Alerting /\ told' = told + 1 BY <1>2, <2>3 DEF Alerting
    <3>2. talk.status = "ESCALATED" /\ handed /\ told = 0 /\ \E g \in Chats : Alerting = {g}
      BY <2>2, <3>1
    <3>3. Alerting' = {} BY <1>9, <3>1, <3>2
    <3> QED BY <1>1, <3>1, <3>2, <3>3
  <2>4. CASE chat[h].at # "alert"
    <3>1. Alerting' = Alerting BY <1>9, <2>4 DEF Alerting
    <3> QED BY <1>1, <1>2, <2>2, <2>4, <3>1
  <2> QED BY <2>3, <2>4
<1>11. PushbackCounted'
  <2>1. ~mixed' => ~mixed /\ ~Uncounted(chat[h]) BY <1>2, <1>5, <1>6
  <2>2. ~mixed' => Cardinality(Unsaved') = Cardinality(Unsaved) BY <1>4, <2>1, SizesNat
  <2> QED BY <1>1, <2>1, <2>2 DEF SupportInv, PushbackCounted
<1>12. BelowCap' BY <1>1, <1>2 DEF SupportInv, BelowCap
<1>13. \A g \in Chats : ChatCounts(chat'[g])
  <2>1. chat'[h] = Quiet /\ \A g \in Chats \ {h} : chat'[g] = chat[g] BY <1>1, ChatMoves
  <2> QED BY <2>1, QuietIs DEF SupportInv
<1> QED BY <1>8, <1>10, <1>11, <1>12, <1>13 DEF SupportInv, ChatCounts, AtCap

LEMMA SomeCap == HighestRebuttals \in Nat /\ 0 < HighestRebuttals
<1>1. PICK n \in Caps : n \in 1..HighestRebuttals BY SupportAssumption
<1>2. HighestRebuttals \in Nat BY SupportAssumption
<1> QED BY <1>1, <1>2

(* What agents do. *)
LEMMA AgentsKeep ==
    ASSUME SupportTypeOK, SupportInv, AgentReplies \/ \E s \in TalkStatus : SetTalkStatus(s)
    PROVE  SupportInv'
<1>1. chat' = chat BY DEF AgentReplies, SetTalkStatus
<1>2. Alerting' = Alerting /\ Doubtful' = Doubtful /\ Unsaved' = Unsaved
  BY <1>1 DEF Alerting, Doubtful, Unsaved, MayAlert, Uncounted
<1>3. \A g \in Chats : ChatCounts(chat'[g]) BY <1>1 DEF SupportInv
<1>4. told \in Nat BY DEF SupportTypeOK
<1>5. CASE AgentReplies
  <2>1. /\ talk'.status = "OPEN" /\ talk'.rebuttals = 0 /\ told' = 0 /\ pushback' = 0 /\ handed' = FALSE
        /\ mixed' = (mixed \/ \E h \in Chats : chat[h] # Quiet)
    BY <1>5 DEF AgentReplies
  <2>2. ~mixed' => Alerting = {} /\ Unsaved = {} BY <2>1, QuietIs DEF Alerting, Unsaved
  <2>3. AlertsBounded' BY <1>2, <2>1, SizesNat DEF AlertsBounded
  <2>4. OneAlert' BY <1>2, <2>1, <2>2 DEF OneAlert
  <2>5. PushbackCounted'
    <3>1. Cardinality({}) = 0 BY FS_EmptySet
    <3> QED BY <1>2, <2>1, <2>2, <3>1 DEF PushbackCounted
  <2>6. BelowCap'
    <3>1. 0 < HighestRebuttals BY SomeCap
    <3> QED BY <2>1, <3>1 DEF BelowCap
  <2> QED BY <1>3, <2>3, <2>4, <2>5, <2>6 DEF SupportInv, ChatCounts, AtCap
<1>6. ASSUME NEW s \in TalkStatus, SetTalkStatus(s) PROVE SupportInv'
  <2>1. /\ talk'.status = s /\ talk'.rebuttals = talk.rebuttals /\ s # talk.status
        /\ told' = (IF talk.status = "ESCALATED" THEN 0 ELSE told)
        /\ byHand' /\ pushback' = pushback /\ mixed' = mixed
    BY <1>6 DEF SetTalkStatus, SupportTypeOK
  <2>2. AlertsBounded'
    <3>1. CASE talk.status = "ESCALATED"
      BY <1>2, <2>1, <3>1, SizesNat DEF AlertsBounded
    <3>2. CASE talk.status # "ESCALATED"
      <4>1. told' + Cardinality(Alerting) <= Cardinality(Chats) BY <2>1, <3>2 DEF SupportInv, AlertsBounded
      <4>2. told' + Cardinality(Doubtful) <= 2 * Cardinality(Chats)
        BY <1>4, <2>1, <3>2, <4>1, SizesNat, ChatsFinite
      <4> QED BY <1>2, <4>1, <4>2 DEF AlertsBounded
    <3> QED BY <3>1, <3>2
  <2>3. OneAlert' /\ BelowCap' BY <2>1 DEF OneAlert, BelowCap
  <2>4. PushbackCounted' BY <1>2, <2>1 DEF SupportInv, PushbackCounted
  <2> QED BY <1>3, <2>2, <2>3, <2>4 DEF SupportInv, ChatCounts, AtCap
<1> QED BY <1>5, <1>6

LEMMA SupportStep == SupportTypeOK /\ SupportInv /\ [SupportNext]_supportVars => SupportInv'
<1> SUFFICES ASSUME SupportTypeOK, SupportInv, [SupportNext]_supportVars PROVE SupportInv'
    OBVIOUS
<1>1. ASSUME UNCHANGED <<talk, chat, told, pushback, handed, mixed, byHand>> PROVE SupportInv'
  <2>1. Alerting' = Alerting /\ Doubtful' = Doubtful /\ Unsaved' = Unsaved
    BY <1>1 DEF Alerting, Doubtful, Unsaved, MayAlert, Uncounted
  <2> QED BY <1>1, <2>1 DEF SupportInv, AlertsBounded, OneAlert, OneAboutTo, ChatCounts, AtCap, PushbackCounted, BelowCap
<1>2. CASE UNCHANGED supportVars \/ \E n \in Caps \cup {0} : SetMaxRebuttals(n)
  BY <1>1, <1>2 DEF supportVars, SetMaxRebuttals
<1> QED BY <1>2, StartingKeeps, SavingKeeps, EndingKeeps, AgentsKeep DEF SupportNext

LEMMA SupportInvInit == SupportInit => SupportInv
<1> SUFFICES ASSUME SupportInit PROVE SupportInv
    OBVIOUS
<1>1. talk.status = "OPEN" /\ talk.rebuttals = 0 /\ told = 0 /\ pushback = 0 /\ ~handed
      /\ \A h \in Chats : chat[h] = Quiet
  BY DEF SupportInit
<1>2. Alerting = {} /\ Unsaved = {} BY <1>1, QuietIs DEF Alerting, Unsaved
<1>3. Cardinality({}) = 0 BY FS_EmptySet
<1>4. AlertsBounded BY <1>1, <1>2, <1>3, ChatsFinite DEF AlertsBounded
<1>5. OneAlert BY <1>1, <1>2 DEF OneAlert
<1>6. PushbackCounted BY <1>1, <1>2, <1>3 DEF PushbackCounted
<1>7. BelowCap
  <2>1. 0 < HighestRebuttals BY SomeCap
  <2> QED BY <1>1, <2>1 DEF BelowCap
<1> QED BY <1>1, <1>4, <1>5, <1>6, <1>7, QuietIs DEF SupportInv

LEMMA SupportInvReaches == SupportTypeOK /\ SupportInv => EscalationsReachPeople
<1> SUFFICES ASSUME SupportTypeOK, SupportInv PROVE EscalationsReachPeople
    OBVIOUS
<1>0. told \in Nat /\ talk.rebuttals \in Nat /\ pushback \in Nat /\ Cardinality(Chats) \in Nat
      /\ mixed \in BOOLEAN /\ byHand \in BOOLEAN
  BY ChatsFinite DEF SupportTypeOK
<1>1. EscalationIsTold
  <2>1. CASE ~mixed /\ ~byHand /\ talk.status = "ESCALATED"
    <3>1. (told = 1 /\ Alerting = {}) \/ (\E h \in Chats : Alerting = {h}) BY <2>1 DEF SupportInv, OneAlert, OneAboutTo
    <3> QED BY <3>1 DEF EscalationIsTold, Alerting
  <2> QED BY <2>1 DEF EscalationIsTold
<1>2. AlertsPerEscalation
  <2>1. CASE ~mixed /\ ~byHand
    <3>1. told \in {0, 1} BY <2>1 DEF SupportInv, OneAlert, OneAboutTo
    <3> QED BY <2>1, <3>1 DEF AlertsPerEscalation
  <2>2. CASE mixed \/ byHand
    <3>1. told <= 2 * Cardinality(Chats)
      BY <1>0, SizesNat DEF SupportInv, AlertsBounded
    <3> QED BY <2>2, <3>1 DEF AlertsPerEscalation
  <2> QED BY <2>1, <2>2
<1>3. HandOffAtCap
  <2> SUFFICES ASSUME pushback >= HighestRebuttals, ~mixed, \A h \in Chats : chat[h] = Quiet, ~handed, ~byHand
               PROVE  FALSE
    BY DEF HandOffAtCap
  <2>1. Unsaved = {} BY QuietIs DEF Unsaved
  <2>2. Cardinality(Unsaved) = 0 BY <2>1, FS_EmptySet
  <2>3. pushback = talk.rebuttals BY <1>0, <2>2 DEF SupportInv, PushbackCounted
  <2>4. talk.rebuttals < HighestRebuttals /\ HighestRebuttals \in Nat
    BY SupportAssumption DEF SupportInv, BelowCap
  <2> QED BY <1>0, <2>3, <2>4
<1> QED BY <1>1, <1>2, <1>3 DEF EscalationsReachPeople

(* A customer whom the assistant cannot help reaches a human: handed over at the cap,
   the owner told, once, for any number of chats under way and any cap. *)
THEOREM CustomersReachPeople == SupportSpec => []EscalationsReachPeople
  BY SupportTypeInit, SupportTypeStep, SupportInvInit, SupportStep, SupportInvReaches, PTL DEF SupportSpec
----------------------------------------------------------------------------
(* Charging and invoicing. *)

(* R orders D strictly and totally. *)
Orders(R, D) ==
    /\ \A x \in D : <<x, x>> \notin R
    /\ \A x, y, z \in D : <<x, y>> \in R /\ <<y, z>> \in R => <<x, z>> \in R
    /\ \A x, y \in D : x = y \/ <<x, y>> \in R \/ <<y, x>> \in R
Ahead(R, D, x) == {y \in D : <<y, x>> \in R}
FirstOf(R, D, k) == {x \in D : Cardinality(Ahead(R, D, x)) < k}

(* A finite set in a total order has a first element. *)
LEMMA FirstOne ==
    ASSUME NEW R, NEW D, Orders(R, D), NEW S, IsFiniteSet(S), S \subseteq D, S # {}
    PROVE  \E m \in S : \A x \in S : x = m \/ <<m, x>> \in R
<1> DEFINE Bad == {T \in SUBSET S : T # {} /\ ~\E m \in T : \A x \in T : x = m \/ <<m, x>> \in R}
<1>1. ASSUME Bad # {} PROVE FALSE
  <2>1. PICK T \in Bad : \A U \in Bad : ~(U \subseteq T /\ U # T)
    <3>1. Bad \subseteq SUBSET S OBVIOUS
    <3>2. IsFiniteSet(S) OBVIOUS
    <3> HIDE DEF Bad
    <3> QED BY ONLY <1>1, <3>1, <3>2, SmallestException
  <2>2. PICK y \in T : TRUE OBVIOUS
  <2>3. T \ {y} \notin Bad BY <2>1, <2>2
  <2>4. T \subseteq D OBVIOUS
  <2>5. CASE T \ {y} = {}
    <3>1. \A x \in T : x = y BY <2>5
    <3> QED BY <2>1, <3>1
  <2>6. CASE T \ {y} # {}
    <3>1. PICK m \in T \ {y} : \A x \in T \ {y} : x = m \/ <<m, x>> \in R BY <2>3, <2>6
    <3>2. m \in D /\ y \in D BY <2>4
    <3>3. CASE <<m, y>> \in R
      <4>1. \A x \in T : x = m \/ <<m, x>> \in R BY <3>1, <3>3
      <4> QED BY <2>1, <4>1
    <3>4. CASE <<y, m>> \in R
      <4>1. ASSUME NEW x \in T PROVE x = y \/ <<y, x>> \in R
        <5>1. CASE x = y BY <5>1
        <5>2. CASE x # y
          <6>1. x = m \/ <<m, x>> \in R BY <3>1, <5>2
          <6>2. x \in D BY <2>4
          <6> QED BY <3>2, <3>4, <6>1, <6>2 DEF Orders
        <5> QED BY <5>1, <5>2
      <4> QED BY <2>1, <4>1
    <3> QED BY <3>1, <3>2, <3>3, <3>4 DEF Orders
  <2> QED BY <2>5, <2>6
<1>2. S \notin Bad BY <1>1
<1> QED BY <1>2

(* As many elements have fewer than k ahead of them as k says. *)
LEMMA RankCounts ==
    ASSUME NEW R, NEW D, IsFiniteSet(D), Orders(R, D)
    PROVE  \A k \in Nat : k <= Cardinality(D) => Cardinality(FirstOf(R, D, k)) = k
<1> DEFINE n == Cardinality(D)
           Bad == {k \in Nat : k <= n /\ Cardinality(FirstOf(R, D, k)) # k}
<1>0. /\ n \in Nat
      /\ \A S \in SUBSET D : IsFiniteSet(S) /\ Cardinality(S) \in Nat /\ Cardinality(S) <= n
      /\ \A x \in D : Ahead(R, D, x) \in SUBSET D
      /\ \A k \in Nat : FirstOf(R, D, k) \in SUBSET D
  BY FS_CardinalityType, FS_Subset DEF Ahead, FirstOf
<1>1. ASSUME Bad # {} PROVE FALSE
  <2>1. PICK k \in Bad : \A j \in Bad : ~(j < k)
    <3>1. Bad \subseteq Nat OBVIOUS
    <3> HIDE DEF Bad
    <3> QED BY ONLY <1>1, <3>1, SmallestNumber
  <2>2. k \in Nat /\ k <= n /\ Cardinality(FirstOf(R, D, k)) # k OBVIOUS
  <2>3. k # 0
    <3> SUFFICES ASSUME k = 0 PROVE FALSE OBVIOUS
    <3>1. FirstOf(R, D, k) = {} BY <1>0 DEF FirstOf
    <3>2. Cardinality({}) = 0 BY FS_EmptySet
    <3> QED BY <2>2, <3>1, <3>2
  <2> DEFINE j == k - 1
             F == FirstOf(R, D, j)
  <2>4. j \in Nat /\ j < n /\ k = j + 1 BY <1>0, <2>2, <2>3
  <2>5. F \in SUBSET D /\ Cardinality(F) = j
    <3>1. j \notin Bad BY <2>1, <2>2, <2>4
    <3> QED BY <1>0, <2>4, <3>1
  <2> HIDE DEF Bad, j
  <2>6. D \ F # {}
    <3> SUFFICES ASSUME D \ F = {} PROVE FALSE OBVIOUS
    <3>1. F = D BY <2>5
    <3> QED BY <1>0, <2>4, <2>5, <3>1
  <2>7. PICK m \in D \ F : \A x \in D \ F : x = m \/ <<m, x>> \in R
    <3>1. IsFiniteSet(D \ F) /\ D \ F \subseteq D BY <1>0
    <3> QED BY <2>6, <3>1, FirstOne
  <2>8. ASSUME NEW x \in D, NEW y \in D, <<x, y>> \in R
        PROVE  /\ Ahead(R, D, x) \subseteq Ahead(R, D, y) /\ x \in Ahead(R, D, y) /\ x \notin Ahead(R, D, x)
               /\ Cardinality(Ahead(R, D, x)) < Cardinality(Ahead(R, D, y))
    <3>1. Ahead(R, D, x) \subseteq Ahead(R, D, y) /\ x \in Ahead(R, D, y) /\ x \notin Ahead(R, D, x)
      BY <2>8 DEF Ahead, Orders
    <3>2. IsFiniteSet(Ahead(R, D, y)) BY <1>0
    <3>3. /\ Cardinality(Ahead(R, D, x)) <= Cardinality(Ahead(R, D, y))
          /\ Cardinality(Ahead(R, D, x)) = Cardinality(Ahead(R, D, y)) => Ahead(R, D, x) = Ahead(R, D, y)
      BY <3>1, <3>2, FS_Subset
    <3>4. Cardinality(Ahead(R, D, x)) \in Nat /\ Cardinality(Ahead(R, D, y)) \in Nat BY <1>0
    <3> QED BY <3>1, <3>3, <3>4
  <2>9. Ahead(R, D, m) = F
    <3>1. ASSUME NEW x \in Ahead(R, D, m) PROVE x \in F
      <4>1. x \in D /\ <<x, m>> \in R BY DEF Ahead
      <4>2. x \notin D \ F BY <2>7, <4>1 DEF Orders
      <4> QED BY <4>1, <4>2
    <3>2. ASSUME NEW x \in F PROVE x \in Ahead(R, D, m)
      <4>1. x \in D /\ x # m BY <2>5, <2>7
      <4>2. Cardinality(Ahead(R, D, x)) < j BY <2>4 DEF FirstOf
      <4>3. ~(Cardinality(Ahead(R, D, m)) < j) BY <2>7, <2>4 DEF FirstOf
      <4>4. Cardinality(Ahead(R, D, x)) \in Nat /\ Cardinality(Ahead(R, D, m)) \in Nat BY <1>0, <4>1, <2>7
      <4>5. <<m, x>> \notin R
        <5> SUFFICES ASSUME <<m, x>> \in R PROVE FALSE OBVIOUS
        <5>1. Cardinality(Ahead(R, D, m)) < Cardinality(Ahead(R, D, x)) BY <2>7, <2>8, <4>1
        <5> QED BY <2>4, <4>2, <4>3, <4>4, <5>1
      <4>6. <<x, m>> \in R BY <2>7, <4>1, <4>5 DEF Orders
      <4> QED BY <4>1, <4>6 DEF Ahead
    <3> QED BY <3>1, <3>2
  <2>10. Cardinality(Ahead(R, D, m)) = j BY <2>5, <2>9
  <2>11. FirstOf(R, D, k) = F \cup {m}
    <3>1. ASSUME NEW x \in FirstOf(R, D, k) PROVE x \in F \cup {m}
      <4> SUFFICES ASSUME x \notin F, x # m PROVE FALSE OBVIOUS
      <4>1. x \in D /\ Cardinality(Ahead(R, D, x)) < k BY DEF FirstOf
      <4>2. <<m, x>> \in R BY <2>7, <4>1
      <4>3. Cardinality(Ahead(R, D, m)) < Cardinality(Ahead(R, D, x)) BY <2>7, <2>8, <4>1, <4>2
      <4>4. Cardinality(Ahead(R, D, x)) \in Nat BY <1>0, <4>1
      <4> QED BY <2>4, <2>10, <4>1, <4>3, <4>4
    <3>2. m \in FirstOf(R, D, k) BY <2>4, <2>7, <2>10 DEF FirstOf
    <3>3. ASSUME NEW x \in F PROVE x \in FirstOf(R, D, k)
      <4>1. x \in D /\ Cardinality(Ahead(R, D, x)) < j BY DEF FirstOf
      <4>2. Cardinality(Ahead(R, D, x)) \in Nat BY <1>0, <4>1
      <4> QED BY <2>4, <4>1, <4>2 DEF FirstOf
    <3> QED BY <3>1, <3>2, <3>3
  <2>12. Cardinality(F \cup {m}) = j + 1
    <3>1. IsFiniteSet(F) /\ m \notin F BY <1>0, <2>5, <2>7
    <3> QED BY <2>5, <3>1, FS_AddElement
  <2> QED BY <2>2, <2>4, <2>11, <2>12
<1> QED BY <1>1

(* A sum of equal terms over a part, and nothing elsewhere. *)
LEMMA SumFlat ==
    ASSUME NEW S, IsFiniteSet(S), NEW P, P \subseteq S, NEW c \in Int
    PROVE  SumFunctionOnSet([x \in S |-> IF x \in P THEN c ELSE 0], S) = c * Cardinality(P)
<1> DEFINE f == [x \in S |-> IF x \in P THEN c ELSE 0]
           Bad == {T \in SUBSET P : SumFunctionOnSet(f, T) # c * Cardinality(T)}
<1>0. IsFiniteSet(P) /\ \A T \in SUBSET P : IsFiniteSet(T) /\ Cardinality(T) \in Nat
  BY FS_Subset, FS_CardinalityType
<1>1. ASSUME Bad # {} PROVE FALSE
  <2>1. PICK T \in Bad : \A U \in Bad : ~(U \subseteq T /\ U # T)
    <3>1. Bad \subseteq SUBSET P OBVIOUS
    <3> HIDE DEF Bad
    <3> QED BY ONLY <1>0, <1>1, <3>1, SmallestException
  <2>2. T \in SUBSET P /\ SumFunctionOnSet(f, T) # c * Cardinality(T) OBVIOUS
  <2>3. T # {}
    <3> SUFFICES ASSUME T = {} PROVE FALSE OBVIOUS
    <3>1. SumFunctionOnSet(f, {}) = 0 BY SumEmpty
    <3>2. Cardinality({}) = 0 BY FS_EmptySet
    <3> HIDE DEF f, Bad
    <3> QED BY <2>2, <3>1, <3>2
  <2>4. PICK y \in T : TRUE BY <2>3
  <2>5. T \ {y} \notin Bad BY <2>1, <2>4
  <2>6. SumFunctionOnSet(f, T \ {y}) = c * Cardinality(T \ {y}) BY <2>2, <2>5
  <2>7. \A x \in T : f[x] = c BY <2>2
  <2> HIDE DEF f, Bad
  <2>8. SumFunctionOnSet(f, T) = f[y] + SumFunctionOnSet(f, T \ {y})
    <3>1. \A x \in T : f[x] \in Int BY <2>7
    <3> QED BY <1>0, <2>2, <3>1, SumWithout
  <2>9. Cardinality(T \ {y}) = Cardinality(T) - 1 BY <1>0, <2>2, FS_RemoveElement
  <2>10. Cardinality(T) \in Nat BY <1>0, <2>2
  <2> DEFINE k == Cardinality(T)
  <2>11. SumFunctionOnSet(f, T) = c + c * (k - 1) BY <2>6, <2>7, <2>8, <2>9
  <2>12. c + c * (k - 1) = c * k
    <3> HIDE DEF k
    <3>1. \A q \in Nat : c + c * (q - 1) = c * q OBVIOUS
    <3> QED BY <2>10, <3>1 DEF k
  <2> QED BY <2>2, <2>11, <2>12
<1>2. SumFunctionOnSet(f, P) = c * Cardinality(P) BY <1>1
<1>3. SumFunctionOnSet(f, S \ P) = 0
  <2>1. IsFiniteSet(S \ P) /\ \A x \in S \ P : f[x] = 0 BY FS_Subset
  <2> HIDE DEF f
  <2> QED BY <2>1, SumZero
<1>4. \A x \in S : f[x] \in Int OBVIOUS
<1> HIDE DEF f
<1>5. SumFunctionOnSet(f, S) = SumFunctionOnSet(f, P) + SumFunctionOnSet(f, S \ P) BY <1>4, SumSplit
<1>6. c * Cardinality(P) \in Int BY <1>0
<1> QED BY <1>2, <1>3, <1>5, <1>6 DEF f

LEMMA Divided ==
    ASSUME NEW n \in Nat, NEW d \in Nat, d > 0
    PROVE  n \div d \in Nat /\ n % d \in Nat /\ n % d < d /\ n = (n % d) + d * (n \div d)
<1>1. n \div d \in Int /\ n % d \in Int /\ 0 <= n % d /\ n % d < d /\ n = d * (n \div d) + (n % d) BY SMTT(30)
<1>2. n \div d >= 0 BY SMTT(30)
<1> QED BY <1>1, <1>2

LEMMA Grows ==
    ASSUME NEW a \in Nat, NEW b \in Nat, NEW c \in Nat, a <= b
    PROVE  a * c <= b * c /\ c * a <= c * b
<1>1. PICK k \in Nat : b = a + k
  <2>1. b - a \in Nat /\ b = a + (b - a) OBVIOUS
  <2> QED BY <2>1
<1>2. (a + k) * c = a * c + k * c /\ c * (a + k) = c * a + c * k OBVIOUS
<1>3. k * c \in Nat /\ c * k \in Nat /\ a * c \in Nat /\ c * a \in Nat OBVIOUS
<1> QED BY <1>1, <1>2, <1>3

LEMMA Shrinks ==
    ASSUME NEW a \in Int, NEW b \in Nat, NEW c \in Nat, c > 0, c * a <= c * b
    PROVE  a <= b
<1> SUFFICES ASSUME b < a PROVE FALSE OBVIOUS
<1>1. b + 1 \in Nat /\ a \in Nat /\ b + 1 <= a OBVIOUS
<1>2. c * (b + 1) <= c * a BY <1>1, Grows
<1>3. c * (b + 1) = c * b + c /\ c * b \in Nat /\ c * a \in Nat BY <1>1
<1> QED BY <1>2, <1>3

(* What allocate() promises: the parts add up to the total, and none exceeds its
   weight unless the total exceeds all of them. *)
LEMMA AllocationAdds ==
    ASSUME NEW total \in Nat, NEW weights \in Seq(Nat)
    PROVE  /\ Total(weights) \in Nat
           /\ Allocate(total, weights) \in [DOMAIN weights -> Nat]
           /\ Total(weights) > 0 => Total(Allocate(total, weights)) = total
           /\ Total(weights) = 0 => Total(Allocate(total, weights)) = 0
           /\ total <= Total(weights) => \A i \in DOMAIN weights : Allocate(total, weights)[i] <= weights[i]
<1> DEFINE D == DOMAIN weights
           all == Total(weights)
           a == Allocate(total, weights)
<1>1. IsFiniteSet(D) /\ \A i \in D : weights[i] \in Nat
  <2>1. D = 1..Len(weights) /\ Len(weights) \in Nat OBVIOUS
  <2>2. IsFiniteSet(1..Len(weights)) BY <2>1, FS_Interval
  <2> QED BY <2>1, <2>2
<1>2. all \in Nat /\ all = SumFunctionOnSet(weights, D) BY <1>1, SumNat DEF Total, SumFunction
<1>3. CASE all = 0
  <2>1. a = [i \in D |-> 0] BY <1>3 DEF Allocate
  <2>2. Total(a) = 0
    <3>1. DOMAIN a = D /\ \A i \in D : a[i] = 0 BY <2>1
    <3> HIDE DEF a, D
    <3> QED BY <1>1, <3>1, SumZero DEF Total, SumFunction
  <2> QED BY <1>1, <1>2, <1>3, <2>1, <2>2
<1>4. CASE all # 0
  <2> DEFINE parts == [i \in D |-> total * weights[i]]
             floors == [i \in D |-> parts[i] \div all]
             rem == [i \in D |-> parts[i] % all]
             left == total - Total(floors)
             P == {i \in D : rem[i] > 0}
             R == {p \in D \X D : Before(parts, all, p[1], p[2])}
             B == FirstOf(R, D, left)
  <2>0. all \in Nat /\ all > 0 BY <1>2, <1>4
  <2>1. \A i \in D : /\ parts[i] \in Nat /\ parts[i] = total * weights[i]
                     /\ floors[i] = parts[i] \div all /\ rem[i] = parts[i] % all
    BY <1>1
  <2>2. \A i \in D : /\ floors[i] \in Nat /\ rem[i] \in Nat /\ rem[i] < all
                     /\ parts[i] = rem[i] + all * floors[i]
    <3> HIDE DEF parts, floors, rem, all
    <3> SUFFICES ASSUME NEW i \in D
                 PROVE /\ floors[i] \in Nat /\ rem[i] \in Nat /\ rem[i] < all
                       /\ parts[i] = rem[i] + all * floors[i]
      OBVIOUS
    <3>1. parts[i] \in Nat BY <2>1
    <3>2. /\ parts[i] \div all \in Nat /\ parts[i] % all \in Nat /\ parts[i] % all < all
          /\ parts[i] = (parts[i] % all) + all * (parts[i] \div all)
      BY <2>0, <3>1, Divided
    <3> QED BY <2>1, <3>2
  <2>3. /\ DOMAIN floors = D /\ DOMAIN rem = D /\ DOMAIN parts = D
        /\ \A i \in D : \A j \in D : Before(parts, all, j, i) <=> rem[j] > rem[i] \/ (rem[j] = rem[i] /\ j < i)
    BY DEF Before
  <2>4. a = [i \in D |-> floors[i] + (IF Cardinality({j \in D : Before(parts, all, j, i)}) < left THEN 1 ELSE 0)]
    <3>1. DOMAIN parts = D BY <2>3
    <3> QED BY <1>4, <3>1 DEF Allocate
  <2>5. Total(floors) = SumFunctionOnSet(floors, D) BY <2>3 DEF Total, SumFunction
  <2> HIDE DEF parts, floors, rem, all, a
  <2>6. SumFunctionOnSet(parts, D) = total * all
    <3> DEFINE zero == [i \in D |-> 0]
    <3>1. SumFunctionOnSet(zero, D) = 0
      <4>1. \A i \in D : zero[i] = 0 OBVIOUS
      <4> HIDE DEF zero
      <4> QED BY <1>1, <4>1, SumZero
    <3>2. \A i \in D : zero[i] \in Int /\ weights[i] \in Int /\ parts[i] = zero[i] + total * weights[i]
      <4> SUFFICES ASSUME NEW i \in D
                   PROVE zero[i] \in Int /\ weights[i] \in Int /\ parts[i] = zero[i] + total * weights[i]
        OBVIOUS
      <4>1. zero[i] = 0 /\ weights[i] \in Nat BY <1>1
      <4>2. parts[i] = total * weights[i] BY <2>1
      <4> QED BY <4>1, <4>2
    <3> HIDE DEF zero
    <3>3. SumFunctionOnSet(parts, D) = SumFunctionOnSet(zero, D) + total * SumFunctionOnSet(weights, D)
      BY <1>1, <3>2, SumLinear
    <3>4. total * all \in Int BY <2>0
    <3> QED BY <1>2, <3>1, <3>3, <3>4
  <2>7. /\ SumFunctionOnSet(rem, D) \in Nat /\ SumFunctionOnSet(floors, D) \in Nat
        /\ SumFunctionOnSet(parts, D) = SumFunctionOnSet(rem, D) + all * SumFunctionOnSet(floors, D)
    <3>1. \A i \in D : rem[i] \in Int /\ floors[i] \in Int /\ parts[i] = rem[i] + all * floors[i]
      BY <2>2
    <3>2. all \in Int BY <2>0
    <3>3. SumFunctionOnSet(parts, D) = SumFunctionOnSet(rem, D) + all * SumFunctionOnSet(floors, D)
      BY <1>1, <3>1, <3>2, SumLinear
    <3>4. SumFunctionOnSet(rem, D) \in Nat /\ SumFunctionOnSet(floors, D) \in Nat BY <1>1, <2>2, SumNat
    <3> QED BY <3>3, <3>4
  <2>8. left \in Int /\ all * left = SumFunctionOnSet(rem, D)
    <3> DEFINE f == SumFunctionOnSet(floors, D)
               r == SumFunctionOnSet(rem, D)
    <3>1. f \in Nat /\ r \in Nat /\ total * all = r + all * f BY <2>6, <2>7
    <3>2. left = total - f BY <2>5
    <3> HIDE DEF f, r
    <3>3. left \in Int BY <3>1, <3>2
    <3>4. all * left = r BY <2>0, <3>1, <3>2
    <3> QED BY <3>3, <3>4 DEF r
  <2>9. P \subseteq D /\ IsFiniteSet(P) /\ Cardinality(P) \in Nat /\ Cardinality(P) <= Cardinality(D)
    <3>1. P \subseteq D OBVIOUS
    <3> HIDE DEF P
    <3> QED BY <1>1, <3>1, FS_Subset, FS_CardinalityType
  <2>10. SumFunctionOnSet(rem, D) <= all * Cardinality(P)
    <3> DEFINE f == [i \in D |-> IF i \in P THEN all ELSE 0]
    <3>1. \A i \in D : rem[i] \in Int /\ f[i] \in Int /\ rem[i] <= f[i]
      <4> SUFFICES ASSUME NEW i \in D PROVE rem[i] \in Int /\ f[i] \in Int /\ rem[i] <= f[i] OBVIOUS
      <4>1. rem[i] \in Nat /\ rem[i] < all BY <2>2
      <4>2. f[i] = IF rem[i] > 0 THEN all ELSE 0 OBVIOUS
      <4> HIDE DEF f, P
      <4> QED BY <2>0, <4>1, <4>2
    <3>2. all \in Int BY <2>0
    <3>3. SumFunctionOnSet(f, D) = all * Cardinality(P)
      <4> HIDE DEF P
      <4> QED BY <1>1, <2>9, <3>2, SumFlat
    <3> HIDE DEF f
    <3>4. SumFunctionOnSet(rem, D) <= SumFunctionOnSet(f, D) BY <1>1, <3>1, SumAtMost
    <3> QED BY <3>3, <3>4
  <2> HIDE DEF left, P
  <2>11. left \in Nat /\ left <= Cardinality(P)
    <3>1. all * left <= all * Cardinality(P) BY <2>8, <2>10
    <3>2. left <= Cardinality(P) BY <2>0, <2>8, <2>9, <3>1, Shrinks
    <3>3. left >= 0
      <4> SUFFICES ASSUME left < 0 PROVE FALSE BY <2>8
      <4>1. 0 - left \in Nat /\ 0 - left >= 1 BY <2>8
      <4>2. 1 * all <= (0 - left) * all BY <2>0, <4>1, Grows
      <4>3. (0 - left) * all = 0 - (all * left) BY <2>0, <2>8
      <4>4. all * left \in Nat BY <2>7, <2>8
      <4> QED BY <2>0, <4>2, <4>3, <4>4
    <3> QED BY <2>8, <3>2, <3>3
  <2>12. Orders(R, D)
    <3>1. \A x, y \in D : <<x, y>> \in R <=> rem[x] > rem[y] \/ (rem[x] = rem[y] /\ x < y) BY <2>3
    <3>2. \A x \in D : rem[x] \in Nat /\ x \in Nat BY <2>2
    <3> HIDE DEF R, D
    <3>3. \A x \in D : <<x, x>> \notin R BY <3>1, <3>2
    <3>4. ASSUME NEW x \in D, NEW y \in D, NEW z \in D, <<x, y>> \in R, <<y, z>> \in R
          PROVE  <<x, z>> \in R
      <4>1. rem[x] > rem[y] \/ (rem[x] = rem[y] /\ x < y) BY <3>1, <3>4
      <4>2. rem[y] > rem[z] \/ (rem[y] = rem[z] /\ y < z) BY <3>1, <3>4
      <4>3. rem[x] \in Nat /\ rem[y] \in Nat /\ rem[z] \in Nat /\ x \in Nat /\ y \in Nat /\ z \in Nat BY <3>2
      <4>4. rem[x] > rem[z] \/ (rem[x] = rem[z] /\ x < z) BY <4>1, <4>2, <4>3
      <4> QED BY <3>1, <4>4
    <3>5. ASSUME NEW x \in D, NEW y \in D PROVE x = y \/ <<x, y>> \in R \/ <<y, x>> \in R
      <4>1. rem[x] \in Nat /\ rem[y] \in Nat /\ x \in Nat /\ y \in Nat BY <3>2
      <4>2. x = y \/ (rem[x] > rem[y] \/ (rem[x] = rem[y] /\ x < y)) \/ (rem[y] > rem[x] \/ (rem[y] = rem[x] /\ y < x))
        BY <4>1
      <4> QED BY <3>1, <4>2
    <3> QED BY <3>3, <3>4, <3>5 DEF Orders
  <2>13. \A i \in D : Ahead(R, D, i) = {j \in D : Before(parts, all, j, i)} BY DEF Ahead
  <2>14. Cardinality(B) = left /\ B \subseteq D
    <3>1. left <= Cardinality(D)
      <4>1. Cardinality(D) \in Nat BY <1>1, FS_CardinalityType
      <4> QED BY <2>9, <2>11, <4>1
    <3>2. Cardinality(B) = left
      <4> HIDE DEF R
      <4> QED BY <1>1, <2>11, <2>12, <3>1, RankCounts
    <3> QED BY <3>2 DEF FirstOf
  <2>15. a = [i \in D |-> floors[i] + (IF i \in B THEN 1 ELSE 0)]
    <3>1. \A i \in D : i \in B <=> Cardinality({j \in D : Before(parts, all, j, i)}) < left BY <2>13 DEF FirstOf
    <3> HIDE DEF B, R
    <3> QED BY <2>4, <3>1
  <2> HIDE DEF B
  <2>16. \A i \in D : a[i] = floors[i] + (IF i \in B THEN 1 ELSE 0) BY <2>15
  <2>17. Total(a) = total
    <3> DEFINE one == [i \in D |-> IF i \in B THEN 1 ELSE 0]
    <3>0. IsFiniteSet(D) /\ B \subseteq D /\ 1 \in Int BY <1>1, <2>14
    <3>1. SumFunctionOnSet(one, D) = 1 * Cardinality(B)
      <4> HIDE DEF D
      <4> QED BY ONLY <3>0, SumFlat
    <3>2. \A i \in D : floors[i] \in Int /\ one[i] \in Int /\ a[i] = floors[i] + 1 * one[i] BY <2>2, <2>16
    <3> HIDE DEF one, D
    <3>3. SumFunctionOnSet(a, D) = SumFunctionOnSet(floors, D) + 1 * SumFunctionOnSet(one, D) BY <1>1, <3>2, SumLinear
    <3>4. Total(a) = SumFunctionOnSet(a, D)
      <4>1. DOMAIN a = D BY <2>15
      <4> QED BY <4>1 DEF Total, SumFunction
    <3>5. left = total - SumFunctionOnSet(floors, D) BY <2>5 DEF left
    <3> QED BY <2>7, <2>11, <2>14, <3>1, <3>3, <3>4, <3>5
  <2>18. ASSUME NEW i \in D, i \in B PROVE rem[i] > 0
    <3> SUFFICES ASSUME rem[i] = 0 PROVE FALSE BY <2>2
    <3>1. P \subseteq Ahead(R, D, i)
      <4>1. \A j \in P : j \in D /\ rem[j] > rem[i] BY DEF P
      <4>2. \A j \in D : rem[j] > rem[i] => Before(parts, all, j, i) BY <2>3
      <4> QED BY <2>13, <4>1, <4>2
    <3>2. Ahead(R, D, i) \subseteq D BY DEF Ahead
    <3>3. IsFiniteSet(Ahead(R, D, i)) /\ Cardinality(Ahead(R, D, i)) \in Nat
      BY <1>1, <3>2, FS_Subset, FS_CardinalityType
    <3>4. Cardinality(P) <= Cardinality(Ahead(R, D, i)) BY <3>1, <3>3, FS_Subset
    <3>5. Cardinality(Ahead(R, D, i)) < left BY <2>18 DEF B, FirstOf
    <3> QED BY <2>9, <2>11, <3>3, <3>4, <3>5
  <2>19. ASSUME total <= all, NEW i \in D PROVE a[i] <= weights[i]
    <3>1. weights[i] \in Nat /\ floors[i] \in Nat /\ rem[i] \in Nat BY <1>1, <2>2
    <3> DEFINE w == weights[i]
               f == floors[i]
               r == rem[i]
    <3>2. total * w <= all * w BY <2>0, <2>19, <3>1, Grows
    <3>3. total * w = r + all * f
      <4>1. parts[i] = total * weights[i] BY <2>1
      <4>2. parts[i] = rem[i] + all * floors[i] BY <2>2
      <4> QED BY <4>1, <4>2
    <3>4. a[i] = f + (IF i \in B THEN 1 ELSE 0) BY <2>16
    <3>5. w \in Nat /\ f \in Nat /\ r \in Nat /\ (i \in B => r > 0) BY <2>18, <3>1
    <3> HIDE DEF w, f, r
    <3>6. all * f \in Nat /\ all * w \in Nat BY <2>0, <3>5
    <3>7. all * f <= all * w BY <2>0, <3>2, <3>3, <3>5, <3>6
    <3>8. f <= w BY <2>0, <3>5, <3>7, Shrinks
    <3>9. f = w => r = 0 BY <2>0, <3>2, <3>3, <3>5, <3>6
    <3>10. a[i] <= w BY <3>4, <3>5, <3>8, <3>9
    <3> QED BY <3>10 DEF w
  <2>20. a \in [D -> Nat]
    <3>1. \A i \in D : a[i] \in Nat BY <2>2, <2>16
    <3> QED BY <2>15, <3>1
  <2> QED BY <1>2, <1>4, <2>17, <2>19, <2>20 DEF a, all
<1> QED BY <1>3, <1>4

(* What is paid for the goods of a sale. *)
NetOf(s) == Total(s.lines) - s.discount
(* A sale's amounts, as it was quoted. *)
SaleAddsUp(s) ==
    /\ s.discount <= Total(s.lines) /\ s.tax <= NetOf(s)
    /\ s.total = NetOf(s) + s.shipping + (IF s.inclusive THEN 0 ELSE s.tax)
(* An invoice carries the tax of its sale, and adds up to it. *)
LinesAddUp(s, v) ==
    /\ s.at # "pending"
    /\ TaxOf(v.lines) = s.tax /\ \A i \in DOMAIN v.lines : v.lines[i].taxable >= 0
    /\ (v.inclusive = s.inclusive \/ s.tax = 0) => v.roundOff = 0
(* The tax that notes credit is the refunds' share, to half a unit each, multiplied by
   the total. *)
InProportion(total, tax, notes) ==
    /\ 2 * (total * TaxCreditedBy(notes)) <= 2 * (tax * RefundedBy(notes)) + total * Len(notes)
    /\ 2 * (tax * RefundedBy(notes)) <= 2 * (total * TaxCreditedBy(notes)) + total * Len(notes)
PartsAddUp(total, tax, shipping, note) ==
    tax + shipping < total => note.taxable + note.tax + note.shipping = note.total
(* The credit notes of an order, which has none before its invoice is issued. *)
NotesFit(s, v, notes) ==
    notes # << >> =>
      /\ v.at = "issued"
      /\ InProportion(s.total, TaxOf(v.lines), notes)
      /\ \A i \in DOMAIN notes : PartsAddUp(s.total, TaxOf(v.lines), s.shipping, notes[i])

(* Math.round is within half a unit. *)
LEMMA RoundedIs ==
    ASSUME NEW a \in Nat, NEW b \in Nat, b > 0
    PROVE  /\ Rounded(a, b) \in Nat /\ 2 * (b * Rounded(a, b)) <= 2 * a + b
           /\ 2 * a <= 2 * (b * Rounded(a, b)) + b
<1> DEFINE n == 2 * a + b
           d == 2 * b
           t == Rounded(a, b)
<1>1. n \in Nat /\ d \in Nat /\ d > 0 OBVIOUS
<1>2. t = n \div d BY DEF Rounded
<1> HIDE DEF n, d, t
<1>3. n \div d \in Nat /\ n % d \in Nat /\ n = (n % d) + d * (n \div d) BY <1>1, Divided
<1>4. t \in Nat /\ d * t <= n /\ n < d * t + d
  <2>1. d * t \in Nat BY <1>1, <1>2, <1>3
  <2>2. n % d < d BY <1>1
  <2> QED BY <1>1, <1>2, <1>3, <2>1, <2>2
<1>5. (2 * b) * t = 2 * (b * t) BY <1>4
<1> QED BY <1>4, <1>5 DEF n, d, t

LEMMA RoundedWithin ==
    ASSUME NEW a \in Nat, NEW b \in Nat, b > 0, NEW m \in Nat, a <= m * b
    PROVE  Rounded(a, b) <= m
<1> DEFINE t == Rounded(a, b)
<1>1. t \in Nat /\ 2 * (b * t) <= 2 * a + b BY RoundedIs
<1> HIDE DEF t
<1>2. t <= m
  <2> SUFFICES ASSUME m < t PROVE FALSE BY <1>1
  <2>1. m + 1 \in Nat /\ m + 1 <= t BY <1>1
  <2>2. b * (m + 1) <= b * t BY <1>1, <2>1, Grows
  <2>3. b * (m + 1) = m * b + b /\ m * b \in Nat /\ b * t \in Nat BY <1>1
  <2> QED BY <1>1, <2>2, <2>3
<1> QED BY <1>2 DEF t

(* A quote's discount stays within the goods, and its tax within what they cost. *)
LEMMA QuoteHolds ==
    ASSUME InvoiceTypeOK, NEW lines \in Baskets, NEW asked \in Discounts
    PROVE  Quote(lines, asked) \in Sale /\ SaleAddsUp(Quote(lines, asked)) /\ Quote(lines, asked).at = "pending"
<1> DEFINE subtotal == Total(lines)
           discount == AtMost(asked, subtotal)
           base == subtotal - discount
           bps == settings.bps
           tax == IF settings.inclusive THEN Rounded(base * bps, 10000 + bps) ELSE Rounded(base * bps, 10000)
           shipping == IF base >= settings.freeOver THEN 0 ELSE settings.flat
           total == base + shipping + (IF settings.inclusive THEN 0 ELSE tax)
           q == Quote(lines, asked)
<1>1. /\ bps \in Nat /\ bps <= 10000 /\ settings.inclusive \in BOOLEAN
      /\ settings.flat \in Nat /\ settings.freeOver \in Nat
  <2>1. settings \in [bps : 0..10000, inclusive : BOOLEAN, flat : Nat, freeOver : Nat]
    BY InvoiceAssumption DEF InvoiceTypeOK
  <2>2. bps \in 0..10000 /\ settings.flat \in Nat /\ settings.freeOver \in Nat BY <2>1
  <2>3. settings.inclusive \in BOOLEAN BY <2>1
  <2> HIDE DEF bps
  <2>4. bps \in Nat /\ bps <= 10000 BY <2>2
  <2> QED BY <2>2, <2>3, <2>4
<1>2. subtotal \in Nat
  <2>1. lines \in Seq(Nat) BY InvoiceAssumption
  <2> QED BY <2>1, AllocationAdds
<1>3. discount \in Nat /\ discount <= subtotal
  <2>1. asked \in Nat BY InvoiceAssumption
  <2> HIDE DEF subtotal
  <2> QED BY <1>2, <2>1 DEF AtMost
<1>4. q = [at |-> "pending", lines |-> lines, discount |-> discount, tax |-> tax,
           shipping |-> shipping, inclusive |-> settings.inclusive, total |-> total]
  BY DEF Quote
<1> HIDE DEF subtotal, discount
<1>5. base \in Nat BY <1>2, <1>3
<1> HIDE DEF base
<1>6. tax \in Nat /\ tax <= base
  <2>1. base * bps \in Nat /\ base * bps <= base * 10000 BY <1>1, <1>5, Grows
  <2>2. base * 10000 \in Nat /\ base * (10000 + bps) = base * 10000 + base * bps BY <1>1, <1>5
  <2>3. 10000 + bps \in Nat /\ 10000 + bps > 0 /\ 10000 \in Nat /\ 10000 > 0 BY <1>1
  <2>4. base * bps <= base * (10000 + bps) BY <2>1, <2>2
  <2> DEFINE part == base * bps
             within == 10000 + bps
             beside == 10000
  <2>5. part \in Nat /\ within \in Nat /\ within > 0 /\ beside \in Nat /\ beside > 0
        /\ part <= base * within /\ part <= base * beside
    BY <2>1, <2>3, <2>4
  <2>6. tax = IF settings.inclusive THEN Rounded(part, within) ELSE Rounded(part, beside) OBVIOUS
  <2> HIDE DEF part, within, beside, tax
  <2>7. Rounded(part, within) \in Nat /\ Rounded(part, within) <= base
    BY ONLY <1>5, <2>5, RoundedIs, RoundedWithin
  <2>8. Rounded(part, beside) \in Nat /\ Rounded(part, beside) <= base
    BY ONLY <1>5, <2>5, RoundedIs, RoundedWithin
  <2> QED BY <2>6, <2>7, <2>8
<1>7. shipping \in Nat BY <1>1
<1> HIDE DEF tax, shipping
<1>8. total \in Nat BY <1>1, <1>5, <1>6, <1>7
<1>9. total = base + shipping + (IF settings.inclusive THEN 0 ELSE tax) OBVIOUS
<1> HIDE DEF total
<1>10. /\ q.at = "pending" /\ q.lines = lines /\ q.discount = discount /\ q.tax = tax /\ q.shipping = shipping
       /\ q.inclusive = settings.inclusive /\ q.total = total
  BY <1>4
<1>11. q \in Sale BY <1>1, <1>3, <1>4, <1>6, <1>7, <1>8 DEF Sale
<1> HIDE DEF q
<1>12. NetOf(q) = base BY <1>10 DEF NetOf, base, subtotal
<1>13. q.discount <= Total(q.lines) BY <1>3, <1>10 DEF subtotal
<1>14. SaleAddsUp(q) BY <1>6, <1>9, <1>10, <1>12, <1>13 DEF SaleAddsUp
<1> QED BY <1>10, <1>11, <1>14 DEF q

LEMMA SplitInTwo ==
    ASSUME NEW tax \in Nat
    PROVE  tax \div 2 \in Nat /\ tax - (tax \div 2) \in Nat /\ (tax \div 2) + (tax - (tax \div 2)) = tax
  OBVIOUS

LEMMA LineIs ==
    ASSUME NEW taxable \in Int, NEW tax \in Nat, NEW intra \in BOOLEAN
    PROVE  LET l == LineOf(taxable, tax, intra)
           IN  l \in InvoiceLine /\ l.taxable = taxable /\ l.cgst + l.sgst + l.igst = tax
<1> DEFINE l == LineOf(taxable, tax, intra)
           half == tax \div 2
           rest == tax - half
           c == IF intra THEN half ELSE 0
           r == IF intra THEN rest ELSE 0
           g == IF intra THEN 0 ELSE tax
<1>1. half \in Nat /\ rest \in Nat /\ half + rest = tax BY SplitInTwo
<1>2. l = [taxable |-> taxable, cgst |-> c, sgst |-> r, igst |-> g] BY DEF LineOf
<1> HIDE DEF half, rest
<1>3. c \in Nat /\ r \in Nat /\ g \in Nat /\ c + r + g = tax
  <2>1. CASE intra BY <1>1, <2>1
  <2>2. CASE ~intra BY <2>2
  <2> QED BY <2>1, <2>2
<1> HIDE DEF c, r, g
<1>4. l \in InvoiceLine BY <1>2, <1>3 DEF InvoiceLine
<1>5. l.taxable = taxable /\ l.cgst = c /\ l.sgst = r /\ l.igst = g BY <1>2
<1> HIDE DEF l
<1> QED BY <1>3, <1>4, <1>5 DEF l

LEMMA SequenceOf ==
    ASSUME NEW n \in Nat, NEW T, NEW f, f \in [1..n -> T]
    PROVE  f \in Seq(T)
  OBVIOUS

(* The drafted lines carry the tax of the order and what remains of its amounts. *)
LEMMA LinesHold ==
    ASSUME InvoiceTypeOK, NEW o \in Sales, sale[o] \in Sale, SaleAddsUp(sale[o]), NEW intra \in BOOLEAN
    PROVE  LET ls == LinesOf(o, intra)
           IN  /\ ls \in Seq(InvoiceLine) /\ \A i \in DOMAIN ls : ls[i].taxable >= 0
               /\ TaxOf(ls) = sale[o].tax
               /\ TaxableOf(ls) = NetOf(sale[o]) - (IF settings.inclusive THEN sale[o].tax ELSE 0)
<1> DEFINE s == sale[o]
           D == DOMAIN s.lines
           cut == Allocate(s.discount, s.lines)
           net == [i \in D |-> s.lines[i] - cut[i]]
           tax == Allocate(s.tax, net)
           ls == LinesOf(o, intra)
           incl == settings.inclusive
<1>1. /\ s.lines \in Seq(Nat) /\ s.discount \in Nat /\ s.tax \in Nat
      /\ s.discount <= Total(s.lines) /\ s.tax <= Total(s.lines) - s.discount
  <2>1. s.lines \in Baskets /\ s.discount \in Nat /\ s.tax \in Nat BY DEF Sale
  <2> QED BY <2>1, InvoiceAssumption DEF SaleAddsUp, NetOf
<1>2. ls = [i \in D |-> LineOf(IF incl THEN net[i] - tax[i] ELSE net[i], tax[i], intra)]
  <2>1. DOMAIN net = D OBVIOUS
  <2> QED BY <2>1 DEF LinesOf
<1>3. NetOf(s) = Total(s.lines) - s.discount BY DEF NetOf
<1>4. incl \in BOOLEAN
  <2>1. settings \in [bps : 0..10000, inclusive : BOOLEAN, flat : Nat, freeOver : Nat]
    BY InvoiceAssumption DEF InvoiceTypeOK
  <2> QED BY <2>1
<1> HIDE DEF s, ls, incl
<1>5. IsFiniteSet(D) /\ Len(s.lines) \in Nat /\ D = 1..Len(s.lines) /\ \A i \in D : s.lines[i] \in Nat
  <2>1. D = 1..Len(s.lines) /\ Len(s.lines) \in Nat BY <1>1
  <2>2. IsFiniteSet(1..Len(s.lines)) BY <2>1, FS_Interval
  <2> QED BY <1>1, <2>1, <2>2
<1>6. /\ Total(s.lines) \in Nat /\ cut \in [D -> Nat]
      /\ Total(s.lines) > 0 => Total(cut) = s.discount
      /\ Total(s.lines) = 0 => Total(cut) = 0
      /\ \A i \in D : cut[i] <= s.lines[i]
  BY <1>1, AllocationAdds
<1>7. Total(cut) = s.discount BY <1>1, <1>6
<1> HIDE DEF cut
<1>8. net \in [D -> Nat] /\ \A i \in D : net[i] = s.lines[i] - cut[i]
  <2>1. \A i \in D : s.lines[i] \in Nat /\ cut[i] \in Nat /\ cut[i] <= s.lines[i] BY <1>5, <1>6
  <2> QED BY <2>1
<1> HIDE DEF net
<1>9. Total(net) = Total(s.lines) - s.discount
  <2> DEFINE c == -1
             w == s.lines
  <2>1. \A i \in D : w[i] \in Int /\ cut[i] \in Int /\ net[i] = w[i] + c * cut[i]
    <3>1. \A i \in D : s.lines[i] \in Nat /\ cut[i] \in Nat BY <1>5, <1>6
    <3> HIDE DEF D
    <3> QED BY <1>8, <3>1
  <2>2. c \in Int /\ IsFiniteSet(D) BY <1>5
  <2>9. c = -1 OBVIOUS
  <2> HIDE DEF D, c, w
  <2>3. SumFunctionOnSet(net, D) = SumFunctionOnSet(w, D) + c * SumFunctionOnSet(cut, D)
    BY ONLY <2>1, <2>2, SumLinear
  <2>4. Total(net) = SumFunctionOnSet(net, D) /\ Total(cut) = SumFunctionOnSet(cut, D)
        /\ Total(s.lines) = SumFunctionOnSet(w, D)
    BY <1>6, <1>8 DEF Total, SumFunction, D, w
  <2> QED BY <1>1, <1>6, <1>7, <2>3, <2>4, <2>9
<1>10. net \in Seq(Nat) /\ DOMAIN net = D
  <2>1. net \in [1..Len(s.lines) -> Nat] BY <1>5, <1>8
  <2> QED BY <1>5, <1>8, <2>1, SequenceOf
<1>11. /\ Total(net) \in Nat /\ tax \in [D -> Nat]
       /\ Total(net) > 0 => Total(tax) = s.tax
       /\ Total(net) = 0 => Total(tax) = 0
       /\ \A i \in D : tax[i] <= net[i]
  <2>1. s.tax <= Total(net) BY <1>1, <1>9
  <2> QED BY <1>1, <1>10, <2>1, AllocationAdds
<1>12. Total(tax) = s.tax BY <1>1, <1>9, <1>11
<1> HIDE DEF tax
<1> DEFINE base(i) == IF incl THEN net[i] - tax[i] ELSE net[i]
<1>13. \A i \in D : net[i] \in Nat /\ tax[i] \in Nat /\ base(i) \in Int /\ base(i) >= 0
                    /\ base(i) = net[i] - (IF incl THEN tax[i] ELSE 0)
  <2>1. \A i \in D : net[i] \in Nat /\ tax[i] \in Nat /\ tax[i] <= net[i] BY <1>8, <1>11
  <2> HIDE DEF D
  <2> QED BY <1>4, <2>1
<1>14. ASSUME NEW i \in D
       PROVE  /\ ls[i] \in InvoiceLine /\ ls[i].taxable = base(i)
              /\ ls[i].cgst + ls[i].sgst + ls[i].igst = tax[i]
  <2>1. ls[i] = LineOf(base(i), tax[i], intra) BY <1>2
  <2>2. base(i) \in Int /\ tax[i] \in Nat BY <1>13
  <2> HIDE DEF base
  <2> QED BY <2>1, <2>2, LineIs
<1>15. DOMAIN ls = D BY <1>2
<1>16. ls \in Seq(InvoiceLine)
  <2>1. ls \in [D -> InvoiceLine] BY <1>2, <1>14
  <2>2. ls \in [1..Len(s.lines) -> InvoiceLine] BY <1>5, <2>1
  <2> QED BY <1>5, <2>2, SequenceOf
<1>17. TaxOf(ls) = s.tax
  <2> DEFINE f == [i \in DOMAIN ls |-> ls[i].cgst + ls[i].sgst + ls[i].igst]
  <2>1. DOMAIN f = D /\ \A i \in D : f[i] = tax[i] BY <1>14, <1>15
  <2>2. TaxOf(ls) = SumFunctionOnSet(f, D) BY <2>1 DEF TaxOf, Total, SumFunction
  <2> HIDE DEF f, D
  <2>3. SumFunctionOnSet(f, D) = SumFunctionOnSet(tax, D) BY <1>5, <2>1, SumSame
  <2>4. Total(tax) = SumFunctionOnSet(tax, D) BY <1>11 DEF Total, SumFunction, D
  <2> QED BY <1>12, <2>2, <2>3, <2>4
<1>18. TaxableOf(ls) = NetOf(s) - (IF incl THEN s.tax ELSE 0)
  <2> DEFINE f == [i \in DOMAIN ls |-> ls[i].taxable]
             c == IF incl THEN -1 ELSE 0
  <2>1. DOMAIN f = D /\ \A i \in D : f[i] = base(i) BY <1>14, <1>15
  <2>2. TaxableOf(ls) = SumFunctionOnSet(f, D) BY <2>1 DEF TaxableOf, Total, SumFunction
  <2>3. \A i \in D : net[i] \in Int /\ tax[i] \in Int /\ f[i] = net[i] + c * tax[i]
    <3> SUFFICES ASSUME NEW i \in D PROVE net[i] \in Int /\ tax[i] \in Int /\ f[i] = net[i] + c * tax[i] OBVIOUS
    <3>1. net[i] \in Nat /\ tax[i] \in Nat /\ f[i] = net[i] - (IF incl THEN tax[i] ELSE 0) BY <1>13, <2>1
    <3> HIDE DEF f, D
    <3>2. CASE incl BY <3>1, <3>2
    <3>3. CASE ~incl BY <3>1, <3>3
    <3> QED BY <3>2, <3>3
  <2>4. c \in Int /\ IsFiniteSet(D) BY <1>5
  <2> HIDE DEF f, D, c
  <2>5. SumFunctionOnSet(f, D) = SumFunctionOnSet(net, D) + c * SumFunctionOnSet(tax, D) BY ONLY <2>3, <2>4, SumLinear
  <2>6. SumFunctionOnSet(net, D) = NetOf(s) /\ SumFunctionOnSet(tax, D) = s.tax
    BY <1>3, <1>8, <1>9, <1>11, <1>12 DEF Total, SumFunction, D
  <2>7. TaxableOf(ls) = NetOf(s) + c * s.tax BY <2>2, <2>5, <2>6
  <2>8. NetOf(s) \in Int /\ s.tax \in Nat BY <1>1, <1>3, <1>6
  <2>9. CASE incl BY <2>7, <2>8, <2>9 DEF c
  <2>10. CASE ~incl BY <2>7, <2>8, <2>10 DEF c
  <2> QED BY <2>9, <2>10
<1>19. \A i \in DOMAIN ls : ls[i].taxable >= 0 BY <1>13, <1>14, <1>15
<1> QED BY <1>16, <1>17, <1>18, <1>19 DEF ls, s, incl

IssuedIn(v) == {o \in Sales : v[o].at = "issued"}
(* What holds of each order: its amounts add up, its invoice carries them, and a number
   asked for is at most one past those issued, k. *)
OrderHolds(s, v, n, k) ==
    /\ s # NoSale => SaleAddsUp(s)
    /\ v # NoInvoice => s # NoSale /\ LinesAddUp(s, v)
    /\ n > 0 => v # NoInvoice /\ v.at = "draft" /\ n <= k + 1
InvoiceInv ==
    /\ InvoiceTypeOK
    /\ IsFiniteSet(Issued) /\ NumbersAreSequential
    /\ \A o \in Sales :
         /\ OrderHolds(sale[o], invoice[o], issuing[o], Cardinality(Issued))
         /\ NotesFit(sale[o], invoice[o], creditNotes[o])

LEMMA SaleOrNone ==
    ASSUME NEW s \in {NoSale} \cup Sale
    PROVE  /\ s.at \in {"none", "pending", "paid", "done"} /\ (s = NoSale <=> s.at = "none")
           /\ s # NoSale => s \in Sale
<1>1. CASE s = NoSale BY <1>1 DEF NoSale
<1>2. CASE s \in Sale
  <2>1. s.at \in {"pending", "paid", "done"} BY <1>2 DEF Sale
  <2> QED BY <1>2, <2>1 DEF NoSale
<1> QED BY <1>1, <1>2

LEMMA InvoiceOrNone ==
    ASSUME NEW v \in {NoInvoice} \cup Invoice
    PROVE  /\ v.at \in {"none", "draft", "issued"} /\ (v = NoInvoice <=> v.at = "none")
           /\ v # NoInvoice => v \in Invoice
<1>1. CASE v = NoInvoice BY <1>1 DEF NoInvoice
<1>2. CASE v \in Invoice
  <2>1. v.at \in {"draft", "issued"} BY <1>2 DEF Invoice
  <2> QED BY <1>2, <2>1 DEF NoInvoice
<1> QED BY <1>1, <1>2

LEMMA OrderTyped ==
    ASSUME InvoiceTypeOK, NEW o \in Sales
    PROVE  /\ sale[o] \in {NoSale} \cup Sale /\ invoice[o] \in {NoInvoice} \cup Invoice
           /\ issuing[o] \in Nat /\ creditNotes[o] \in Seq(CreditNote)
  BY DEF InvoiceTypeOK

LEMMA InvoicesStart == InvoiceInit => InvoiceInv
<1> SUFFICES ASSUME InvoiceInit PROVE InvoiceInv OBVIOUS
<1>1. InvoiceTypeOK
  <2>1. << >> \in Seq(CreditNote) OBVIOUS
  <2> QED BY <2>1 DEF InvoiceInit, InvoiceTypeOK
<1>2. \A o \in Sales : sale[o] = NoSale /\ invoice[o] = NoInvoice /\ issuing[o] = 0 /\ creditNotes[o] = << >>
  BY DEF InvoiceInit
<1>3. Issued = {} BY <1>2 DEF Issued, NoInvoice
<1>4. IsFiniteSet({}) /\ Cardinality({}) = 0 BY FS_EmptySet
<1>5. NumbersAreSequential
  <2>1. {invoice[o].number : o \in Issued} = {} BY <1>3
  <2>2. 1..0 = {} OBVIOUS
  <2> QED BY <1>3, <1>4, <2>1, <2>2 DEF NumbersAreSequential
<1> QED BY <1>1, <1>2, <1>3, <1>4, <1>5 DEF InvoiceInv, OrderHolds, NotesFit

(* A step that touches one order and issues nothing. *)
LEMMA OneOrder ==
    ASSUME InvoiceInv, InvoiceTypeOK', NEW o \in Sales,
           \A p \in Sales \ {o} : /\ sale'[p] = sale[p] /\ invoice'[p] = invoice[p]
                                  /\ issuing'[p] = issuing[p] /\ creditNotes'[p] = creditNotes[p],
           invoice'[o].at = "issued" <=> invoice[o].at = "issued",
           invoice[o].at = "issued" => invoice'[o].number = invoice[o].number,
           OrderHolds(sale'[o], invoice'[o], issuing'[o], Cardinality(Issued)),
           NotesFit(sale'[o], invoice'[o], creditNotes'[o])
    PROVE  InvoiceInv'
<1>1. Issued' = Issued
  <2>1. Issued' = IssuedIn(invoice') /\ Issued = IssuedIn(invoice) BY DEF Issued, IssuedIn
  <2>2. \A p \in Sales : invoice'[p].at = "issued" <=> invoice[p].at = "issued" OBVIOUS
  <2>3. IssuedIn(invoice') = IssuedIn(invoice) BY <2>2 DEF IssuedIn
  <2> QED BY <2>1, <2>3
<1>2. {invoice'[p].number : p \in Issued} = {invoice[p].number : p \in Issued}
  <2>1. \A p \in Issued : invoice'[p].number = invoice[p].number BY DEF Issued
  <2> QED BY <2>1
<1>3. NumbersAreSequential' BY <1>1, <1>2 DEF NumbersAreSequential, InvoiceInv
<1>4. IsFiniteSet(Issued') /\ Cardinality(Issued') = Cardinality(Issued) BY <1>1 DEF InvoiceInv
<1>5. ASSUME NEW p \in Sales
      PROVE  /\ OrderHolds(sale'[p], invoice'[p], issuing'[p], Cardinality(Issued'))
             /\ NotesFit(sale'[p], invoice'[p], creditNotes'[p])
  <2>1. OrderHolds(sale[p], invoice[p], issuing[p], Cardinality(Issued)) /\ NotesFit(sale[p], invoice[p], creditNotes[p])
    BY DEF InvoiceInv
  <2>2. CASE p = o BY <1>4, <2>2
  <2>3. CASE p # o
    <3>1. /\ sale'[p] = sale[p] /\ invoice'[p] = invoice[p]
          /\ issuing'[p] = issuing[p] /\ creditNotes'[p] = creditNotes[p]
      BY <2>3
    <3> QED BY <1>4, <2>1, <3>1
  <2> QED BY <2>2, <2>3
<1> QED BY <1>3, <1>4, <1>5 DEF InvoiceInv

LEMMA SettingsKeep ==
    ASSUME InvoiceInv, NEW row \in CheckoutRows, SetCheckoutSettings(row)
    PROVE  InvoiceInv'
<1>1. /\ settings' = row /\ settingsSet' = settingsSet + 1 /\ sale' = sale /\ invoice' = invoice
      /\ issuing' = issuing /\ creditNotes' = creditNotes
  BY DEF SetCheckoutSettings
<1>2. InvoiceTypeOK' BY <1>1 DEF InvoiceInv, InvoiceTypeOK
<1>3. Issued' = Issued BY <1>1 DEF Issued
<1>4. NumbersAreSequential' BY <1>1, <1>3 DEF InvoiceInv, NumbersAreSequential
<1> QED BY <1>1, <1>2, <1>3, <1>4 DEF InvoiceInv

LEMMA BuyKeeps ==
    ASSUME InvoiceInv, NEW o \in Sales, NEW lines \in Baskets, NEW asked \in Discounts, Buy(o, lines, asked)
    PROVE  InvoiceInv'
<1> DEFINE q == Quote(lines, asked)
<1>1. /\ sale[o] = NoSale /\ sale' = [sale EXCEPT ![o] = q] /\ settings' = settings /\ invoice' = invoice
      /\ issuing' = issuing /\ creditNotes' = creditNotes /\ settingsSet' = settingsSet
  BY DEF Buy
<1>2. InvoiceTypeOK BY DEF InvoiceInv
<1>3. q \in Sale /\ SaleAddsUp(q) BY <1>2, QuoteHolds
<1> HIDE DEF q
<1>4. InvoiceTypeOK' BY <1>1, <1>2, <1>3 DEF InvoiceTypeOK
<1>5. OrderHolds(sale[o], invoice[o], issuing[o], Cardinality(Issued)) /\ NotesFit(sale[o], invoice[o], creditNotes[o])
  BY DEF InvoiceInv
<1>6. invoice[o] = NoInvoice /\ issuing[o] \in Nat /\ ~(issuing[o] > 0)
  <2>1. invoice[o] = NoInvoice BY <1>1, <1>5 DEF OrderHolds
  <2>2. issuing[o] \in Nat BY <1>2, OrderTyped
  <2> QED BY <1>5, <2>1, <2>2 DEF OrderHolds
<1>7. creditNotes[o] = << >>
  <2>1. invoice[o].at = "none" BY <1>6 DEF NoInvoice
  <2> QED BY <1>5, <2>1 DEF NotesFit
<1>8. sale'[o] = q /\ \A p \in Sales \ {o} : sale'[p] = sale[p] BY <1>1, <1>2 DEF InvoiceTypeOK
<1>9. OrderHolds(sale'[o], invoice'[o], issuing'[o], Cardinality(Issued)) BY <1>1, <1>3, <1>6, <1>8 DEF OrderHolds
<1>10. NotesFit(sale'[o], invoice'[o], creditNotes'[o]) BY <1>1, <1>7 DEF NotesFit
<1> QED BY <1>1, <1>4, <1>8, <1>9, <1>10, OneOrder

(* Moving an order on leaves its amounts. *)
LEMMA AmountsStay ==
    ASSUME NEW s \in Sale, NEW to \in {"paid", "done"}
    PROVE  /\ [s EXCEPT !.at = to] \in Sale /\ [s EXCEPT !.at = to].at = to
           /\ SaleAddsUp(s) => SaleAddsUp([s EXCEPT !.at = to])
           /\ \A v : LinesAddUp(s, v) => LinesAddUp([s EXCEPT !.at = to], v)
           /\ \A v, notes : NotesFit(s, v, notes) => NotesFit([s EXCEPT !.at = to], v, notes)
<1> DEFINE t == [s EXCEPT !.at = to]
<1>1. t \in Sale /\ t.at = to BY DEF Sale
<1>2. /\ t.lines = s.lines /\ t.discount = s.discount /\ t.tax = s.tax /\ t.shipping = s.shipping
      /\ t.total = s.total /\ t.inclusive = s.inclusive
  OBVIOUS
<1> HIDE DEF t
<1>3. SaleAddsUp(s) => SaleAddsUp(t) BY <1>2 DEF SaleAddsUp, NetOf
<1>4. \A v : LinesAddUp(s, v) => LinesAddUp(t, v)
  <2>1. t.at # "pending" BY <1>1
  <2> QED BY <1>2, <2>1 DEF LinesAddUp
<1>5. \A v, notes : NotesFit(s, v, notes) => NotesFit(t, v, notes) BY <1>2 DEF NotesFit
<1> QED BY <1>1, <1>3, <1>4, <1>5 DEF t

LEMMA CaptureKeeps ==
    ASSUME InvoiceInv, NEW o \in Sales, CaptureSale(o)
    PROVE  InvoiceInv'
<1> DEFINE t == [sale[o] EXCEPT !.at = "paid"]
<1>1. /\ sale[o].at = "pending" /\ sale' = [sale EXCEPT ![o] = t] /\ settings' = settings /\ invoice' = invoice
      /\ issuing' = issuing /\ creditNotes' = creditNotes /\ settingsSet' = settingsSet
  BY DEF CaptureSale
<1>2. InvoiceTypeOK BY DEF InvoiceInv
<1>3. sale[o] \in Sale /\ sale[o] # NoSale
  <2>1. sale[o] \in {NoSale} \cup Sale BY <1>2, OrderTyped
  <2> QED BY <1>1, <2>1, SaleOrNone
<1>4. /\ t \in Sale /\ t.at = "paid" /\ (SaleAddsUp(sale[o]) => SaleAddsUp(t))
      /\ \A v, notes : NotesFit(sale[o], v, notes) => NotesFit(t, v, notes)
  BY <1>3, AmountsStay
<1>5. OrderHolds(sale[o], invoice[o], issuing[o], Cardinality(Issued)) /\ NotesFit(sale[o], invoice[o], creditNotes[o])
  BY DEF InvoiceInv
<1> HIDE DEF t
<1>6. InvoiceTypeOK' BY <1>1, <1>2, <1>4 DEF InvoiceTypeOK
<1>7. invoice[o] = NoInvoice /\ ~(issuing[o] > 0) BY <1>1, <1>5 DEF OrderHolds, LinesAddUp
<1>8. sale'[o] = t /\ \A p \in Sales \ {o} : sale'[p] = sale[p] BY <1>1, <1>2 DEF InvoiceTypeOK
<1>9. OrderHolds(sale'[o], invoice'[o], issuing'[o], Cardinality(Issued))
  BY <1>1, <1>3, <1>4, <1>5, <1>7, <1>8 DEF OrderHolds
<1>10. NotesFit(sale'[o], invoice'[o], creditNotes'[o]) BY <1>1, <1>4, <1>5, <1>8
<1> QED BY <1>1, <1>6, <1>8, <1>9, <1>10, OneOrder

LEMMA DraftKeeps ==
    ASSUME InvoiceInv, NEW o \in Sales, NEW intra \in BOOLEAN, DraftInvoice(o, intra)
    PROVE  InvoiceInv'
<1> DEFINE s == sale[o]
           ls == LinesOf(o, intra)
           off == s.total - (TaxableOf(ls) + TaxOf(ls) + s.shipping)
           v == [at |-> "draft", number |-> 0, lines |-> ls, intra |-> intra,
                 inclusive |-> settings.inclusive, roundOff |-> off]
<1>1. /\ s.at = "paid" /\ invoice[o] = NoInvoice /\ invoice' = [invoice EXCEPT ![o] = v]
      /\ settings' = settings /\ sale' = sale
      /\ issuing' = issuing /\ creditNotes' = creditNotes /\ settingsSet' = settingsSet
  BY DEF DraftInvoice
<1>2. InvoiceTypeOK BY DEF InvoiceInv
<1>3. OrderHolds(s, invoice[o], issuing[o], Cardinality(Issued)) /\ NotesFit(s, invoice[o], creditNotes[o])
  BY DEF InvoiceInv
<1>4. s \in Sale /\ s # NoSale
  <2>1. sale[o] \in {NoSale} \cup Sale BY <1>2, OrderTyped
  <2> QED BY <1>1, <2>1, SaleOrNone
<1>5. SaleAddsUp(s) BY <1>3, <1>4 DEF OrderHolds
<1>6. /\ ls \in Seq(InvoiceLine) /\ \A i \in DOMAIN ls : ls[i].taxable >= 0
      /\ TaxOf(ls) = s.tax
      /\ TaxableOf(ls) = NetOf(s) - (IF settings.inclusive THEN s.tax ELSE 0)
  BY <1>2, <1>4, <1>5, LinesHold
<1>7. settings.inclusive \in BOOLEAN
  <2>1. settings \in [bps : 0..10000, inclusive : BOOLEAN, flat : Nat, freeOver : Nat]
    BY <1>2, InvoiceAssumption DEF InvoiceTypeOK
  <2> QED BY <2>1
<1>8. /\ s.tax \in Nat /\ s.shipping \in Nat /\ s.total \in Nat /\ NetOf(s) \in Int
      /\ s.total = NetOf(s) + s.shipping + (IF s.inclusive THEN 0 ELSE s.tax)
  <2>1. s.lines \in Baskets /\ s.discount \in Nat /\ s.tax \in Nat /\ s.shipping \in Nat /\ s.total \in Nat BY <1>4 DEF Sale
  <2>2. Total(s.lines) \in Nat
    <3>1. s.lines \in Seq(Nat) BY <2>1, InvoiceAssumption
    <3> QED BY <3>1, AllocationAdds
  <2>3. NetOf(s) \in Int
    <3>1. NetOf(s) = Total(s.lines) - s.discount BY DEF NetOf
    <3> HIDE DEF s
    <3> QED BY <2>1, <2>2, <3>1
  <2> QED BY <1>5, <2>1, <2>3 DEF SaleAddsUp
<1>9. off \in Int /\ ((settings.inclusive = s.inclusive \/ s.tax = 0) => off = 0)
  <2> DEFINE net == NetOf(s)
             tax == s.tax
             ship == s.shipping
             a == IF settings.inclusive THEN tax ELSE 0
             b == IF s.inclusive THEN 0 ELSE tax
  <2>1. off = (net + ship + b) - ((net - a) + tax + ship)
    BY <1>6, <1>8
  <2>2. net \in Int /\ tax \in Nat /\ ship \in Nat BY <1>8
  <2> HIDE DEF net, tax, ship, off
  <2>3. a \in Nat /\ b \in Nat /\ (tax = 0 => a = 0 /\ b = 0) BY <2>2
  <2>4. settings.inclusive = s.inclusive => a + b = tax BY <2>2
  <2> HIDE DEF a, b
  <2>5. off \in Int /\ (a + b = tax => off = 0) BY <2>1, <2>2, <2>3
  <2> QED BY <2>3, <2>4, <2>5 DEF tax
<1> HIDE DEF off, ls
<1>10. v \in Invoice BY <1>6, <1>7, <1>9 DEF Invoice
<1>11. v.at = "draft" /\ v.lines = ls /\ v.inclusive = settings.inclusive /\ v.roundOff = off OBVIOUS
<1> HIDE DEF v
<1>12. v # NoInvoice BY <1>10, <1>11, InvoiceOrNone
<1>13. s.at # "pending" BY <1>1
<1> HIDE DEF s
<1>14. LinesAddUp(s, v) BY <1>6, <1>9, <1>11, <1>13 DEF LinesAddUp
<1>15. InvoiceTypeOK' BY <1>1, <1>2, <1>10 DEF InvoiceTypeOK
<1>16. invoice'[o] = v /\ \A p \in Sales \ {o} : invoice'[p] = invoice[p] BY <1>1, <1>2 DEF InvoiceTypeOK
<1>17. invoice[o].at = "none" BY <1>1 DEF NoInvoice
<1>18. creditNotes[o] = << >> BY <1>3, <1>17 DEF NotesFit
<1>19. ~(issuing[o] > 0) BY <1>1, <1>3 DEF OrderHolds
<1>20. OrderHolds(sale'[o], invoice'[o], issuing'[o], Cardinality(Issued))
  BY <1>1, <1>3, <1>4, <1>12, <1>14, <1>16, <1>19 DEF OrderHolds, s
<1>21. NotesFit(sale'[o], invoice'[o], creditNotes'[o]) BY <1>1, <1>18 DEF NotesFit
<1> QED BY <1>1, <1>11, <1>15, <1>16, <1>17, <1>20, <1>21, OneOrder

(* The numbers so far are 1 to their count, so the last one is the count. *)
LEMMA LastIsCount ==
    ASSUME InvoiceInv
    PROVE  Cardinality(Issued) \in Nat /\ LastNumber = Cardinality(Issued)
<1> DEFINE k == Cardinality(Issued)
           N == {0} \cup {invoice[o].number : o \in Issued}
<1>1. k \in Nat
  <2>1. IsFiniteSet(Issued) BY DEF InvoiceInv
  <2> QED BY <2>1, FS_CardinalityType
<1>2. N = {0} \cup 1..k BY DEF InvoiceInv, NumbersAreSequential
<1>3. LastNumber = Max(N) BY DEF LastNumber
<1> HIDE DEF k, N
<1>4. N = 0..k BY <1>1, <1>2
<1>5. Max(0..k) = k
  <2>1. k \in 0..k /\ \A y \in 0..k : k >= y BY <1>1
  <2>2. \A x \in 0..k : (\A y \in 0..k : x >= y) => x = k BY <1>1
  <2> QED BY <2>1, <2>2 DEF Max
<1> QED BY <1>1, <1>3, <1>4, <1>5 DEF k

(* NumberInvoice: the number asked for is at most one past the count. *)
LEMMA NumberKeeps ==
    ASSUME InvoiceInv, NEW o \in Sales, NumberInvoice(o)
    PROVE  InvoiceInv'
<1> DEFINE n == LastNumber + 1
           k == Cardinality(Issued)
<1>1. /\ invoice[o].at = "draft" /\ issuing' = [issuing EXCEPT ![o] = n] /\ invoice' = invoice
      /\ settings' = settings /\ sale' = sale /\ creditNotes' = creditNotes /\ settingsSet' = settingsSet
  BY DEF NumberInvoice
<1>2. InvoiceTypeOK BY DEF InvoiceInv
<1>3. OrderHolds(sale[o], invoice[o], issuing[o], k) /\ NotesFit(sale[o], invoice[o], creditNotes[o])
  BY DEF InvoiceInv
<1>4. k \in Nat /\ n = k + 1 BY LastIsCount
<1> HIDE DEF n, k
<1>5. n \in Nat BY <1>4
<1>6. invoice[o] # NoInvoice BY <1>1 DEF NoInvoice
<1>7. InvoiceTypeOK' BY <1>1, <1>2, <1>5 DEF InvoiceTypeOK
<1>8. issuing'[o] = n /\ \A p \in Sales \ {o} : issuing'[p] = issuing[p] BY <1>1, <1>2 DEF InvoiceTypeOK
<1>9. n <= k + 1 BY <1>4
<1>10. OrderHolds(sale'[o], invoice'[o], issuing'[o], k) BY <1>1, <1>3, <1>6, <1>8, <1>9 DEF OrderHolds
<1>11. NotesFit(sale'[o], invoice'[o], creditNotes'[o]) BY <1>1, <1>3
<1> QED BY <1>1, <1>7, <1>8, <1>10, <1>11, OneOrder DEF k

LEMMA Numbered ==
    ASSUME NEW v \in Invoice, NEW n \in Nat
    PROVE  LET w == [v EXCEPT !.at = "issued", !.number = n]
           IN  /\ w \in Invoice /\ w.at = "issued" /\ w.number = n
               /\ \A s : LinesAddUp(s, v) => LinesAddUp(s, w)
<1> DEFINE w == [v EXCEPT !.at = "issued", !.number = n]
<1>1. w \in Invoice /\ w.at = "issued" /\ w.number = n BY DEF Invoice
<1>2. w.lines = v.lines /\ w.inclusive = v.inclusive /\ w.roundOff = v.roundOff BY DEF Invoice
<1> HIDE DEF w
<1>3. \A s : LinesAddUp(s, v) => LinesAddUp(s, w) BY <1>2 DEF LinesAddUp
<1> QED BY <1>1, <1>3 DEF w

(* IssueInvoice: a number that is free and at most one past the count is the next. *)
LEMMA IssueKeeps ==
    ASSUME InvoiceInv, NEW o \in Sales, IssueInvoice(o)
    PROVE  InvoiceInv'
<1> DEFINE n == issuing[o]
           k == Cardinality(Issued)
           t == [sale[o] EXCEPT !.at = "done"]
           v == [invoice[o] EXCEPT !.at = "issued", !.number = n]
           w == IF NumberTaken(n) THEN NoInvoice ELSE v
<1>1. /\ n > 0 /\ invoice' = [invoice EXCEPT ![o] = w] /\ sale' = [sale EXCEPT ![o] = t]
      /\ issuing' = [issuing EXCEPT ![o] = 0]
      /\ settings' = settings /\ creditNotes' = creditNotes /\ settingsSet' = settingsSet
  BY DEF IssueInvoice
<1>2. InvoiceTypeOK BY DEF InvoiceInv
<1>3. OrderHolds(sale[o], invoice[o], issuing[o], k) /\ NotesFit(sale[o], invoice[o], creditNotes[o])
  BY DEF InvoiceInv
<1>4. n \in Nat BY <1>2, OrderTyped
<1>5. /\ invoice[o] # NoInvoice /\ invoice[o].at = "draft" /\ n <= k + 1
      /\ sale[o] # NoSale /\ LinesAddUp(sale[o], invoice[o]) /\ SaleAddsUp(sale[o])
  BY <1>1, <1>3 DEF OrderHolds
<1>6. sale[o] \in Sale
  <2>1. sale[o] \in {NoSale} \cup Sale BY <1>2, OrderTyped
  <2> QED BY <1>5, <2>1, SaleOrNone
<1>7. invoice[o] \in Invoice
  <2>1. invoice[o] \in {NoInvoice} \cup Invoice BY <1>2, OrderTyped
  <2> QED BY <1>5, <2>1, InvoiceOrNone
<1>8. /\ t \in Sale /\ t.at = "done" /\ SaleAddsUp(t) /\ (\A u : LinesAddUp(sale[o], u) => LinesAddUp(t, u))
  BY <1>5, <1>6, AmountsStay
<1>9. v \in Invoice /\ v.at = "issued" /\ v.number = n /\ (\A s : LinesAddUp(s, invoice[o]) => LinesAddUp(s, v))
  BY <1>4, <1>7, Numbered
<1>10. creditNotes[o] = << >> BY <1>3, <1>5 DEF NotesFit
<1>11. k \in Nat BY LastIsCount
<1> HIDE DEF n, k, t, v
<1>12. t # NoSale
  <2>1. t \in {NoSale} \cup Sale BY <1>8
  <2> QED BY <1>8, <2>1, SaleOrNone
<1>13. InvoiceTypeOK'
  <2>1. w \in {NoInvoice} \cup Invoice BY <1>9
  <2> HIDE DEF w
  <2> QED BY <1>1, <1>2, <1>8, <2>1 DEF InvoiceTypeOK
<1>14. /\ sale'[o] = t /\ invoice'[o] = w /\ issuing'[o] = 0 /\ creditNotes'[o] = << >>
       /\ \A p \in Sales \ {o} : /\ sale'[p] = sale[p] /\ invoice'[p] = invoice[p]
                                 /\ issuing'[p] = issuing[p] /\ creditNotes'[p] = creditNotes[p]
  BY <1>1, <1>2, <1>10 DEF InvoiceTypeOK
<1>15. \A j : OrderHolds(t, w, 0, j)
  <2>1. ~(0 > 0) OBVIOUS
  <2>2. w # NoInvoice => LinesAddUp(t, w)
    <3>1. LinesAddUp(t, v) BY <1>5, <1>8, <1>9
    <3> QED BY <3>1
  <2> HIDE DEF w
  <2> QED BY <1>8, <1>12, <2>1, <2>2 DEF OrderHolds
<1>16. NotesFit(sale'[o], invoice'[o], creditNotes'[o]) BY <1>14 DEF NotesFit
<1>17. OrderHolds(sale'[o], invoice'[o], issuing'[o], Cardinality(Issued)) BY <1>14, <1>15
<1>18. CASE NumberTaken(n)
  <2>1. invoice'[o].at = "none" BY <1>14, <1>18 DEF NoInvoice
  <2>2. (invoice'[o].at = "issued" <=> invoice[o].at = "issued")
        /\ (invoice[o].at = "issued" => invoice'[o].number = invoice[o].number)
    BY <1>5, <2>1
  <2> QED BY <1>13, <1>14, <1>16, <1>17, <2>2, OneOrder
<1>19. CASE ~NumberTaken(n)
  <2>1. invoice'[o] = v BY <1>14, <1>19
  <2>2. Issued' = Issued \cup {o} /\ o \notin Issued
    <3>1. Issued' = IssuedIn(invoice') /\ Issued = IssuedIn(invoice) BY DEF Issued, IssuedIn
    <3>2. invoice'[o].at = "issued" /\ invoice[o].at # "issued" BY <1>5, <1>9, <2>1
    <3>3. \A p \in Sales \ {o} : invoice'[p].at = "issued" <=> invoice[p].at = "issued" BY <1>14
    <3>4. IssuedIn(invoice') = IssuedIn(invoice) \cup {o} /\ o \notin IssuedIn(invoice) BY <3>2, <3>3 DEF IssuedIn
    <3> QED BY <3>1, <3>4
  <2>3. IsFiniteSet(Issued') /\ Cardinality(Issued') = k + 1
    <3>1. IsFiniteSet(Issued) BY DEF InvoiceInv
    <3>2. IsFiniteSet(Issued \cup {o}) /\ Cardinality(Issued \cup {o}) = Cardinality(Issued) + 1
      BY <2>2, <3>1, FS_AddElement
    <3> QED BY <2>2, <3>2 DEF k
  <2>4. {invoice[p].number : p \in Issued} = 1..k BY DEF InvoiceInv, NumbersAreSequential, k
  <2>5. n = k + 1
    <3>1. n \notin 1..k BY <1>19, <2>4 DEF NumberTaken
    <3> QED BY <1>1, <1>4, <1>5, <1>11, <3>1
  <2>6. {invoice'[p].number : p \in Issued \cup {o}} = 1..k \cup {n}
    <3>1. \A p \in Issued : invoice'[p].number = invoice[p].number BY <1>14, <2>2 DEF Issued
    <3>2. {invoice'[p].number : p \in Issued \cup {o}} = {invoice[p].number : p \in Issued} \cup {n}
      BY <1>9, <2>1, <3>1
    <3> QED BY <2>4, <3>2
  <2>7. 1..k \cup {n} = 1..(k + 1) BY <1>11, <2>5
  <2>8. NumbersAreSequential'
    <3>1. {invoice'[p].number : p \in Issued'} = 1..Cardinality(Issued') BY <2>2, <2>3, <2>6, <2>7
    <3> QED BY <3>1 DEF NumbersAreSequential
  <2>9. ASSUME NEW p \in Sales
        PROVE  /\ OrderHolds(sale'[p], invoice'[p], issuing'[p], Cardinality(Issued'))
               /\ NotesFit(sale'[p], invoice'[p], creditNotes'[p])
    <3>1. CASE p = o BY <1>14, <1>15, <1>16, <3>1
    <3>2. CASE p # o
      <4>1. OrderHolds(sale[p], invoice[p], issuing[p], k) /\ NotesFit(sale[p], invoice[p], creditNotes[p])
        BY DEF InvoiceInv, k
      <4>2. issuing[p] \in Nat BY <1>2, OrderTyped
      <4>3. OrderHolds(sale[p], invoice[p], issuing[p], k + 1)
        <5>1. issuing[p] <= k + 1 => issuing[p] <= (k + 1) + 1 BY <1>11, <4>2
        <5> QED BY <4>1, <5>1 DEF OrderHolds
      <4>4. /\ sale'[p] = sale[p] /\ invoice'[p] = invoice[p]
            /\ issuing'[p] = issuing[p] /\ creditNotes'[p] = creditNotes[p]
        BY <1>14, <3>2
      <4> QED BY <2>3, <4>1, <4>3, <4>4
    <3> QED BY <3>1, <3>2
  <2> QED BY <1>13, <2>3, <2>8, <2>9 DEF InvoiceInv
<1> QED BY <1>18, <1>19

(* Adding a credit note adds its amounts to the sums. *)
LEMMA NoteAdded ==
    ASSUME NEW notes \in Seq(CreditNote), NEW c \in CreditNote
    PROVE  /\ RefundedBy(notes) \in Nat /\ TaxCreditedBy(notes) \in Nat /\ Len(notes) \in Nat
           /\ RefundedBy(Append(notes, c)) = c.total + RefundedBy(notes)
           /\ TaxCreditedBy(Append(notes, c)) = c.tax + TaxCreditedBy(notes)
           /\ Append(notes, c) \in Seq(CreditNote) /\ Len(Append(notes, c)) = Len(notes) + 1
<1> DEFINE more == Append(notes, c)
           D == DOMAIN notes
           l == Len(notes)
           ft == [i \in DOMAIN notes |-> notes[i].total]
           gt == [i \in DOMAIN more |-> more[i].total]
           fx == [i \in DOMAIN notes |-> notes[i].tax]
           gx == [i \in DOMAIN more |-> more[i].tax]
<1>1. /\ l \in Nat /\ D = 1..l /\ more \in Seq(CreditNote) /\ Len(more) = l + 1
      /\ DOMAIN more = 1..(l + 1) /\ more[l + 1] = c /\ \A i \in 1..l : more[i] = notes[i]
      /\ \A i \in 1..l : notes[i] \in CreditNote
  OBVIOUS
<1>2. IsFiniteSet(D) /\ l + 1 \notin D /\ DOMAIN more = D \cup {l + 1}
  <2> HIDE DEF D, l, more
  <2>1. IsFiniteSet(1..l) BY <1>1, FS_Interval
  <2>2. l + 1 \notin 1..l /\ 1..(l + 1) = 1..l \cup {l + 1} BY <1>1
  <2> QED BY <1>1, <2>1, <2>2
<1>3. \A d \in CreditNote : d.total \in Nat /\ d.tax \in Nat BY DEF CreditNote
<1> HIDE DEF D, l, more
<1>4. /\ \A i \in D : ft[i] \in Nat /\ gt[i] = ft[i] /\ fx[i] \in Nat /\ gx[i] = fx[i]
      /\ gt[l + 1] = c.total /\ gx[l + 1] = c.tax /\ c.total \in Nat /\ c.tax \in Nat
  <2>1. \A i \in D : ft[i] = notes[i].total /\ gt[i] = more[i].total /\ fx[i] = notes[i].tax /\ gx[i] = more[i].tax
    BY <1>2 DEF D
  <2>2. gt[l + 1] = more[l + 1].total /\ gx[l + 1] = more[l + 1].tax BY <1>2
  <2> QED BY <1>1, <1>3, <2>1, <2>2
<1>5. /\ RefundedBy(notes) = SumFunctionOnSet(ft, D) /\ TaxCreditedBy(notes) = SumFunctionOnSet(fx, D)
      /\ RefundedBy(more) = SumFunctionOnSet(gt, D \cup {l + 1})
      /\ TaxCreditedBy(more) = SumFunctionOnSet(gx, D \cup {l + 1})
  BY <1>2 DEF RefundedBy, TaxCreditedBy, Total, SumFunction, D
<1> HIDE DEF ft, gt, fx, gx
<1>6. SumFunctionOnSet(ft, D) \in Nat /\ SumFunctionOnSet(fx, D) \in Nat BY <1>2, <1>4, SumNat
<1>7. SumFunctionOnSet(gt, D) = SumFunctionOnSet(ft, D) /\ SumFunctionOnSet(gx, D) = SumFunctionOnSet(fx, D)
  BY <1>2, <1>4, SumSame
<1>8. SumFunctionOnSet(gt, D \cup {l + 1}) = gt[l + 1] + SumFunctionOnSet(gt, D)
  <2>1. \A x \in D \cup {l + 1} : gt[x] \in Int BY <1>4
  <2> QED BY <1>2, <2>1, SumWith
<1>9. SumFunctionOnSet(gx, D \cup {l + 1}) = gx[l + 1] + SumFunctionOnSet(gx, D)
  <2>1. \A x \in D \cup {l + 1} : gx[x] \in Int BY <1>4
  <2> QED BY <1>2, <2>1, SumWith
<1>10. RefundedBy(more) = c.total + RefundedBy(notes) /\ TaxCreditedBy(more) = c.tax + TaxCreditedBy(notes)
  BY <1>4, <1>5, <1>7, <1>8, <1>9
<1> QED BY <1>1, <1>5, <1>6, <1>10 DEF more, l

LEMMA NoNotes == RefundedBy(<< >>) = 0 /\ TaxCreditedBy(<< >>) = 0 /\ Len(<< >>) = 0
<1> DEFINE e == << >>
           f == [i \in DOMAIN e |-> e[i].total]
           g == [i \in DOMAIN e |-> e[i].tax]
<1>1. DOMAIN e = {} /\ DOMAIN f = {} /\ DOMAIN g = {} OBVIOUS
<1>2. SumFunctionOnSet(f, {}) = 0 /\ SumFunctionOnSet(g, {}) = 0 BY SumEmpty
<1>3. RefundedBy(e) = SumFunctionOnSet(f, {}) /\ TaxCreditedBy(e) = SumFunctionOnSet(g, {})
  BY <1>1 DEF RefundedBy, TaxCreditedBy, Total, SumFunction
<1> QED BY <1>2, <1>3

(* One share more, rounded to within half a unit. *)
LEMMA OneShareMore ==
    ASSUME NEW t \in Nat, NEW T \in Nat, NEW C \in Nat, NEW R \in Nat, NEW x \in Nat, NEW r \in Nat, NEW l \in Nat,
           2 * (t * C) <= 2 * (T * R) + t * l, 2 * (t * x) <= 2 * (T * r) + t,
           2 * (T * R) <= 2 * (t * C) + t * l, 2 * (T * r) <= 2 * (t * x) + t
    PROVE  /\ 2 * (t * (x + C)) <= 2 * (T * (r + R)) + t * (l + 1)
           /\ 2 * (T * (r + R)) <= 2 * (t * (x + C)) + t * (l + 1)
<1>1. t * (x + C) = t * x + t * C /\ T * (r + R) = T * r + T * R /\ t * (l + 1) = t * l + t OBVIOUS
<1>2. t * x \in Nat /\ t * C \in Nat /\ T * r \in Nat /\ T * R \in Nat /\ t * l \in Nat OBVIOUS
<1> QED BY <1>1, <1>2

(* Two shares, each rounded to within half a unit, of parts that leave something. *)
LEMMA SharesFit ==
    ASSUME NEW t \in Nat, NEW T \in Nat, NEW S \in Nat, NEW x \in Nat, NEW y \in Nat, NEW r \in Nat,
           r > 0, T + S < t, 2 * (t * x) <= 2 * (T * r) + t, 2 * (t * y) <= 2 * (S * r) + t
    PROVE  x + y <= r
<1> SUFFICES ASSUME r + 1 <= x + y PROVE FALSE OBVIOUS
<1>1. (T + S) + 1 \in Nat /\ (T + S) + 1 <= t /\ r + 1 \in Nat /\ x + y \in Nat OBVIOUS
<1>2. t * (r + 1) <= t * (x + y) BY <1>1, Grows
<1>3. ((T + S) + 1) * r <= t * r BY <1>1, Grows
<1>4. /\ t * (r + 1) = t * r + t /\ t * (x + y) = t * x + t * y
      /\ ((T + S) + 1) * r = (T * r + S * r) + r
  OBVIOUS
<1>5. t * r \in Nat /\ t * x \in Nat /\ t * y \in Nat /\ T * r \in Nat /\ S * r \in Nat OBVIOUS
<1> QED BY <1>2, <1>3, <1>4, <1>5

(* CreditSale: the new note's shares are rounded to within half a unit, whatever was
   refunded before. *)
LEMMA CreditKeeps ==
    ASSUME InvoiceInv, NEW o \in Sales, NEW refund \in RefundAmounts, CreditSale(o, refund)
    PROVE  InvoiceInv'
<1> DEFINE s == sale[o]
           v == invoice[o]
           notes == creditNotes[o]
           c == NoteFor(o, refund)
           t == s.total
           T == TaxOf(v.lines)
<1>1. /\ v.at = "issued" /\ refund > 0 /\ refund <= t
      /\ creditNotes' = [creditNotes EXCEPT ![o] = Append(notes, c)]
      /\ settings' = settings /\ sale' = sale /\ invoice' = invoice /\ issuing' = issuing /\ settingsSet' = settingsSet
  BY DEF CreditSale
<1>2. InvoiceTypeOK BY DEF InvoiceInv
<1>3. OrderHolds(s, v, issuing[o], Cardinality(Issued)) /\ NotesFit(s, v, notes) BY DEF InvoiceInv
<1>4. v # NoInvoice BY <1>1 DEF NoInvoice
<1>5. s # NoSale /\ LinesAddUp(s, v) BY <1>3, <1>4 DEF OrderHolds
<1>6. t \in Nat /\ T \in Nat /\ s.shipping \in Nat
  <2>1. s \in {NoSale} \cup Sale BY <1>2, OrderTyped
  <2>2. s \in Sale BY <1>5, <2>1, SaleOrNone
  <2>3. s.total \in Nat /\ s.tax \in Nat /\ s.shipping \in Nat BY <2>2 DEF Sale
  <2> QED BY <1>5, <2>3 DEF LinesAddUp
<1>7. refund \in Nat BY InvoiceAssumption
<1>8. notes \in Seq(CreditNote) BY <1>2, OrderTyped
<1> DEFINE x == Share(T, refund, t)
           y == Share(s.shipping, refund, t)
           z == AtLeast(0, refund - x - y)
<1>9. c = [total |-> refund, tax |-> x, shipping |-> y, taxable |-> z] BY DEF NoteFor
<1> HIDE DEF T, t
<1>10. t > 0 BY <1>1, <1>6, <1>7
<1>11. AtMost(refund, t) = refund BY <1>1, <1>6, <1>7 DEF AtMost
<1>12. x \in Nat /\ 2 * (t * x) <= 2 * (T * refund) + t /\ 2 * (T * refund) <= 2 * (t * x) + t
  <2>1. T * refund \in Nat BY <1>6, <1>7
  <2>2. x = Rounded(T * refund, t) BY <1>11 DEF Share
  <2> HIDE DEF x
  <2> QED BY <1>6, <1>10, <2>1, <2>2, RoundedIs
<1> DEFINE S == s.shipping
<1>13. y \in Nat /\ S \in Nat /\ 2 * (t * y) <= 2 * (S * refund) + t
  <2>1. y = Rounded(S * refund, t) BY <1>11 DEF Share
  <2>2. S \in Nat BY <1>6
  <2> HIDE DEF y, S
  <2>3. S * refund \in Nat BY <1>7, <2>2
  <2> QED BY <1>6, <1>10, <2>1, <2>2, <2>3, RoundedIs
<1> HIDE DEF x, y
<1>14. z \in Nat BY <1>7, <1>12, <1>13 DEF AtLeast
<1>15. PartsAddUp(t, T, S, c)
  <2> HIDE DEF S
  <2>1. SUFFICES ASSUME T + S < t PROVE c.taxable + c.tax + c.shipping = c.total BY DEF PartsAddUp
  <2>2. x + y <= refund BY <1>1, <1>6, <1>7, <1>12, <1>13, <2>1, SharesFit
  <2>3. z = refund - x - y BY <1>7, <1>12, <1>13, <2>2 DEF AtLeast
  <2>4. c.taxable = z /\ c.tax = x /\ c.shipping = y /\ c.total = refund BY <1>9
  <2> QED BY <1>7, <1>12, <1>13, <2>3, <2>4
<1> HIDE DEF z
<1>16. c \in CreditNote /\ c.total = refund /\ c.tax = x BY <1>7, <1>9, <1>12, <1>13, <1>14 DEF CreditNote
<1> HIDE DEF c, notes
<1>17. /\ RefundedBy(notes) \in Nat /\ TaxCreditedBy(notes) \in Nat /\ Len(notes) \in Nat
       /\ RefundedBy(Append(notes, c)) = refund + RefundedBy(notes)
       /\ TaxCreditedBy(Append(notes, c)) = x + TaxCreditedBy(notes)
       /\ Append(notes, c) \in Seq(CreditNote) /\ Len(Append(notes, c)) = Len(notes) + 1
  BY <1>8, <1>16, NoteAdded
<1> DEFINE R == RefundedBy(notes)
           C == TaxCreditedBy(notes)
           l == Len(notes)
<1>18. 2 * (t * C) <= 2 * (T * R) + t * l /\ 2 * (T * R) <= 2 * (t * C) + t * l
  <2>1. CASE notes = << >>
    <3>1. R = 0 /\ C = 0 /\ l = 0 BY <2>1, NoNotes
    <3> HIDE DEF R, C, l
    <3> QED BY <1>6, <3>1
  <2>2. CASE notes # << >>
    <3>1. InProportion(t, T, notes) BY <1>3, <2>2 DEF NotesFit, t, T
    <3> QED BY <3>1 DEF InProportion
  <2> QED BY <2>1, <2>2
<1>19. R \in Nat /\ C \in Nat /\ l \in Nat BY <1>17
<1> HIDE DEF R, C, l
<1>20. /\ 2 * (t * (x + C)) <= 2 * (T * (refund + R)) + t * (l + 1)
       /\ 2 * (T * (refund + R)) <= 2 * (t * (x + C)) + t * (l + 1)
  BY <1>6, <1>7, <1>12, <1>18, <1>19, OneShareMore
<1>21. InProportion(t, T, Append(notes, c))
  <2>1. /\ RefundedBy(Append(notes, c)) = refund + R /\ TaxCreditedBy(Append(notes, c)) = x + C
        /\ Len(Append(notes, c)) = l + 1
    BY <1>17 DEF R, C, l
  <2> QED BY <1>20, <2>1 DEF InProportion
<1>22. \A i \in DOMAIN Append(notes, c) : PartsAddUp(t, T, S, Append(notes, c)[i])
  <2> SUFFICES ASSUME NEW i \in DOMAIN Append(notes, c) PROVE PartsAddUp(t, T, S, Append(notes, c)[i]) OBVIOUS
  <2>1. CASE i \in DOMAIN notes
    <3>1. Append(notes, c)[i] = notes[i] /\ notes # << >> BY <1>8, <2>1
    <3>2. PartsAddUp(t, T, S, notes[i]) BY <1>3, <2>1, <3>1 DEF NotesFit, t, T
    <3> QED BY <3>1, <3>2
  <2>2. CASE i \notin DOMAIN notes
    <3>1. Append(notes, c)[i] = c BY <1>8, <2>2
    <3> QED BY <1>15, <3>1
  <2> QED BY <2>1, <2>2
<1>23. NotesFit(s, v, Append(notes, c)) BY <1>1, <1>21, <1>22 DEF NotesFit, t, T
<1>24. InvoiceTypeOK' BY <1>1, <1>2, <1>17 DEF InvoiceTypeOK
<1>25. creditNotes'[o] = Append(notes, c) /\ \A p \in Sales \ {o} : creditNotes'[p] = creditNotes[p]
  BY <1>1, <1>2 DEF InvoiceTypeOK
<1>26. NotesFit(sale'[o], invoice'[o], creditNotes'[o]) BY <1>1, <1>23, <1>25
<1>27. OrderHolds(sale'[o], invoice'[o], issuing'[o], Cardinality(Issued)) BY <1>1, <1>3
<1> QED BY <1>1, <1>24, <1>25, <1>26, <1>27, OneOrder

LEMMA InvoiceStep == InvoiceInv /\ [InvoiceNext]_invoiceVars => InvoiceInv'
<1> SUFFICES ASSUME InvoiceInv, [InvoiceNext]_invoiceVars PROVE InvoiceInv' OBVIOUS
<1>1. ASSUME NEW row \in CheckoutRows, SetCheckoutSettings(row) PROVE InvoiceInv' BY <1>1, SettingsKeep
<1>2. ASSUME NEW o \in Sales, CaptureSale(o) PROVE InvoiceInv' BY <1>2, CaptureKeeps
<1>3. ASSUME NEW o \in Sales, NumberInvoice(o) PROVE InvoiceInv' BY <1>3, NumberKeeps
<1>4. ASSUME NEW o \in Sales, IssueInvoice(o) PROVE InvoiceInv' BY <1>4, IssueKeeps
<1>5. ASSUME NEW o \in Sales, NEW lines \in Baskets, NEW d \in Discounts, Buy(o, lines, d) PROVE InvoiceInv'
  BY <1>5, BuyKeeps
<1>6. ASSUME NEW o \in Sales, NEW intra \in BOOLEAN, DraftInvoice(o, intra) PROVE InvoiceInv' BY <1>6, DraftKeeps
<1>7. ASSUME NEW o \in Sales, NEW n \in RefundAmounts, CreditSale(o, n) PROVE InvoiceInv' BY <1>7, CreditKeeps
<1>8. CASE UNCHANGED invoiceVars
  <2>1. /\ settings' = settings /\ sale' = sale /\ invoice' = invoice /\ issuing' = issuing
        /\ creditNotes' = creditNotes /\ settingsSet' = settingsSet
    BY <1>8 DEF invoiceVars
  <2>2. InvoiceTypeOK' BY <2>1 DEF InvoiceInv, InvoiceTypeOK
  <2>3. Issued' = Issued BY <2>1 DEF Issued
  <2>4. NumbersAreSequential' BY <2>1, <2>3 DEF InvoiceInv, NumbersAreSequential
  <2> QED BY <2>1, <2>2, <2>3, <2>4 DEF InvoiceInv
<1> QED BY <1>1, <1>2, <1>3, <1>4, <1>5, <1>6, <1>7, <1>8 DEF InvoiceNext

(* The promises follow from the invariant. *)
LEMMA InvoicesHold == InvoiceInv => DocumentsAreExact
<1> SUFFICES ASSUME InvoiceInv PROVE DocumentsAreExact OBVIOUS
<1>1. InvoiceTypeOK /\ NumbersAreSequential BY DEF InvoiceInv
<1>2. ASSUME NEW o \in Issued
      PROVE  /\ o \in Sales /\ invoice[o].at = "issued" /\ sale[o] \in Sale /\ LinesAddUp(sale[o], invoice[o])
             /\ NotesFit(sale[o], invoice[o], creditNotes[o]) /\ creditNotes[o] \in Seq(CreditNote)
  <2>1. o \in Sales /\ invoice[o].at = "issued" BY DEF Issued
  <2>2. invoice[o] # NoInvoice BY <2>1 DEF NoInvoice
  <2>3. sale[o] # NoSale /\ LinesAddUp(sale[o], invoice[o]) /\ NotesFit(sale[o], invoice[o], creditNotes[o])
    BY <2>1, <2>2 DEF InvoiceInv, OrderHolds
  <2>4. sale[o] \in {NoSale} \cup Sale /\ creditNotes[o] \in Seq(CreditNote) BY <1>1, <2>1, OrderTyped
  <2>5. sale[o] \in Sale BY <2>3, <2>4, SaleOrNone
  <2> QED BY <2>1, <2>3, <2>4, <2>5
<1>3. InvoiceAddsUp BY <1>2 DEF InvoiceAddsUp, LinesAddUp
<1>4. TaxIsWhatWasCharged BY <1>2 DEF TaxIsWhatWasCharged, LinesAddUp
<1>5. ASSUME NEW o \in Issued
      PROVE  InProportion(sale[o].total, TaxOf(invoice[o].lines), creditNotes[o])
  <2> DEFINE t == sale[o].total
             T == TaxOf(invoice[o].lines)
  <2>1. t \in Nat /\ T \in Nat
    <3>1. sale[o] \in Sale /\ T = sale[o].tax BY <1>2 DEF LinesAddUp
    <3>2. sale[o].total \in Nat /\ sale[o].tax \in Nat BY <3>1 DEF Sale
    <3> QED BY <3>1, <3>2
  <2>2. CASE creditNotes[o] = << >>
    <3> HIDE DEF t, T
    <3>1. InProportion(t, T, << >>) BY <2>1, NoNotes DEF InProportion
    <3> QED BY <2>2, <3>1 DEF t, T
  <2>3. CASE creditNotes[o] # << >> BY <1>2, <2>3 DEF NotesFit
  <2> QED BY <2>2, <2>3
<1>6. CreditedTaxIsProportional BY <1>5 DEF CreditedTaxIsProportional, InProportion
<1>7. NotesAddUp
  <2> SUFFICES ASSUME NEW o \in Issued, NEW i \in DOMAIN creditNotes[o]
               PROVE  PartsAddUp(sale[o].total, TaxOf(invoice[o].lines), sale[o].shipping, creditNotes[o][i])
    BY DEF NotesAddUp, PartsAddUp
  <2>1. creditNotes[o] # << >> OBVIOUS
  <2> QED BY <1>2, <2>1 DEF NotesFit
<1> QED BY <1>1, <1>3, <1>4, <1>6, <1>7 DEF DocumentsAreExact

(* Quotes, invoices and credit notes keep their shape: no amount of any of them is
   negative but what is rounded off. *)
THEOREM InvoiceType == InvoiceSpec => []InvoiceTypeOK
<1>1. InvoiceInv => InvoiceTypeOK BY DEF InvoiceInv
<1> QED BY <1>1, InvoicesStart, InvoiceStep, PTL DEF InvoiceSpec

(* Invoices add up to what was charged, to the unit, with the tax that was charged and
   no line taxed beyond its amount; their numbers are unbroken; and the credit notes of
   an order, with refunds that may overlap and together exceed it, credit the refunds'
   share in the invoice's tax, to half a unit each, and add up: for any baskets,
   discounts, settings and refunds (InvoiceService.generateForOrder, allocate,
   generateCreditNote). *)
THEOREM DocumentsExact == InvoiceSpec => []DocumentsAreExact
<1> QED BY InvoicesStart, InvoiceStep, InvoicesHold, PTL DEF InvoiceSpec
----------------------------------------------------------------------------
(* Importing history. *)

KnownIn(os) == {o.ref : o \in os}
AheadIn(os, n) == {o \in os : o.number >= n}
CopiesIn(os, ref) == {o \in os : o.ref = ref}
Behind(r) == {Rows[i] : i \in 1..(r.row - 1)}
Wants(jobs, ref) == {j \in Importers : jobs[j].at \in {"number", "rows"} /\ ~jobs[j].dry /\ ref \notin jobs[j].seen}

(* What a job has counted is right about the orders there are: every failure was an
   order of somebody else, or is one still ahead of it; and what it went past is there,
   or among its failures. *)
Counted(r, f, os) ==
    /\ r.at \in {"none", "number"} => r.failed = 0 /\ r.errors = 0 /\ r.row = 1
    /\ r.row \in 1..(Len(Rows) + 1)
    /\ r.at = "completed" => r.row = Len(Rows) + 1
    /\ ~r.dry => r.seen \subseteq KnownIn(os)
    /\ r.at \in {"rows", "completed"} => r.failed + Cardinality(AheadIn(os, r.next)) <= f + r.errors
    /\ ~r.dry => Cardinality(Behind(r) \ KnownIn(os)) <= r.failed

(* No reference is there twice, nor will be: whoever still wants it did not see it. *)
Once(os, jobs, over, ref) ==
    /\ CopiesIn(os, ref) # {} =>
          Cardinality(CopiesIn(os, ref)) + Cardinality(Wants(jobs, ref)) <= Cardinality(Importers)
    /\ ~over => Cardinality(CopiesIn(os, ref)) <= 1 /\ (CopiesIn(os, ref) # {} => Wants(jobs, ref) = {})

OneRuns(jobs, over) ==
    ~over => \A i, j \in Importers : jobs[i].at \in {"number", "rows"} /\ jobs[j].at \in {"number", "rows"} => i = j

ImportInv ==
    /\ IsFiniteSet(orders)
    /\ OneRuns(import, overlapped)
    /\ \A j \in Importers : Counted(import[j], foreign[j], orders)
    /\ \A ref \in Refs : Once(orders, import, overlapped, ref)

(* The values of a function on a finite set. *)
LEMMA FiniteRange ==
    ASSUME NEW S, IsFiniteSet(S), NEW f, DOMAIN f = S, f = [x \in S |-> f[x]]
    PROVE  IsFiniteSet({f[x] : x \in S})
<1> DEFINE T == {f[x] : x \in S}
<1>1. f \in Surjection(S, T) BY DEF Surjection
<1> HIDE DEF T
<1>2. IsFiniteSet(T) BY <1>1, FS_Surjection
<1> QED BY <1>2 DEF T

LEMMA LargestNumber ==
    ASSUME NEW S, IsFiniteSet(S), S \subseteq Nat, S # {}
    PROVE  \E n \in S : \A m \in S : m <= n
<1> DEFINE Bad == {T \in SUBSET S : T # {} /\ ~\E n \in T : \A m \in T : m <= n}
<1>1. ASSUME Bad # {} PROVE FALSE
  <2>1. PICK T \in Bad : \A U \in Bad : ~(U \subseteq T /\ U # T)
    <3>1. Bad \subseteq SUBSET S OBVIOUS
    <3>2. IsFiniteSet(S) OBVIOUS
    <3> HIDE DEF Bad
    <3> QED BY ONLY <1>1, <3>1, <3>2, SmallestException
  <2>2. PICK x \in T : TRUE OBVIOUS
  <2>3. T \ {x} \notin Bad BY <2>1, <2>2
  <2>4. x \in Nat /\ T \subseteq Nat OBVIOUS
  <2>5. CASE T \ {x} = {}
    <3>1. \A m \in T : m = x BY <2>5
    <3> QED BY <2>1, <2>4, <3>1
  <2>6. CASE T \ {x} # {}
    <3>1. PICK n \in T \ {x} : \A m \in T \ {x} : m <= n BY <2>3, <2>6
    <3>2. n \in Nat BY <2>4
    <3>3. CASE x <= n BY <2>1, <2>4, <3>1, <3>2, <3>3
    <3>4. CASE n <= x
      <4>1. \A m \in T : m <= x BY <2>4, <3>1, <3>2, <3>4
      <4> QED BY <2>1, <4>1
    <3> QED BY <2>4, <3>2, <3>3, <3>4
  <2> QED BY <2>5, <2>6
<1>2. S \notin Bad BY <1>1
<1> QED BY <1>2

LEMMA LastOrderIs ==
    ASSUME ImportTypeOK, IsFiniteSet(orders)
    PROVE  LastOrder \in Nat /\ \A o \in orders : o.number <= LastOrder
<1> DEFINE S == {o.number : o \in orders}
<1>1. S \subseteq Nat BY DEF ImportTypeOK, Order
<1>2. IsFiniteSet(S)
  <2> DEFINE f == [o \in orders |-> o.number]
  <2>1. IsFiniteSet({f[o] : o \in orders})
    <3>1. DOMAIN f = orders /\ f = [o \in orders |-> f[o]] OBVIOUS
    <3> HIDE DEF f
    <3> QED BY <3>1, FiniteRange
  <2>2. S = {f[o] : o \in orders} OBVIOUS
  <2> QED BY <2>1, <2>2
<1>3. CASE orders = {} BY <1>3 DEF LastOrder
<1>4. CASE orders # {}
  <2>1. S # {} BY <1>4
  <2>2. PICK n \in S : \A m \in S : m <= n BY <1>1, <1>2, <2>1, LargestNumber
  <2>3. \A o \in orders : o.number <= n BY <2>2
  <2>4. LastOrder \in S /\ \A o \in orders : o.number <= LastOrder BY <1>4, <2>2, <2>3 DEF LastOrder
  <2> QED BY <1>1, <2>4
<1> QED BY <1>3, <1>4

LEMMA RowsTyped ==
    /\ Len(Rows) \in Nat /\ DOMAIN Rows = 1..Len(Rows) /\ \A i \in 1..Len(Rows) : Rows[i] \in Refs
    /\ Storefront \notin Refs /\ IsFiniteSet(Refs)
<1>1. Len(Rows) \in Nat /\ DOMAIN Rows = 1..Len(Rows) BY ImportAssumption
<1>2. \A i \in 1..Len(Rows) : Rows[i] \in Refs BY <1>1 DEF Refs
<1>3. Storefront \notin Refs BY ImportAssumption DEF Refs, Storefront
<1>4. IsFiniteSet(1..Len(Rows)) BY <1>1, FS_Interval
<1>5. IsFiniteSet(Refs) 
  <2>1. DOMAIN Rows = 1..Len(Rows) /\ Rows = [i \in 1..Len(Rows) |-> Rows[i]] BY <1>1, ImportAssumption
  <2> QED BY <1>4, <2>1, FiniteRange DEF Refs
<1> QED BY <1>1, <1>2, <1>3, <1>5

(* The orders a job has ahead, as one comes in. *)
LEMMA OneMore ==
    ASSUME NEW os, IsFiniteSet(os), NEW o, o \notin os
    PROVE  /\ IsFiniteSet(os \cup {o})
           /\ \A n : /\ Cardinality(AheadIn(os, n)) \in Nat
                     /\ Cardinality(AheadIn(os \cup {o}, n)) \in Nat
                     /\ Cardinality(AheadIn(os \cup {o}, n)) <= Cardinality(AheadIn(os, n)) + 1
           /\ \A ref : /\ Cardinality(CopiesIn(os, ref)) \in Nat
                       /\ Cardinality(CopiesIn(os \cup {o}, ref))
                            = Cardinality(CopiesIn(os, ref)) + (IF o.ref = ref THEN 1 ELSE 0)
           /\ KnownIn(os \cup {o}) = KnownIn(os) \cup {o.ref}
<1>1. IsFiniteSet(os \cup {o}) BY FS_AddElement
<1>2. ASSUME NEW n
      PROVE  /\ Cardinality(AheadIn(os, n)) \in Nat
             /\ Cardinality(AheadIn(os \cup {o}, n)) \in Nat
             /\ Cardinality(AheadIn(os \cup {o}, n)) <= Cardinality(AheadIn(os, n)) + 1
  <2>1. IsFiniteSet(AheadIn(os, n))
    <3>1. AheadIn(os, n) \subseteq os BY DEF AheadIn
    <3> QED BY <3>1, FS_Subset
  <2>2. o \notin AheadIn(os, n) BY DEF AheadIn
  <2>3. AheadIn(os \cup {o}, n) = AheadIn(os, n) \/ AheadIn(os \cup {o}, n) = AheadIn(os, n) \cup {o}
    BY DEF AheadIn
  <2>4. Cardinality(AheadIn(os, n) \cup {o}) = Cardinality(AheadIn(os, n)) + 1 BY <2>1, <2>2, FS_AddElement
  <2>5. Cardinality(AheadIn(os, n)) \in Nat BY <2>1, FS_CardinalityType
  <2>6. CASE AheadIn(os \cup {o}, n) = AheadIn(os, n) BY <2>5, <2>6
  <2>7. CASE AheadIn(os \cup {o}, n) = AheadIn(os, n) \cup {o} BY <2>4, <2>5, <2>7
  <2> QED BY <2>3, <2>6, <2>7
<1>3. ASSUME NEW ref
      PROVE  /\ Cardinality(CopiesIn(os, ref)) \in Nat
             /\ Cardinality(CopiesIn(os \cup {o}, ref))
                  = Cardinality(CopiesIn(os, ref)) + (IF o.ref = ref THEN 1 ELSE 0)
  <2>1. IsFiniteSet(CopiesIn(os, ref))
    <3>1. CopiesIn(os, ref) \subseteq os BY DEF CopiesIn
    <3> QED BY <3>1, FS_Subset
  <2>2. o \notin CopiesIn(os, ref) BY DEF CopiesIn
  <2>3. CopiesIn(os \cup {o}, ref) = IF o.ref = ref THEN CopiesIn(os, ref) \cup {o} ELSE CopiesIn(os, ref)
    BY DEF CopiesIn
  <2>4. Cardinality(CopiesIn(os, ref) \cup {o}) = Cardinality(CopiesIn(os, ref)) + 1 BY <2>1, <2>2, FS_AddElement
  <2>5. Cardinality(CopiesIn(os, ref)) \in Nat BY <2>1, FS_CardinalityType
  <2> QED BY <2>3, <2>4, <2>5
<1>4. KnownIn(os \cup {o}) = KnownIn(os) \cup {o.ref} BY DEF KnownIn
<1> QED BY <1>1, <1>2, <1>3, <1>4

(* What a job has gone past is a finite set. *)
LEMMA BehindFinite ==
    ASSUME NEW r \in ImportJob
    PROVE  IsFiniteSet(Behind(r)) /\ \A S : Cardinality(Behind(r) \ S) \in Nat /\ IsFiniteSet(Behind(r) \ S)
<1>1. r.row \in Nat BY DEF ImportJob
<1>2. IsFiniteSet(1..(r.row - 1)) BY <1>1, FS_Interval
<1>3. IsFiniteSet(Behind(r))
  <2> DEFINE S == 1..(r.row - 1)
             f == [i \in S |-> Rows[i]]
  <2>1. DOMAIN f = S /\ f = [i \in S |-> f[i]] OBVIOUS
  <2>2. Behind(r) = {f[i] : i \in S} BY DEF Behind
  <2>3. IsFiniteSet(S) BY <1>2
  <2> HIDE DEF f, S
  <2>4. IsFiniteSet({f[i] : i \in S}) BY <2>1, <2>3, FiniteRange
  <2> QED BY <2>2, <2>4
<1>4. \A S : IsFiniteSet(Behind(r) \ S) BY <1>3, FS_Difference
<1> QED BY <1>3, <1>4, FS_CardinalityType

LEMMA BehindNext ==
    ASSUME NEW r \in ImportJob, r.row \in 1..Len(Rows), NEW q \in ImportJob, q.row = r.row + 1
    PROVE  Behind(q) = Behind(r) \cup {Rows[r.row]}
<1>1. r.row \in Nat /\ r.row >= 1 BY RowsTyped
<1>2. 1..(q.row - 1) = (1..(r.row - 1)) \cup {r.row} BY <1>1
<1> QED BY <1>2 DEF Behind

(* Somebody else's order. *)
LEMMA CountedBeside ==
    ASSUME NEW os, IsFiniteSet(os), NEW o, o \notin os, NEW r \in ImportJob, NEW f \in Nat, Counted(r, f, os)
    PROVE  Counted(r, f + 1, os \cup {o})
<1>1. /\ Cardinality(AheadIn(os, r.next)) \in Nat
      /\ Cardinality(AheadIn(os \cup {o}, r.next)) \in Nat
      /\ Cardinality(AheadIn(os \cup {o}, r.next)) <= Cardinality(AheadIn(os, r.next)) + 1
  BY OneMore
<1>2. KnownIn(os) \subseteq KnownIn(os \cup {o}) BY OneMore
<1>3. Cardinality(Behind(r) \ KnownIn(os \cup {o})) <= Cardinality(Behind(r) \ KnownIn(os))
  <2>1. Behind(r) \ KnownIn(os \cup {o}) \subseteq Behind(r) \ KnownIn(os) BY <1>2
  <2> QED BY <2>1, BehindFinite, FS_Subset
<1>4. r.failed \in Nat /\ r.errors \in Nat BY DEF ImportJob
<1>5. r.at \in {"rows", "completed"} => r.failed + Cardinality(AheadIn(os \cup {o}, r.next)) <= (f + 1) + r.errors
  BY <1>1, <1>4 DEF Counted
<1>6. Cardinality(Behind(r) \ KnownIn(os \cup {o})) \in Nat /\ Cardinality(Behind(r) \ KnownIn(os)) \in Nat
  BY BehindFinite
<1>7. ~r.dry => Cardinality(Behind(r) \ KnownIn(os \cup {o})) <= r.failed BY <1>3, <1>4, <1>6 DEF Counted
<1>8. ~r.dry => r.seen \subseteq KnownIn(os \cup {o}) BY <1>2 DEF Counted
<1> QED BY <1>5, <1>7, <1>8 DEF Counted

(* What a job becomes by the row it goes past. *)
LEMMA RowOutcomes ==
    ASSUME NEW r \in ImportJob, r.row \in 1..Len(Rows)
    PROVE  /\ Skipped(r) \in ImportJob /\ Previewed(r) \in ImportJob /\ Created(r) \in ImportJob
           /\ Failed(r) \in ImportJob /\ FailedItself(r) \in ImportJob
           /\ \A q \in {Skipped(r), Previewed(r), Created(r), Failed(r), FailedItself(r)} :
                 q.at = r.at /\ q.dry = r.dry /\ q.row = r.row + 1
           /\ \A q \in {Skipped(r), Failed(r), FailedItself(r)} : q.seen = r.seen
           /\ \A q \in {Previewed(r), Created(r)} : q.seen = r.seen \cup {Rows[r.row]}
           /\ \A q \in {Skipped(r), Previewed(r)} : q.next = r.next
           /\ \A q \in {Created(r), Failed(r), FailedItself(r)} : q.next = r.next + 1
           /\ \A q \in {Skipped(r), Previewed(r), Created(r)} : q.failed = r.failed
           /\ \A q \in {Skipped(r), Previewed(r), Created(r), Failed(r)} : q.errors = r.errors
           /\ \A q \in {Failed(r), FailedItself(r)} : q.failed = r.failed + 1
           /\ FailedItself(r).errors = r.errors + 1
<1>1. Rows[r.row] \in Refs BY RowsTyped
<1>a. /\ r.row \in Nat /\ r.skipped \in Nat /\ r.created \in Nat /\ r.failed \in Nat
      /\ r.next \in Nat /\ r.errors \in Nat
  BY DEF ImportJob
<1>b. r.seen \subseteq Refs BY DEF ImportJob
<1>2. /\ r.row + 1 \in Nat /\ r.skipped + 1 \in Nat /\ r.created + 1 \in Nat /\ r.failed + 1 \in Nat
      /\ r.next + 1 \in Nat /\ r.errors + 1 \in Nat
  <2>1. \A n \in Nat : n + 1 \in Nat OBVIOUS
  <2> QED BY ONLY <1>a, <2>1, Zenon
<1>c. r.seen \cup {Rows[r.row]} \in SUBSET Refs BY <1>1, <1>b
<1>3. Skipped(r) \in ImportJob /\ Skipped(r).at = r.at /\ Skipped(r).dry = r.dry /\ Skipped(r).row = r.row + 1
      /\ Skipped(r).seen = r.seen /\ Skipped(r).next = r.next /\ Skipped(r).failed = r.failed
      /\ Skipped(r).errors = r.errors
  BY <1>2 DEF ImportJob, Skipped
<1>4. Previewed(r) \in ImportJob /\ Previewed(r).at = r.at /\ Previewed(r).dry = r.dry /\ Previewed(r).row = r.row + 1
      /\ Previewed(r).seen = r.seen \cup {Rows[r.row]} /\ Previewed(r).next = r.next
      /\ Previewed(r).failed = r.failed /\ Previewed(r).errors = r.errors
  BY <1>2, <1>c DEF ImportJob, Previewed
<1>5. Created(r) \in ImportJob /\ Created(r).at = r.at /\ Created(r).dry = r.dry /\ Created(r).row = r.row + 1
      /\ Created(r).seen = r.seen \cup {Rows[r.row]} /\ Created(r).next = r.next + 1
      /\ Created(r).failed = r.failed /\ Created(r).errors = r.errors
  BY <1>2, <1>c DEF ImportJob, Created
<1>6. Failed(r) \in ImportJob /\ Failed(r).at = r.at /\ Failed(r).dry = r.dry /\ Failed(r).row = r.row + 1
      /\ Failed(r).seen = r.seen /\ Failed(r).next = r.next + 1 /\ Failed(r).failed = r.failed + 1
      /\ Failed(r).errors = r.errors
  BY <1>2 DEF ImportJob, Failed
<1>d. FailedItself(r) \in ImportJob BY <1>2 DEF ImportJob, FailedItself
<1>7. /\ FailedItself(r).at = r.at /\ FailedItself(r).dry = r.dry
      /\ FailedItself(r).row = r.row + 1 /\ FailedItself(r).seen = r.seen /\ FailedItself(r).next = r.next + 1
      /\ FailedItself(r).failed = r.failed + 1 /\ FailedItself(r).errors = r.errors + 1
  BY <1>2 DEF ImportJob, FailedItself
<1> QED BY <1>3, <1>4, <1>5, <1>6, <1>7, <1>d

LEMMA JobTyped ==
    ASSUME ImportTypeOK, NEW j \in Importers, NEW r \in ImportJob, import' = [import EXCEPT ![j] = r]
    PROVE  /\ import' \in [Importers -> ImportJob]
           /\ import'[j] = r /\ \A i \in Importers \ {j} : import'[i] = import[i]
  BY DEF ImportTypeOK

LEMMA NoImportTyped == NoImport \in ImportJob
  BY DEF NoImport, ImportJob

(* The row a job is at. *)
LEMMA RowTaken ==
    ASSUME ImportTypeOK, ImportInv, NEW j \in Importers, AtRow(j)
    PROVE  /\ import[j] \in ImportJob /\ import[j].row \in 1..Len(Rows) /\ Rows[import[j].row] \in Refs
           /\ import[j].at = "rows" /\ import[j].next \in Nat
<1>1. import[j] \in ImportJob /\ import[j].next \in Nat BY DEF ImportTypeOK, ImportJob
<1>2. import[j].row \in 1..(Len(Rows) + 1) BY DEF ImportInv, Counted
<1>3. import[j].row <= Len(Rows) /\ import[j].at = "rows" BY DEF AtRow
<1>4. import[j].row \in 1..Len(Rows) BY <1>2, <1>3, RowsTyped
<1> QED BY <1>1, <1>3, <1>4, RowsTyped

LEMMA ImportTypeStep == ImportTypeOK /\ ImportInv /\ [ImportNext]_importVars => ImportTypeOK'
<1> SUFFICES ASSUME ImportTypeOK, ImportInv, [ImportNext]_importVars PROVE ImportTypeOK'
    OBVIOUS
<1>0. LastOrder \in Nat BY LastOrderIs DEF ImportInv
<1>1. ASSUME NEW j \in Importers, NEW dry \in BOOLEAN, StartImport(j, dry) PROVE ImportTypeOK'
  <2> DEFINE r == [NoImport EXCEPT !.at = "number", !.dry = dry, !.seen = {o.ref : o \in orders} \cap Refs]
  <2>1. r \in ImportJob BY NoImportTyped DEF ImportJob
  <2>2. import' = [import EXCEPT ![j] = r] BY <1>1 DEF StartImport
  <2> HIDE DEF r
  <2>3. import' \in [Importers -> ImportJob] BY <2>1, <2>2, JobTyped
  <2>4. overlapped' \in BOOLEAN BY <1>1 DEF StartImport, ImportTypeOK
  <2>5. imports' = imports + 1 /\ UNCHANGED <<orders, buyer, foreign, checkouts, rowErrors>> BY <1>1 DEF StartImport
  <2> QED BY <2>3, <2>4, <2>5 DEF ImportTypeOK
<1>2. ASSUME NEW j \in Importers, ReadNumber(j) PROVE ImportTypeOK'
  <2> DEFINE r == [import[j] EXCEPT !.at = "rows", !.next = LastOrder + 1]
  <2>1. r \in ImportJob
    <3>1. import[j] \in ImportJob /\ LastOrder + 1 \in Nat BY <1>0 DEF ImportTypeOK
    <3> QED BY <3>1 DEF ImportJob
  <2>2. import' = [import EXCEPT ![j] = r] BY <1>2 DEF ReadNumber, ImportTypeOK, ImportJob
  <2> HIDE DEF r
  <2>3. import' \in [Importers -> ImportJob] BY <2>1, <2>2, JobTyped
  <2> QED BY <1>2, <2>3 DEF ReadNumber, ImportTypeOK
<1>3. ASSUME NEW j \in Importers, ImportRow(j) PROVE ImportTypeOK'
  <2> DEFINE r == import[j]
  <2>1. r \in ImportJob /\ r.row \in 1..Len(Rows) /\ Rows[r.row] \in Refs /\ r.next \in Nat
    BY <1>3, RowTaken DEF ImportRow
  <2>2. PICK q \in ImportJob : import' = [import EXCEPT ![j] = q]
    <3>1. Skipped(r) \in ImportJob /\ Previewed(r) \in ImportJob /\ Created(r) \in ImportJob /\ Failed(r) \in ImportJob
      BY <2>1, RowOutcomes
    <3> QED BY <1>3, <3>1 DEF ImportRow
  <2>3. import' \in [Importers -> ImportJob] BY <2>2, JobTyped
  <2>4. orders' \subseteq Order
    <3>1. [number |-> r.next, ref |-> Rows[r.row]] \in Order BY <2>1 DEF Order
    <3>2. orders' = orders \/ orders' = orders \cup {[number |-> r.next, ref |-> Rows[r.row]]}
      BY <1>3 DEF ImportRow
    <3>3. orders \subseteq Order BY DEF ImportTypeOK
    <3> QED BY <3>1, <3>2, <3>3
  <2>5. foreign' \in [Importers -> Nat] BY <1>3 DEF ImportRow, ImportTypeOK
  <2>6. UNCHANGED <<buyer, overlapped, imports, checkouts, rowErrors>> BY <1>3 DEF ImportRow
  <2> QED BY <2>3, <2>4, <2>5, <2>6 DEF ImportTypeOK
<1>4. ASSUME NEW j \in Importers, RowFails(j) PROVE ImportTypeOK'
  <2> DEFINE q == FailedItself(import[j])
  <2>1. q \in ImportJob BY <1>4, RowTaken, RowOutcomes DEF RowFails
  <2>2. import' = [import EXCEPT ![j] = q] BY <1>4 DEF RowFails
  <2>3. import' \in [Importers -> ImportJob] BY <2>1, <2>2, JobTyped
  <2> QED BY <1>4, <2>3 DEF RowFails, ImportTypeOK
<1>5. ASSUME NEW j \in Importers, ImportCompletes(j) PROVE ImportTypeOK'
  <2> DEFINE q == [import[j] EXCEPT !.at = "completed"]
  <2>1. q \in ImportJob BY DEF ImportTypeOK, ImportJob
  <2>2. import' = [import EXCEPT ![j] = q] BY <1>5 DEF ImportCompletes
  <2> HIDE DEF q
  <2>3. import' \in [Importers -> ImportJob] BY <2>1, <2>2, JobTyped
  <2> QED BY <1>5, <2>3 DEF ImportCompletes, ImportTypeOK
<1>6. ASSUME NEW j \in Importers, ImportDies(j) PROVE ImportTypeOK'
  <2>1. import' \in [Importers -> ImportJob] BY <1>6, NoImportTyped, JobTyped DEF ImportDies
  <2> QED BY <1>6, <2>1 DEF ImportDies, ImportTypeOK
<1>7. ASSUME NEW b \in Buyers, CheckoutReads(b) PROVE ImportTypeOK'
  BY <1>0, <1>7 DEF CheckoutReads, ImportTypeOK
<1>8. ASSUME NEW b \in Buyers, CheckoutInserts(b) PROVE ImportTypeOK'
  <2>1. [number |-> buyer[b], ref |-> Storefront] \in Order BY DEF ImportTypeOK, Order
  <2>2. orders' \subseteq Order
    <3>1. orders' = orders \/ orders' = orders \cup {[number |-> buyer[b], ref |-> Storefront]}
      BY <1>8 DEF CheckoutInserts
    <3>2. orders \subseteq Order BY DEF ImportTypeOK
    <3> QED BY <2>1, <3>1, <3>2
  <2>3. foreign' \in [Importers -> Nat] /\ buyer' \in [Buyers -> Nat] BY <1>8 DEF CheckoutInserts, ImportTypeOK
  <2>4. UNCHANGED <<import, overlapped, imports, checkouts, rowErrors>> BY <1>8 DEF CheckoutInserts
  <2> QED BY <2>2, <2>3, <2>4 DEF ImportTypeOK
<1>9. CASE UNCHANGED importVars BY <1>9 DEF importVars, ImportTypeOK
<1> QED BY <1>1, <1>2, <1>3, <1>4, <1>5, <1>6, <1>7, <1>8, <1>9 DEF ImportNext

(* Whoever runs after a step ran before it. *)
LEMMA NobodyNewRuns ==
    ASSUME NEW jobs, NEW after, NEW over, OneRuns(jobs, over),
           \A i \in Importers : after[i].at \in {"number", "rows"} => jobs[i].at \in {"number", "rows"}
    PROVE  OneRuns(after, over)
  BY DEF OneRuns

LEMMA SizesOfOnce ==
    ASSUME NEW os, IsFiniteSet(os), NEW jobs, NEW ref
    PROVE  /\ IsFiniteSet(Wants(jobs, ref)) /\ Cardinality(Wants(jobs, ref)) \in Nat
           /\ IsFiniteSet(CopiesIn(os, ref)) /\ Cardinality(CopiesIn(os, ref)) \in Nat
           /\ Cardinality(Importers) \in Nat
<1>1. IsFiniteSet(Importers) BY ImportAssumption
<1>2. Wants(jobs, ref) \subseteq Importers BY DEF Wants
<1>3. CopiesIn(os, ref) \subseteq os BY DEF CopiesIn
<1>4. IsFiniteSet(Wants(jobs, ref)) BY <1>1, <1>2, FS_Subset
<1>5. IsFiniteSet(CopiesIn(os, ref)) BY <1>3, FS_Subset
<1> QED BY <1>1, <1>4, <1>5, FS_CardinalityType

LEMMA OneMoreAtMost ==
    ASSUME NEW S, IsFiniteSet(S), NEW x
    PROVE  Cardinality(S \cup {x}) <= Cardinality(S) + 1
<1>1. Cardinality(S) \in Nat BY FS_CardinalityType
<1>2. CASE x \in S
  <2>1. S \cup {x} = S BY <1>2
  <2> QED BY <1>1, <2>1
<1>3. CASE x \notin S
  <2>1. Cardinality(S \cup {x}) = Cardinality(S) + 1 BY <1>3, FS_AddElement
  <2> QED BY <1>1, <2>1
<1> QED BY <1>2, <1>3

(* Nobody wants a reference who did not before. *)
LEMMA OnceKept ==
    ASSUME NEW os, IsFiniteSet(os), NEW jobs, NEW after, NEW over, NEW overAfter, NEW ref,
           Once(os, jobs, over, ref), ~overAfter => ~over,
           CopiesIn(os, ref) # {} => Wants(after, ref) \subseteq Wants(jobs, ref)
    PROVE  Once(os, after, overAfter, ref)
<1>1. ASSUME CopiesIn(os, ref) # {} PROVE Cardinality(Wants(after, ref)) <= Cardinality(Wants(jobs, ref))
  BY <1>1, SizesOfOnce, FS_Subset
<1>2. /\ Cardinality(Wants(jobs, ref)) \in Nat /\ Cardinality(Wants(after, ref)) \in Nat
      /\ Cardinality(CopiesIn(os, ref)) \in Nat /\ Cardinality(Importers) \in Nat
  BY SizesOfOnce
<1>3. CopiesIn(os, ref) # {} =>
         Cardinality(CopiesIn(os, ref)) + Cardinality(Wants(after, ref)) <= Cardinality(Importers)
  BY <1>1, <1>2 DEF Once
<1> QED BY <1>3 DEF Once

(* An order with another reference. *)
LEMMA OnceBeside ==
    ASSUME NEW os, IsFiniteSet(os), NEW o, NEW jobs, NEW over, NEW ref,
           Once(os, jobs, over, ref), o.ref # ref
    PROVE  Once(os \cup {o}, jobs, over, ref)
<1>1. CopiesIn(os \cup {o}, ref) = CopiesIn(os, ref) BY DEF CopiesIn
<1> QED BY <1>1 DEF Once

(* The order that job j wanted. *)
LEMMA OnceInserted ==
    ASSUME NEW os, IsFiniteSet(os), NEW o, o \notin os, NEW jobs, NEW after, NEW over, NEW j \in Importers,
           Once(os, jobs, over, o.ref), OneRuns(jobs, over),
           j \in Wants(jobs, o.ref), Wants(after, o.ref) \subseteq Wants(jobs, o.ref) \ {j}
    PROVE  Once(os \cup {o}, after, over, o.ref)
<1> DEFINE c == Cardinality(CopiesIn(os, o.ref))
           d == Cardinality(CopiesIn(os \cup {o}, o.ref))
           w == Cardinality(Wants(jobs, o.ref))
           v == Cardinality(Wants(after, o.ref))
           n == Cardinality(Importers)
<1>1. c \in Nat /\ d = c + 1 BY OneMore
<1>2. w \in Nat /\ v \in Nat /\ n \in Nat BY SizesOfOnce
<1>3. v <= w - 1
  <2>1. Cardinality(Wants(jobs, o.ref) \ {j}) = w - 1 BY SizesOfOnce, FS_RemoveElement
  <2>2. IsFiniteSet(Wants(jobs, o.ref) \ {j}) BY SizesOfOnce, FS_RemoveElement
  <2>3. v <= Cardinality(Wants(jobs, o.ref) \ {j}) BY <2>2, FS_Subset
  <2> QED BY <2>1, <2>3
<1>4. w <= n
  <2>1. Wants(jobs, o.ref) \subseteq Importers BY DEF Wants
  <2> QED BY <2>1, ImportAssumption, FS_Subset
<1>5. CASE CopiesIn(os, o.ref) = {}
  <2>1. c = 0 BY <1>5, FS_EmptySet
  <2>2. ASSUME ~over PROVE Wants(after, o.ref) = {}
    <3>1. \A i \in Wants(jobs, o.ref) : i = j BY <2>2 DEF OneRuns, Wants
    <3> QED BY <3>1
  <2>3. d + v <= n BY <2>1, <1>1, <1>2, <1>3, <1>4
  <2>4. d <= 1 BY <2>1, <1>1
  <2> QED BY <2>2, <2>3, <2>4 DEF Once
<1>6. CASE CopiesIn(os, o.ref) # {}
  <2>1. over BY <1>6 DEF Once
  <2>2. c + w <= n BY <1>6 DEF Once
  <2>3. d + v <= n BY <2>2, <1>1, <1>2, <1>3
  <2> QED BY <2>1, <2>3 DEF Once
<1> QED BY <1>5, <1>6

(* A job that starts, and one that is gone. *)
LEMMA CountedAnew ==
    ASSUME NEW os, NEW f \in Nat, NEW r \in ImportJob, r.at \in {"none", "number"}, r.failed = 0, r.errors = 0,
           r.row = 1, ~r.dry => r.seen \subseteq KnownIn(os)
    PROVE  Counted(r, f, os)
<1>1. Behind(r) = {} BY DEF Behind
<1>2. Cardinality(Behind(r) \ KnownIn(os)) = 0 BY <1>1, FS_EmptySet
<1>3. r.row \in 1..(Len(Rows) + 1) BY RowsTyped
<1> QED BY <1>2, <1>3 DEF Counted

LEMMA CountedNumbered ==
    ASSUME NEW os, NEW f \in Nat, NEW r \in ImportJob, NEW q \in ImportJob, Counted(r, f, os), r.at = "number",
           q.at = "rows", q.dry = r.dry, q.seen = r.seen, q.row = r.row, q.failed = r.failed, q.errors = r.errors,
           AheadIn(os, q.next) = {}
    PROVE  Counted(q, 0, os)
<1>1. Cardinality(AheadIn(os, q.next)) = 0 BY FS_EmptySet
<1>2. q.failed = 0 /\ q.errors = 0 BY DEF Counted
<1>3. q.failed + Cardinality(AheadIn(os, q.next)) <= 0 + q.errors BY <1>1, <1>2
<1>4. Behind(q) = Behind(r) BY DEF Behind
<1> QED BY <1>3, <1>4 DEF Counted

(* A row that was there already, or is only shown. *)
LEMMA CountedPast ==
    ASSUME NEW os, NEW f \in Nat, NEW r \in ImportJob, NEW q \in ImportJob, Counted(r, f, os),
           r.at = "rows", r.row \in 1..Len(Rows), q.at = "rows", q.row = r.row + 1, q.dry = r.dry,
           q.next = r.next, q.failed = r.failed, q.errors = r.errors,
           ~r.dry => q.seen = r.seen /\ Rows[r.row] \in r.seen
    PROVE  Counted(q, f, os)
<1>1. Behind(q) = Behind(r) \cup {Rows[r.row]} BY BehindNext
<1>2. ASSUME ~r.dry PROVE Behind(q) \ KnownIn(os) = Behind(r) \ KnownIn(os)
  BY <1>1, <1>2 DEF Counted
<1>3. q.row \in 1..(Len(Rows) + 1) BY RowsTyped
<1> QED BY <1>2, <1>3 DEF Counted

LEMMA CountedCreated ==
    ASSUME NEW os, IsFiniteSet(os), NEW f \in Nat, NEW r \in ImportJob, NEW q \in ImportJob, Counted(r, f, os),
           os \subseteq Order, NEW o, o \notin os, o.number = r.next, o.ref = Rows[r.row],
           r.at = "rows", r.row \in 1..Len(Rows), q.at = "rows", q.row = r.row + 1, q.dry = r.dry, ~r.dry,
           q.next = r.next + 1, q.failed = r.failed, q.errors = r.errors, q.seen = r.seen \cup {Rows[r.row]}
    PROVE  Counted(q, f, os \cup {o})
<1>0. r.next \in Nat /\ r.failed \in Nat /\ r.errors \in Nat BY DEF ImportJob
<1>1. Behind(q) = Behind(r) \cup {Rows[r.row]} BY BehindNext
<1>2. KnownIn(os \cup {o}) = KnownIn(os) \cup {Rows[r.row]} BY DEF KnownIn
<1>3. Cardinality(Behind(q) \ KnownIn(os \cup {o})) <= Cardinality(Behind(r) \ KnownIn(os))
  <2>1. Behind(q) \ KnownIn(os \cup {o}) \subseteq Behind(r) \ KnownIn(os) BY <1>1, <1>2
  <2> QED BY <2>1, BehindFinite, FS_Subset
<1>4. AheadIn(os \cup {o}, q.next) \subseteq AheadIn(os, r.next)
  <2>1. \A p \in os : p.number \in Nat BY DEF Order
  <2>2. \A p \in os : p.number >= r.next + 1 => p.number >= r.next BY <2>1, <1>0
  <2>3. ~(r.next >= r.next + 1) BY <1>0
  <2> QED BY <2>2, <2>3 DEF AheadIn
<1>5. Cardinality(AheadIn(os \cup {o}, q.next)) <= Cardinality(AheadIn(os, r.next))
  <2>1. AheadIn(os, r.next) \subseteq os BY DEF AheadIn
  <2>2. IsFiniteSet(AheadIn(os, r.next)) BY <2>1, FS_Subset
  <2> QED BY <1>4, <2>2, FS_Subset
<1>6. Cardinality(AheadIn(os \cup {o}, q.next)) \in Nat /\ Cardinality(AheadIn(os, r.next)) \in Nat
  <2>1. AheadIn(os, r.next) \subseteq os BY DEF AheadIn
  <2>2. IsFiniteSet(AheadIn(os, r.next)) BY <2>1, FS_Subset
  <2>3. IsFiniteSet(AheadIn(os \cup {o}, q.next)) BY <2>2, <1>4, FS_Subset
  <2> QED BY <2>2, <2>3, FS_CardinalityType
<1>7. r.failed + Cardinality(AheadIn(os, r.next)) <= f + r.errors BY DEF Counted
<1>8. q.failed + Cardinality(AheadIn(os \cup {o}, q.next)) <= f + q.errors
  BY <1>0, <1>5, <1>6, <1>7
<1>9. Cardinality(Behind(q) \ KnownIn(os \cup {o})) <= q.failed
  <2>1. Cardinality(Behind(r) \ KnownIn(os)) <= r.failed BY DEF Counted
  <2>2. Cardinality(Behind(q) \ KnownIn(os \cup {o})) \in Nat /\ Cardinality(Behind(r) \ KnownIn(os)) \in Nat
    BY BehindFinite
  <2> QED BY <2>1, <2>2, <1>0, <1>3
<1>10. q.row \in 1..(Len(Rows) + 1) BY RowsTyped
<1>11. q.seen \subseteq KnownIn(os \cup {o}) BY <1>2 DEF Counted
<1> QED BY <1>8, <1>9, <1>10, <1>11 DEF Counted

(* A failure: either the number was taken, or the insert failed for a reason of its own. *)
LEMMA CountedFailed ==
    ASSUME NEW os, IsFiniteSet(os), NEW f \in Nat, NEW r \in ImportJob, NEW q \in ImportJob, Counted(r, f, os),
           os \subseteq Order, r.at = "rows", r.row \in 1..Len(Rows), q.at = "rows", q.row = r.row + 1,
           q.dry = r.dry, ~r.dry, q.next = r.next + 1, q.failed = r.failed + 1, q.seen = r.seen,
           \/ q.errors = r.errors /\ \E o \in os : o.number = r.next
           \/ q.errors = r.errors + 1
    PROVE  Counted(q, f, os)
<1>0. r.next \in Nat /\ r.failed \in Nat /\ r.errors \in Nat BY DEF ImportJob
<1>1. Behind(q) = Behind(r) \cup {Rows[r.row]} BY BehindNext
<1>2. Cardinality(Behind(q) \ KnownIn(os)) <= Cardinality(Behind(r) \ KnownIn(os)) + 1
  <2>1. IsFiniteSet(Behind(r) \ KnownIn(os)) BY BehindFinite
  <2>2. IsFiniteSet((Behind(r) \ KnownIn(os)) \cup {Rows[r.row]}) BY <2>1, FS_AddElement
  <2>3. Behind(q) \ KnownIn(os) \subseteq (Behind(r) \ KnownIn(os)) \cup {Rows[r.row]} BY <1>1
  <2>4. Cardinality(Behind(q) \ KnownIn(os)) <= Cardinality((Behind(r) \ KnownIn(os)) \cup {Rows[r.row]})
    BY <2>2, <2>3, FS_Subset
  <2>5. Cardinality((Behind(r) \ KnownIn(os)) \cup {Rows[r.row]}) <= Cardinality(Behind(r) \ KnownIn(os)) + 1
    BY <2>1, OneMoreAtMost
  <2>6. /\ Cardinality((Behind(r) \ KnownIn(os)) \cup {Rows[r.row]}) \in Nat
        /\ Cardinality(Behind(r) \ KnownIn(os)) \in Nat /\ Cardinality(Behind(q) \ KnownIn(os)) \in Nat
    BY <2>2, BehindFinite, FS_CardinalityType
  <2> QED BY <2>4, <2>5, <2>6
<1>3. Cardinality(Behind(q) \ KnownIn(os)) <= q.failed
  <2>1. Cardinality(Behind(r) \ KnownIn(os)) <= r.failed BY DEF Counted
  <2>2. Cardinality(Behind(q) \ KnownIn(os)) \in Nat /\ Cardinality(Behind(r) \ KnownIn(os)) \in Nat
    BY BehindFinite
  <2> QED BY <2>1, <2>2, <1>0, <1>2
<1> DEFINE a == Cardinality(AheadIn(os, r.next))
           b == Cardinality(AheadIn(os, q.next))
<1>4. \A p \in os : p.number \in Nat BY DEF Order
<1>5. AheadIn(os, q.next) \subseteq AheadIn(os, r.next)
  <2>1. \A p \in os : p.number >= r.next + 1 => p.number >= r.next BY <1>4, <1>0
  <2> QED BY <2>1 DEF AheadIn
<1>6. IsFiniteSet(AheadIn(os, r.next)) /\ IsFiniteSet(AheadIn(os, q.next))
  <2>1. AheadIn(os, r.next) \subseteq os /\ AheadIn(os, q.next) \subseteq os BY DEF AheadIn
  <2> QED BY <2>1, FS_Subset
<1>7. a \in Nat /\ b \in Nat BY <1>6, FS_CardinalityType
<1>8. r.failed + a <= f + r.errors BY DEF Counted
<1>9. q.failed + b <= f + q.errors
  <2>1. CASE q.errors = r.errors + 1
    <3>1. b <= a BY <1>5, <1>6, FS_Subset
    <3> QED BY <1>0, <1>7, <1>8, <2>1, <3>1
  <2>2. CASE q.errors = r.errors /\ \E o \in os : o.number = r.next
    <3>1. PICK o \in os : o.number = r.next BY <2>2
    <3>2. o \in AheadIn(os, r.next) BY <1>0, <3>1 DEF AheadIn
    <3>3. o \notin AheadIn(os, q.next) BY <1>0, <3>1 DEF AheadIn
    <3>4. AheadIn(os, q.next) \subseteq AheadIn(os, r.next) \ {o} BY <1>5, <3>3
    <3>5. IsFiniteSet(AheadIn(os, r.next) \ {o}) /\ Cardinality(AheadIn(os, r.next) \ {o}) = a - 1
      BY <1>6, <3>2, FS_RemoveElement
    <3>6. b <= Cardinality(AheadIn(os, r.next) \ {o}) BY <3>4, <3>5, FS_Subset
    <3>7. b <= a - 1 BY <3>5, <3>6
    <3> QED BY <1>0, <1>7, <1>8, <2>2, <3>7
  <2> QED BY <2>1, <2>2
<1>10. q.row \in 1..(Len(Rows) + 1) BY RowsTyped
<1> QED BY <1>3, <1>9, <1>10 DEF Counted

LEMMA ImportInvStep == ImportTypeOK /\ ImportInv /\ [ImportNext]_importVars => ImportInv'
<1> SUFFICES ASSUME ImportTypeOK, ImportInv, [ImportNext]_importVars PROVE ImportInv'
    OBVIOUS
<1>t. ImportTypeOK' BY ImportTypeStep
<1>0. /\ IsFiniteSet(orders) /\ OneRuns(import, overlapped)
      /\ \A j \in Importers : Counted(import[j], foreign[j], orders)
      /\ \A ref \in Refs : Once(orders, import, overlapped, ref)
      /\ \A j \in Importers : import[j] \in ImportJob /\ foreign[j] \in Nat
      /\ orders \subseteq Order
  BY DEF ImportInv, ImportTypeOK
<1>j. \A j \in Importers : import'[j] \in ImportJob /\ foreign'[j] \in Nat BY <1>t DEF ImportTypeOK
(* A step of one job that leaves the orders alone. *)
<1>a. ASSUME NEW j \in Importers, orders' = orders,
             import' = [import EXCEPT ![j] = import'[j]],
             \A i \in Importers \ {j} : foreign'[i] = foreign[i],
             OneRuns(import', overlapped'), ~overlapped' => ~overlapped,
             Counted(import'[j], foreign'[j], orders),
             \A ref \in Refs : CopiesIn(orders, ref) # {} => Wants(import', ref) \subseteq Wants(import, ref)
      PROVE  ImportInv'
  <2>1. \A i \in Importers \ {j} : import'[i] = import[i] BY <1>a DEF ImportTypeOK
  <2>2. \A i \in Importers : Counted(import'[i], foreign'[i], orders') BY <1>0, <1>a, <2>1
  <2>3. \A ref \in Refs : Once(orders', import', overlapped', ref) BY <1>0, <1>a, OnceKept
  <2> QED BY <1>0, <1>a, <2>2, <2>3 DEF ImportInv
<1>1. ASSUME NEW j \in Importers, NEW dry \in BOOLEAN, StartImport(j, dry) PROVE ImportInv'
  <2> DEFINE r == [NoImport EXCEPT !.at = "number", !.dry = dry, !.seen = {o.ref : o \in orders} \cap Refs]
  <2>1. r.at = "number" /\ r.dry = dry /\ r.seen = KnownIn(orders) \cap Refs /\ r.failed = 0 /\ r.errors = 0 /\ r.row = 1
    BY DEF NoImport, KnownIn
  <2>2. import' = [import EXCEPT ![j] = r] BY <1>1 DEF StartImport
  <2> HIDE DEF r
  <2>3. import'[j] = r /\ \A i \in Importers \ {j} : import'[i] = import[i] BY <2>2 DEF ImportTypeOK
  <2>4. OneRuns(import', overlapped')
    <3>1. ~overlapped' => \A i \in Importers \ {j} : import[i].at \notin {"number", "rows"}
      BY <1>1 DEF StartImport, Running
    <3> QED BY <3>1, <2>3 DEF OneRuns
  <2>5. Counted(import'[j], foreign'[j], orders) BY <2>1, <2>3, <1>j, CountedAnew
  <2>6. ASSUME NEW ref \in Refs, CopiesIn(orders, ref) # {} PROVE Wants(import', ref) \subseteq Wants(import, ref)
    <3>1. ref \in KnownIn(orders) BY <2>6 DEF CopiesIn, KnownIn
    <3>2. j \notin Wants(import', ref) BY <2>1, <2>3, <3>1 DEF Wants
    <3> QED BY <2>3, <3>2 DEF Wants
  <2>7. ~overlapped' => ~overlapped BY <1>1 DEF StartImport
  <2>8. import' = [import EXCEPT ![j] = import'[j]] BY <2>2, <2>3
  <2>9. orders' = orders /\ foreign' = foreign BY <1>1 DEF StartImport
  <2> QED BY <1>a, <2>4, <2>5, <2>6, <2>7, <2>8, <2>9
<1>2. ASSUME NEW j \in Importers, ReadNumber(j) PROVE ImportInv'
  <2> DEFINE r == import[j]
             q == [import[j] EXCEPT !.at = "rows", !.next = LastOrder + 1]
  <2>1. q.at = "rows" /\ q.dry = r.dry /\ q.seen = r.seen /\ q.row = r.row /\ q.failed = r.failed
        /\ q.errors = r.errors /\ q.next = LastOrder + 1
    <3>1. r \in ImportJob BY <1>0
    <3> QED BY <3>1 DEF ImportJob
  <2>2. import' = [import EXCEPT ![j] = q] BY <1>2 DEF ReadNumber, ImportTypeOK, ImportJob
  <2> HIDE DEF q
  <2>3. import'[j] = q /\ \A i \in Importers \ {j} : import'[i] = import[i] BY <2>2 DEF ImportTypeOK
  <2>4. r.at = "number" BY <1>2 DEF ReadNumber
  <2>5. overlapped' = overlapped /\ orders' = orders /\ foreign' = [foreign EXCEPT ![j] = 0]
    BY <1>2 DEF ReadNumber
  <2>6. OneRuns(import', overlapped')
    <3>1. \A i \in Importers : import'[i].at \in {"number", "rows"} => import[i].at \in {"number", "rows"}
      BY <2>3, <2>4
    <3> QED BY <1>0, <2>5, <3>1, NobodyNewRuns
  <2>7. Counted(import'[j], foreign'[j], orders)
    <3>1. AheadIn(orders, q.next) = {}
      <4>1. LastOrder \in Nat /\ \A o \in orders : o.number <= LastOrder BY <1>0, LastOrderIs
      <4>2. \A o \in orders : o.number \in Nat BY <1>0 DEF Order
      <4>3. \A o \in orders : ~(o.number >= LastOrder + 1) BY <4>1, <4>2
      <4> QED BY <2>1, <4>3 DEF AheadIn
    <3>2. foreign'[j] = 0 BY <2>5 DEF ImportTypeOK
    <3>3. q \in ImportJob BY <1>j, <2>3
    <3>4. Counted(r, foreign[j], orders) /\ r \in ImportJob /\ foreign[j] \in Nat BY <1>0
    <3>5. Counted(q, 0, orders) BY <2>1, <2>4, <3>1, <3>3, <3>4, CountedNumbered
    <3> QED BY <2>3, <3>2, <3>5
  <2>8. \A ref \in Refs : Wants(import', ref) \subseteq Wants(import, ref)
    BY <2>1, <2>3, <2>4 DEF Wants
  <2>9. import' = [import EXCEPT ![j] = import'[j]] BY <2>2, <2>3
  <2>10. \A i \in Importers \ {j} : foreign'[i] = foreign[i] BY <2>5 DEF ImportTypeOK
  <2> QED BY <1>a, <2>5, <2>6, <2>7, <2>8, <2>9, <2>10
<1>3. ASSUME NEW j \in Importers, ImportRow(j) PROVE ImportInv'
  <2> DEFINE r == import[j]
             q == import'[j]
  <2>1. r \in ImportJob /\ r.row \in 1..Len(Rows) /\ Rows[r.row] \in Refs /\ r.next \in Nat /\ r.at = "rows"
    BY <1>3, RowTaken DEF ImportRow
  <2>2. q \in ImportJob BY <1>j
  <2>3. overlapped' = overlapped BY <1>3 DEF ImportRow
  <2>4. Counted(r, foreign[j], orders) /\ foreign[j] \in Nat BY <1>0
  <2>5. ~r.dry => r.seen \subseteq KnownIn(orders) BY <2>4 DEF Counted
  <2>6. ASSUME NEW s \in {Skipped(r), Previewed(r), Created(r), Failed(r)}, import' = [import EXCEPT ![j] = s]
        PROVE  /\ q = s /\ \A i \in Importers \ {j} : import'[i] = import[i]
               /\ import' = [import EXCEPT ![j] = q]
               /\ OneRuns(import', overlapped')
               /\ \A ref \in Refs : Wants(import', ref) \subseteq Wants(import, ref)
    <3>1. q = s /\ \A i \in Importers \ {j} : import'[i] = import[i] BY <2>6 DEF ImportTypeOK
    <3>2. s.at = r.at /\ s.dry = r.dry /\ r.seen \subseteq s.seen BY <2>1, RowOutcomes
    <3>3. \A i \in Importers : import'[i].at \in {"number", "rows"} => import[i].at \in {"number", "rows"}
      BY <3>1, <3>2
    <3>4. OneRuns(import', overlapped') BY <1>0, <2>3, <3>3, NobodyNewRuns
    <3>5. \A ref \in Refs : Wants(import', ref) \subseteq Wants(import, ref) BY <3>1, <3>2 DEF Wants
    <3> QED BY <2>6, <3>1, <3>4, <3>5
  <2> DEFINE inserts == IsNew(r) /\ ~r.dry /\ ~Taken(r.next)
  <2>7. CASE ~inserts
    <3>1. orders' = orders BY <1>3, <2>7 DEF ImportRow
    <3>2. \A i \in Importers : foreign'[i] = foreign[i] BY <1>3, <2>7 DEF ImportRow
    <3>3. CASE ~IsNew(r)
      <4>1. import' = [import EXCEPT ![j] = Skipped(r)] BY <1>3, <3>3 DEF ImportRow
      <4>2. Counted(q, foreign[j], orders)
        <5>1. q = Skipped(r) BY <2>6, <4>1
        <5>2. Rows[r.row] \in r.seen BY <3>3 DEF IsNew
        <5>3. /\ q.at = "rows" /\ q.row = r.row + 1 /\ q.dry = r.dry /\ q.next = r.next
              /\ q.failed = r.failed /\ q.errors = r.errors /\ q.seen = r.seen
          BY <2>1, <5>1, RowOutcomes
        <5> QED BY <2>1, <2>2, <2>4, <5>2, <5>3, CountedPast
      <4>3. /\ import' = [import EXCEPT ![j] = q] /\ OneRuns(import', overlapped')
            /\ \A ref \in Refs : Wants(import', ref) \subseteq Wants(import, ref)
        BY <2>6, <4>1
      <4> QED BY <1>a, <2>3, <3>1, <3>2, <4>2, <4>3
    <3>4. CASE IsNew(r) /\ r.dry
      <4>1. import' = [import EXCEPT ![j] = Previewed(r)] BY <1>3, <3>4 DEF ImportRow
      <4>2. Counted(q, foreign[j], orders)
        <5>1. q = Previewed(r) BY <2>6, <4>1
        <5>3. /\ q.at = "rows" /\ q.row = r.row + 1 /\ q.dry = r.dry /\ q.next = r.next
              /\ q.failed = r.failed /\ q.errors = r.errors
          BY <2>1, <5>1, RowOutcomes
        <5> QED BY <2>1, <2>2, <2>4, <3>4, <5>3, CountedPast
      <4>3. /\ import' = [import EXCEPT ![j] = q] /\ OneRuns(import', overlapped')
            /\ \A ref \in Refs : Wants(import', ref) \subseteq Wants(import, ref)
        BY <2>6, <4>1
      <4> QED BY <1>a, <2>3, <3>1, <3>2, <4>2, <4>3
    <3>5. CASE IsNew(r) /\ ~r.dry
      <4>1. import' = [import EXCEPT ![j] = Failed(r)] BY <1>3, <2>7, <3>5 DEF ImportRow
      <4>2. Counted(q, foreign[j], orders)
        <5>1. q = Failed(r) BY <2>6, <4>1
        <5>2. \E o \in orders : o.number = r.next BY <2>7, <3>5 DEF Taken
        <5>3. /\ q.at = "rows" /\ q.row = r.row + 1 /\ q.dry = r.dry /\ q.next = r.next + 1
              /\ q.failed = r.failed + 1 /\ q.errors = r.errors /\ q.seen = r.seen
          BY <2>1, <5>1, RowOutcomes
        <5> QED BY <1>0, <2>1, <2>2, <2>4, <3>5, <5>2, <5>3, CountedFailed
      <4>3. /\ import' = [import EXCEPT ![j] = q] /\ OneRuns(import', overlapped')
            /\ \A ref \in Refs : Wants(import', ref) \subseteq Wants(import, ref)
        BY <2>6, <4>1
      <4> QED BY <1>a, <2>3, <3>1, <3>2, <4>2, <4>3
    <3> QED BY <3>3, <3>4, <3>5
  <2>8. CASE inserts
    <3> DEFINE o == [number |-> r.next, ref |-> Rows[r.row]]
    <3>1. orders' = orders \cup {o} BY <1>3, <2>8 DEF ImportRow
    <3>2. import' = [import EXCEPT ![j] = Created(r)] BY <1>3, <2>8 DEF ImportRow
    <3>3. \A i \in Importers \ {j} : foreign'[i] = foreign[i] + 1 BY <1>3, <2>8 DEF ImportRow
    <3>4. foreign'[j] = foreign[j] BY <1>3, <2>8 DEF ImportRow
    <3>5. o.number = r.next /\ o.ref = Rows[r.row] OBVIOUS
    <3> HIDE DEF o
    <3>6. o \notin orders BY <2>8, <3>5 DEF Taken
    <3>7. q = Created(r) /\ \A i \in Importers \ {j} : import'[i] = import[i] BY <2>6, <3>2
    <3>8. Counted(q, foreign[j], orders \cup {o})
      <4>1. /\ q.at = "rows" /\ q.row = r.row + 1 /\ q.dry = r.dry /\ q.next = r.next + 1
            /\ q.failed = r.failed /\ q.errors = r.errors /\ q.seen = r.seen \cup {Rows[r.row]}
        BY <2>1, <3>7, RowOutcomes
      <4> QED BY <1>0, <2>1, <2>2, <2>4, <2>8, <3>5, <3>6, <4>1, CountedCreated
    <3>9. \A i \in Importers : Counted(import'[i], foreign'[i], orders')
      <4>1. ASSUME NEW i \in Importers \ {j} PROVE Counted(import'[i], foreign'[i], orders')
        <5>1. Counted(import[i], foreign[i], orders) /\ import[i] \in ImportJob /\ foreign[i] \in Nat BY <1>0
        <5>2. Counted(import[i], foreign[i] + 1, orders \cup {o}) BY <1>0, <3>6, <5>1, CountedBeside
        <5> QED BY <3>1, <3>3, <3>7, <5>2
      <4> QED BY <3>1, <3>4, <3>8, <4>1
    <3>10. ASSUME NEW ref \in Refs PROVE Once(orders', import', overlapped', ref)
      <4>1. Wants(import', ref) \subseteq Wants(import, ref) BY <2>6, <3>2
      <4>2. CASE o.ref # ref
        <5>1. Once(orders, import', overlapped, ref) BY <1>0, <4>1, OnceKept
        <5> QED BY <1>0, <2>3, <3>1, <4>2, <5>1, OnceBeside
      <4>3. CASE o.ref = ref
        <5>1. j \in Wants(import, o.ref) BY <2>1, <2>8, <3>5 DEF Wants, IsNew
        <5>2. o.ref \in q.seen BY <2>1, <3>5, <3>7, RowOutcomes
        <5>3. j \notin Wants(import', o.ref) BY <5>2 DEF Wants
        <5>4. Once(orders, import, overlapped, o.ref) BY <1>0, <4>3
        <5>5. Wants(import', o.ref) \subseteq Wants(import, o.ref) \ {j} BY <4>1, <4>3, <5>3
        <5>6. Once(orders \cup {o}, import', overlapped, o.ref)
          BY <1>0, <3>6, <5>1, <5>4, <5>5, OnceInserted
        <5> QED BY <2>3, <3>1, <4>3, <5>6
      <4> QED BY <4>2, <4>3
    <3>11. IsFiniteSet(orders') BY <1>0, <3>1, FS_AddElement
    <3>12. OneRuns(import', overlapped') BY <2>6, <3>2
    <3> QED BY <3>9, <3>10, <3>11, <3>12 DEF ImportInv
  <2> QED BY <2>7, <2>8
<1>4. ASSUME NEW j \in Importers, RowFails(j) PROVE ImportInv'
  <2> DEFINE r == import[j]
             q == FailedItself(import[j])
  <2>1. r \in ImportJob /\ r.row \in 1..Len(Rows) /\ Rows[r.row] \in Refs /\ r.next \in Nat /\ r.at = "rows"
    BY <1>4, RowTaken DEF RowFails
  <2>2. q \in ImportJob /\ q.at = "rows" /\ q.row = r.row + 1 /\ q.dry = r.dry /\ q.next = r.next + 1
        /\ q.failed = r.failed + 1 /\ q.errors = r.errors + 1 /\ q.seen = r.seen
    BY <2>1, RowOutcomes
  <2>3. import' = [import EXCEPT ![j] = q] BY <1>4 DEF RowFails
  <2>4. ~r.dry /\ overlapped' = overlapped /\ orders' = orders /\ foreign' = foreign BY <1>4 DEF RowFails
  <2> HIDE DEF q
  <2>5. import'[j] = q /\ \A i \in Importers \ {j} : import'[i] = import[i] BY <2>3 DEF ImportTypeOK
  <2>6. Counted(r, foreign[j], orders) /\ foreign[j] \in Nat BY <1>0
  <2>7. Counted(q, foreign[j], orders) BY <1>0, <2>1, <2>2, <2>4, <2>6, CountedFailed
  <2>8. OneRuns(import', overlapped')
    <3>1. \A i \in Importers : import'[i].at \in {"number", "rows"} => import[i].at \in {"number", "rows"}
      BY <2>1, <2>5
    <3> QED BY <1>0, <2>4, <3>1, NobodyNewRuns
  <2>9. \A ref \in Refs : Wants(import', ref) \subseteq Wants(import, ref) BY <2>1, <2>2, <2>5 DEF Wants
  <2> QED BY <1>a, <2>3, <2>4, <2>5, <2>7, <2>8, <2>9
<1>5. ASSUME NEW j \in Importers, ImportCompletes(j) PROVE ImportInv'
  <2> DEFINE r == import[j]
             q == [import[j] EXCEPT !.at = "completed"]
  <2>1. r \in ImportJob /\ Counted(r, foreign[j], orders) BY <1>0
  <2>2. q.at = "completed" /\ q.row = r.row /\ q.dry = r.dry /\ q.next = r.next
        /\ q.failed = r.failed /\ q.errors = r.errors /\ q.seen = r.seen
    BY <2>1 DEF ImportJob
  <2>3. import' = [import EXCEPT ![j] = q] BY <1>5 DEF ImportCompletes
  <2>4. overlapped' = overlapped /\ orders' = orders /\ foreign' = foreign BY <1>5 DEF ImportCompletes
  <2> HIDE DEF q
  <2>5. import'[j] = q /\ \A i \in Importers \ {j} : import'[i] = import[i] BY <2>3 DEF ImportTypeOK
  <2>6. r.at = "rows" /\ r.row = Len(Rows) + 1
    <3>1. r.row > Len(Rows) /\ r.at = "rows" BY <1>5 DEF ImportCompletes
    <3>2. r.row \in 1..(Len(Rows) + 1) BY <2>1 DEF Counted
    <3> QED BY <3>1, <3>2, RowsTyped
  <2>7. Counted(q, foreign[j], orders)
    <3>1. Behind(q) = Behind(r) BY <2>2 DEF Behind
    <3> QED BY <2>1, <2>2, <2>6, <3>1 DEF Counted
  <2>8. OneRuns(import', overlapped')
    <3>1. \A i \in Importers : import'[i].at \in {"number", "rows"} => import[i].at \in {"number", "rows"}
      BY <2>5, <2>6
    <3> QED BY <1>0, <2>4, <3>1, NobodyNewRuns
  <2>9. \A ref \in Refs : Wants(import', ref) \subseteq Wants(import, ref) BY <2>2, <2>5 DEF Wants
  <2> QED BY <1>a, <2>3, <2>4, <2>5, <2>7, <2>8, <2>9
<1>6. ASSUME NEW j \in Importers, ImportDies(j) PROVE ImportInv'
  <2>3. import' = [import EXCEPT ![j] = NoImport] BY <1>6 DEF ImportDies
  <2>4. overlapped' = overlapped /\ orders' = orders /\ foreign' = foreign BY <1>6 DEF ImportDies
  <2>5. import'[j] = NoImport /\ \A i \in Importers \ {j} : import'[i] = import[i] BY <2>3 DEF ImportTypeOK
  <2>6. NoImport.at = "none" /\ NoImport.failed = 0 /\ NoImport.errors = 0 /\ NoImport.row = 1 /\ NoImport.seen = {}
    BY DEF NoImport
  <2>7. Counted(NoImport, foreign[j], orders) BY <1>0, <2>6, NoImportTyped, CountedAnew
  <2>8. OneRuns(import', overlapped')
    <3>1. \A i \in Importers : import'[i].at \in {"number", "rows"} => import[i].at \in {"number", "rows"}
      BY <2>5, <2>6
    <3> QED BY <1>0, <2>4, <3>1, NobodyNewRuns
  <2>9. \A ref \in Refs : Wants(import', ref) \subseteq Wants(import, ref) BY <2>5, <2>6 DEF Wants
  <2> QED BY <1>a, <2>3, <2>4, <2>5, <2>7, <2>8, <2>9
<1>7. ASSUME NEW b \in Buyers, CheckoutReads(b) PROVE ImportInv'
  BY <1>0, <1>7 DEF CheckoutReads, ImportInv
<1>8. ASSUME NEW b \in Buyers, CheckoutInserts(b) PROVE ImportInv'
  <2>1. import' = import /\ overlapped' = overlapped BY <1>8 DEF CheckoutInserts
  <2>2. CASE Taken(buyer[b])
    <3>1. orders' = orders /\ foreign' = foreign BY <1>8, <2>2 DEF CheckoutInserts
    <3> QED BY <1>0, <2>1, <3>1 DEF ImportInv
  <2>3. CASE ~Taken(buyer[b])
    <3> DEFINE o == [number |-> buyer[b], ref |-> Storefront]
    <3>1. orders' = orders \cup {o} BY <1>8, <2>3 DEF CheckoutInserts
    <3>2. \A i \in Importers : foreign'[i] = foreign[i] + 1 BY <1>8, <2>3 DEF CheckoutInserts
    <3>3. o.ref = Storefront /\ o.number = buyer[b] OBVIOUS
    <3> HIDE DEF o
    <3>4. o \notin orders BY <2>3, <3>3 DEF Taken
    <3>5. ASSUME NEW i \in Importers PROVE Counted(import'[i], foreign'[i], orders')
      <4>1. Counted(import[i], foreign[i], orders) /\ import[i] \in ImportJob /\ foreign[i] \in Nat BY <1>0
      <4>2. Counted(import[i], foreign[i] + 1, orders \cup {o}) BY <1>0, <3>4, <4>1, CountedBeside
      <4> QED BY <2>1, <3>1, <3>2, <4>2
    <3>6. ASSUME NEW ref \in Refs PROVE Once(orders', import', overlapped', ref)
      <4>1. o.ref # ref BY <3>3, RowsTyped
      <4> QED BY <1>0, <2>1, <3>1, <4>1, OnceBeside
    <3>7. IsFiniteSet(orders') BY <1>0, <3>1, FS_AddElement
    <3>8. OneRuns(import', overlapped') BY <1>0, <2>1
    <3> QED BY <3>5, <3>6, <3>7, <3>8 DEF ImportInv
  <2> QED BY <2>2, <2>3
<1>9. CASE UNCHANGED importVars BY <1>0, <1>9 DEF importVars, ImportInv
<1> QED BY <1>1, <1>2, <1>3, <1>4, <1>5, <1>6, <1>7, <1>8, <1>9 DEF ImportNext

LEMMA ImportStarts == ImportInit => ImportTypeOK /\ ImportInv
<1> SUFFICES ASSUME ImportInit PROVE ImportTypeOK /\ ImportInv
    OBVIOUS
<1>1. ImportTypeOK BY NoImportTyped, ImportAssumption DEF ImportInit, ImportTypeOK
<1>2. orders = {} /\ \A j \in Importers : import[j] = NoImport /\ foreign[j] = 0 BY DEF ImportInit
<1>3. NoImport.at = "none" /\ NoImport.failed = 0 /\ NoImport.errors = 0 /\ NoImport.row = 1 /\ NoImport.seen = {}
  BY DEF NoImport
<1>4. IsFiniteSet(orders) BY <1>2, FS_EmptySet
<1>5. Counted(NoImport, 0, orders) BY <1>3, NoImportTyped, CountedAnew
<1>6. OneRuns(import, overlapped) BY <1>2, <1>3 DEF OneRuns
<1>7. ASSUME NEW ref \in Refs PROVE Once(orders, import, overlapped, ref)
  <2>1. CopiesIn(orders, ref) = {} BY <1>2 DEF CopiesIn
  <2>2. Cardinality(CopiesIn(orders, ref)) = 0 BY <2>1, FS_EmptySet
  <2> QED BY <2>1, <2>2 DEF Once
<1> QED BY <1>1, <1>2, <1>4, <1>5, <1>6, <1>7 DEF ImportInv

LEMMA InvCompletes == ImportTypeOK /\ ImportInv => ImportsAreComplete
<1> SUFFICES ASSUME ImportTypeOK, ImportInv PROVE ImportsAreComplete
    OBVIOUS
<1>1. ImportedOnce
  <2> SUFFICES ASSUME NEW ref \in Refs
               PROVE  CopiesOf(ref) <= IF overlapped THEN Cardinality(Importers) ELSE 1
    BY DEF ImportedOnce
  <2>1. CopiesOf(ref) = Cardinality(CopiesIn(orders, ref)) BY DEF CopiesOf, CopiesIn
  <2>2. /\ Cardinality(CopiesIn(orders, ref)) \in Nat /\ Cardinality(Wants(import, ref)) \in Nat
        /\ Cardinality(Importers) \in Nat
    BY SizesOfOnce DEF ImportInv
  <2>3. Once(orders, import, overlapped, ref) BY DEF ImportInv
  <2>4. CASE CopiesIn(orders, ref) = {}
    <3>1. Cardinality(CopiesIn(orders, ref)) = 0 BY <2>4, FS_EmptySet
    <3> QED BY <2>1, <2>2, <3>1
  <2>5. CASE CopiesIn(orders, ref) # {} BY <2>1, <2>2, <2>3, <2>5 DEF Once
  <2> QED BY <2>4, <2>5
<1>2. MissingAreReported
  <2> SUFFICES ASSUME NEW j \in Importers, import[j].at = "completed", ~import[j].dry
               PROVE  Cardinality({ref \in Refs : CopiesOf(ref) = 0}) <= import[j].failed
    BY DEF MissingAreReported
  <2>1. Counted(import[j], foreign[j], orders) BY DEF ImportInv
  <2>2. import[j].row - 1 = Len(Rows)
    <3>1. import[j].row = Len(Rows) + 1 BY <2>1 DEF Counted
    <3> QED BY <3>1, RowsTyped
  <2>3. Behind(import[j]) = Refs BY <2>2, RowsTyped DEF Behind, Refs
  <2>4. {ref \in Refs : CopiesOf(ref) = 0} \subseteq Behind(import[j]) \ KnownIn(orders)
    <3> SUFFICES ASSUME NEW ref \in Refs, CopiesOf(ref) = 0 PROVE ref \notin KnownIn(orders)
      BY <2>3
    <3>1. CopiesIn(orders, ref) = {}
      <4>1. IsFiniteSet(CopiesIn(orders, ref)) BY SizesOfOnce DEF ImportInv
      <4>2. Cardinality(CopiesIn(orders, ref)) = 0 BY DEF CopiesOf, CopiesIn
      <4> QED BY <4>1, <4>2, FS_EmptySet
    <3> QED BY <3>1 DEF CopiesIn, KnownIn
  <2>5. import[j] \in ImportJob BY DEF ImportTypeOK
  <2>6. IsFiniteSet(Behind(import[j]) \ KnownIn(orders)) BY <2>5, BehindFinite
  <2>7. Cardinality({ref \in Refs : CopiesOf(ref) = 0}) <= Cardinality(Behind(import[j]) \ KnownIn(orders))
    BY <2>4, <2>6, FS_Subset
  <2>8. Cardinality(Behind(import[j]) \ KnownIn(orders)) <= import[j].failed BY <2>1 DEF Counted
  <2>9. /\ Cardinality(Behind(import[j]) \ KnownIn(orders)) \in Nat /\ import[j].failed \in Nat
        /\ Cardinality({ref \in Refs : CopiesOf(ref) = 0}) \in Nat
    <3>1. IsFiniteSet({ref \in Refs : CopiesOf(ref) = 0}) BY <2>4, <2>6, FS_Subset
    <3> QED BY <2>5, <2>6, <3>1, FS_CardinalityType DEF ImportJob
  <2> QED BY <2>7, <2>8, <2>9
<1>3. FailuresAreCollisions
  <2> SUFFICES ASSUME NEW j \in Importers PROVE import[j].failed <= foreign[j] + import[j].errors
    BY DEF FailuresAreCollisions
  <2>1. Counted(import[j], foreign[j], orders) BY DEF ImportInv
  <2>2. import[j].failed \in Nat /\ import[j].errors \in Nat /\ foreign[j] \in Nat
        /\ import[j].at \in {"none", "number", "rows", "completed"}
    BY DEF ImportTypeOK, ImportJob
  <2>3. CASE import[j].at \in {"none", "number"}
    <3>1. import[j].failed = 0 /\ import[j].errors = 0 BY <2>1, <2>3 DEF Counted
    <3> QED BY <2>2, <3>1
  <2>4. CASE import[j].at \in {"rows", "completed"}
    <3>1. AheadIn(orders, import[j].next) \subseteq orders BY DEF AheadIn
    <3>2. IsFiniteSet(AheadIn(orders, import[j].next)) BY <3>1, FS_Subset DEF ImportInv
    <3>3. Cardinality(AheadIn(orders, import[j].next)) \in Nat BY <3>2, FS_CardinalityType
    <3>4. import[j].failed + Cardinality(AheadIn(orders, import[j].next)) <= foreign[j] + import[j].errors
      BY <2>1, <2>4 DEF Counted
    <3> QED BY <2>2, <3>3, <3>4
  <2> QED BY <2>2, <2>3, <2>4
<1> QED BY <1>1, <1>2, <1>3 DEF ImportsAreComplete

(* ImportTypeOK, however many orders, jobs and checkouts. *)
THEOREM ImportType == ImportSpec => []ImportTypeOK
<1>1. ImportInit => ImportTypeOK /\ ImportInv BY ImportStarts
<1>2. ImportTypeOK /\ ImportInv /\ [ImportNext]_importVars => (ImportTypeOK /\ ImportInv)'
  BY ImportTypeStep, ImportInvStep
<1> QED BY <1>1, <1>2, PTL DEF ImportSpec

(* Whatever dies, collides or is started again, an order of the export is there at most
   once, or once for each of the imports that ran at a time; a completed import reports
   what it did not bring in; and its failures are collisions with orders of others or
   errors of its rows (ImportService.process, commitOrder). *)
THEOREM HistoryComesInOnce == ImportSpec => []ImportsAreComplete
<1>1. ImportInit => ImportTypeOK /\ ImportInv BY ImportStarts
<1>2. ImportTypeOK /\ ImportInv /\ [ImportNext]_importVars => (ImportTypeOK /\ ImportInv)'
  BY ImportTypeStep, ImportInvStep
<1>3. ImportTypeOK /\ ImportInv => ImportsAreComplete BY InvCompletes
<1> QED BY <1>1, <1>2, <1>3, PTL DEF ImportSpec
----------------------------------------------------------------------------
(* Repricing. *)

LEMMA LargerOf ==
    ASSUME NEW a \in Int, NEW b \in Int
    PROVE  Max({a, b}) = IF a >= b THEN a ELSE b
<1> DEFINE m == IF a >= b THEN a ELSE b
<1>1. m \in {a, b} /\ \A y \in {a, b} : m >= y OBVIOUS
<1>2. \A x \in {a, b} : (\A y \in {a, b} : x >= y) => x = m OBVIOUS
<1> HIDE DEF m
<1>3. Max({a, b}) = m BY <1>1, <1>2 DEF Max
<1> QED BY <1>3 DEF m

LEMMA LargestOf ==
    ASSUME NEW a \in Int, NEW b \in Int, NEW c \in Int
    PROVE  /\ Max({a, b, c}) \in {a, b, c} /\ Max({a, b, c}) \in Int
           /\ Max({a, b, c}) >= a /\ Max({a, b, c}) >= b /\ Max({a, b, c}) >= c
<1>1. \E m \in {a, b, c} : \A y \in {a, b, c} : m >= y OBVIOUS
<1>2. Max({a, b, c}) \in {a, b, c} /\ \A y \in {a, b, c} : Max({a, b, c}) >= y BY <1>1 DEF Max
<1> QED BY <1>2

LEMMA SmallerOf ==
    ASSUME NEW a \in Int, NEW b \in Int
    PROVE  Min({a, b}) \in {a, b} /\ Min({a, b}) <= a /\ Min({a, b}) <= b
<1>1. \E m \in {a, b} : \A y \in {a, b} : m <= y OBVIOUS
<1>2. Min({a, b}) \in {a, b} /\ \A y \in {a, b} : Min({a, b}) <= y BY <1>1 DEF Min
<1> QED BY <1>2

LEMMA LeastNumber ==
    ASSUME NEW S, S \subseteq Nat, S # {}
    PROVE  Min(S) \in S
<1>1. PICK m \in S : \A k \in S : ~(k < m) BY SmallestNumber
<1>2. \A k \in S : m <= k BY <1>1
<1> QED BY <1>2 DEF Min

LEMMA FloorIsNat ==
    ASSUME NEW cost \in Nat, NEW margin \in Nat
    PROVE  MarginFloor(cost, margin) \in Nat
<1> DEFINE d == 100 - Min({99, margin})
           n == cost * 100 + d - 1
<1>1. Min({99, margin}) \in Nat /\ Min({99, margin}) <= 99 BY SmallerOf
<1>2. d \in Nat /\ d >= 1 BY <1>1
<1>3. cost * 100 \in Nat OBVIOUS
<1> HIDE DEF d
<1>4. n \in Nat BY <1>2, <1>3
<1> HIDE DEF n
<1>5. n \div d \in Nat BY <1>2, <1>4, SMTT(30)
<1> QED BY <1>5 DEF MarginFloor, Ceiling, n, d

LEMMA SameQuotient ==
    ASSUME NEW y \in Nat, NEW m \in Nat, NEW n \in Nat, 200 * m <= 2 * y + 100, 2 * y + 100 < 200 * m + 200,
           200 * n <= 2 * y + 100, 2 * y + 100 < 200 * n + 200
    PROVE  m = n
  OBVIOUS

LEMMA CharmIs ==
    ASSUME NEW x \in Nat
    PROVE  /\ Charm(x) \in Nat /\ Charm(x) >= x - 50
           /\ \A floor \in Nat : floor <= x => \A z \in {1, Charm(x), floor} :
                 (z >= 1 /\ z >= Charm(x) /\ z >= floor) => Charm(z) = Charm(x)
<1> DEFINE k(y) == (2 * y + 100) \div 200
           j(y) == IF 1 >= k(y) THEN 1 ELSE k(y)
<1>1. \A y \in Nat : k(y) \in Nat /\ 200 * k(y) <= 2 * y + 100 /\ 2 * y + 100 < 200 * k(y) + 200
  BY SMTT(30)
<1>2. ASSUME NEW y \in Nat PROVE Charm(y) = j(y) * 100 - 1
  <2>1. Nearest(y, 100) = k(y) BY DEF Nearest
  <2>2. k(y) \in Int BY <1>1
  <2> HIDE DEF k
  <2>3. Max({1, k(y)}) = j(y) BY <2>2, LargerOf
  <2> QED BY <2>1, <2>3 DEF Charm
<1> HIDE DEF k
<1>3. /\ k(x) \in Nat /\ 200 * k(x) <= 2 * x + 100 /\ 2 * x + 100 < 200 * k(x) + 200
  BY <1>1
<1>4. Charm(x) = j(x) * 100 - 1 BY <1>2
<1>5. Charm(x) \in Nat /\ Charm(x) >= x - 50 BY <1>3, <1>4
<1>6. ASSUME NEW floor \in Nat, floor <= x, NEW z \in {1, Charm(x), floor},
             z >= 1, z >= Charm(x), z >= floor
      PROVE  Charm(z) = Charm(x)
  <2>1. z \in Nat BY <1>5, <1>6
  <2>2. Charm(z) = j(z) * 100 - 1 BY <1>2, <2>1
  <2>3. /\ k(z) \in Nat /\ 200 * k(z) <= 2 * z + 100 /\ 2 * z + 100 < 200 * k(z) + 200
    BY <1>1, <2>1
  <2>4. CASE z = Charm(x)
    <3>1. CASE k(x) >= 1
      <4>1. z = k(x) * 100 - 1 BY <1>3, <1>4, <2>4, <3>1
      <4>2. 200 * k(x) <= 2 * z + 100 /\ 2 * z + 100 < 200 * k(x) + 200 BY <1>3, <4>1
      <4>3. k(z) = k(x) BY <1>3, <2>1, <2>3, <4>2, SameQuotient
      <4> QED BY <1>4, <2>2, <4>3
    <3>2. CASE k(x) = 0
      <4>1. z = 99 BY <1>4, <2>4, <3>2
      <4>2. k(z) = 1 BY <2>3, <4>1
      <4>3. j(z) = 1 /\ j(x) = 1 BY <3>2, <4>2
      <4> QED BY <1>4, <2>2, <4>3
    <3> QED BY <1>3, <3>1, <3>2
  <2>5. CASE z = floor /\ z # Charm(x)
    <3>1. z > Charm(x) /\ z <= x BY <1>5, <1>6, <2>1, <2>5
    <3>2. CASE k(x) >= 1
      <4>1. z >= k(x) * 100 BY <1>3, <1>4, <2>1, <3>1, <3>2
      <4>2. 200 * k(x) <= 2 * z + 100 /\ 2 * z + 100 < 200 * k(x) + 200 BY <1>3, <2>1, <3>1, <4>1
      <4>3. k(z) = k(x) BY <1>3, <2>1, <2>3, <4>2, SameQuotient
      <4> QED BY <1>4, <2>2, <4>3
    <3>3. CASE k(x) = 0
      <4>1. FALSE
        <5>1. x <= 49 BY <1>3, <3>3
        <5>2. Charm(x) = 99 BY <1>4, <3>3
        <5> QED BY <3>1, <5>1, <5>2, <2>1
      <4> QED BY <4>1
    <3> QED BY <1>3, <3>2, <3>3
  <2>6. CASE z = 1 /\ z # Charm(x)
    <3>1. Charm(x) >= 99 BY <1>3, <1>4
    <3>2. 1 >= Charm(x) BY <1>6, <2>6
    <3> QED BY <1>5, <3>1, <3>2
  <2> QED BY <1>6, <2>4, <2>5, <2>6
<1> QED BY <1>5, <1>6

LEMMA TargetIs ==
    ASSUME NEW r \in PriceRules, NEW g \in Good, NEW seen \in SUBSET Rival
    PROVE  /\ Target(r, g, seen) \in Int
           /\ \A h \in Good : h.cost = g.cost =>
                 \/ Target(r, h, seen) = Target(r, g, seen)
                 \/ Target(r, g, seen) = g.price /\ Target(r, h, seen) = h.price
<1>1. r.adjust \in Nat /\ r.minMargin \in Nat /\ r.percent \in BOOLEAN BY PricingAssumption DEF PriceRule
<1>2. g.price \in Nat /\ g.cost \in Nat BY DEF Good
<1>3. MarginFloor(g.cost, r.adjust) \in Nat BY <1>1, <1>2, FloorIsNat
<1>4. Asked(seen) \subseteq Nat BY DEF Asked, Rival
<1>5. Asked(seen) # {} => Min(Asked(seen)) \in Nat BY <1>4, LeastNumber
<1>6. ASSUME NEW m \in Nat PROVE Nearest(m * r.adjust, 100) \in Int
  <2>1. m * r.adjust \in Nat BY <1>1
  <2>2. \A n \in Nat : (2 * n + 100) \div 200 \in Int BY SMTT(30)
  <2>3. Nearest(m * r.adjust, 100) = (2 * (m * r.adjust) + 100) \div 200 BY DEF Nearest
  <2> QED BY <2>1, <2>2, <2>3
<1>7. Target(r, g, seen) \in Int
  <2>1. CASE r.strategy = "FIXED_MARGIN" BY <1>2, <1>3, <2>1 DEF Target
  <2>2. CASE r.strategy # "FIXED_MARGIN" /\ Asked(seen) = {} BY <1>2, <2>2 DEF Target
  <2>3. CASE r.strategy # "FIXED_MARGIN" /\ Asked(seen) # {}
    <3>1. Min(Asked(seen)) \in Nat BY <1>5, <2>3
    <3>2. Nearest(Min(Asked(seen)) * r.adjust, 100) \in Int BY <1>6, <3>1
    <3>3. Min(Asked(seen)) - Nearest(Min(Asked(seen)) * r.adjust, 100) \in Int BY <3>1, <3>2
    <3>4. Min(Asked(seen)) - r.adjust \in Int BY <1>1, <3>1
    <3> QED BY <2>3, <3>1, <3>3, <3>4 DEF Target
  <2> QED BY <2>1, <2>2, <2>3
<1>8. ASSUME NEW h \in Good, h.cost = g.cost
      PROVE  \/ Target(r, h, seen) = Target(r, g, seen)
             \/ Target(r, g, seen) = g.price /\ Target(r, h, seen) = h.price
  <2>1. CASE r.strategy = "FIXED_MARGIN"
    <3>1. Target(r, h, seen) = IF g.cost > 0 THEN MarginFloor(g.cost, r.adjust) ELSE h.price
      BY <1>8, <2>1 DEF Target
    <3>2. Target(r, g, seen) = IF g.cost > 0 THEN MarginFloor(g.cost, r.adjust) ELSE g.price
      BY <2>1 DEF Target
    <3> QED BY <3>1, <3>2
  <2>2. CASE r.strategy # "FIXED_MARGIN" /\ Asked(seen) = {} BY <2>2 DEF Target
  <2>3. CASE r.strategy # "FIXED_MARGIN" /\ Asked(seen) # {} BY <2>3 DEF Target
  <2> QED BY <2>1, <2>2, <2>3
<1> QED BY <1>7, <1>8

(* What a repricing recommends: a price, on or above the margin floor but for the charm,
   and one that it would recommend again. *)
LEMMA RecommendIs ==
    ASSUME NEW r \in PriceRules, NEW g \in Good, NEW seen \in SUBSET Rival
    PROVE  /\ Recommend(r, g, seen) \in Nat
           /\ Recommend(r, g, seen) >= MarginFloor(g.cost, r.minMargin) - (IF r.roundTo99 THEN 50 ELSE 0)
           /\ \A h \in Good : h.cost = g.cost /\ h.price = Recommend(r, g, seen) =>
                 Recommend(r, h, seen) = h.price
<1>1. r.minMargin \in Nat /\ r.roundTo99 \in BOOLEAN BY PricingAssumption DEF PriceRule
<1>2. g.price \in Nat /\ g.cost \in Nat BY DEF Good
<1> DEFINE t == Target(r, g, seen)
           f == MarginFloor(g.cost, r.minMargin)
           a == AboveFloor(t, g, r)
<1>3. t \in Int BY TargetIs
<1>4. f \in Nat BY <1>1, <1>2, FloorIsNat
<1>5. a = Max({1, t, f}) BY DEF AboveFloor
<1>6. Recommend(r, g, seen) = IF r.roundTo99 THEN Charm(a) ELSE a BY DEF Recommend
<1> HIDE DEF t, f, a
<1>m. /\ Max({1, t, f}) \in {1, t, f} /\ Max({1, t, f}) \in Int
      /\ Max({1, t, f}) >= 1 /\ Max({1, t, f}) >= t /\ Max({1, t, f}) >= f
  <2>1. 1 \in Int /\ t \in Int /\ f \in Int BY <1>3, <1>4
  <2> QED BY ONLY <2>1, LargestOf, Zenon
<1>7. a \in {1, t, f} /\ a >= 1 /\ a >= t /\ a >= f /\ a \in Nat BY <1>m, <1>5
<1>8. Charm(a) \in Nat /\ Charm(a) >= a - 50 BY <1>7, CharmIs
<1>9. Recommend(r, g, seen) \in Nat BY <1>6, <1>7, <1>8
<1>10. Recommend(r, g, seen) >= f - (IF r.roundTo99 THEN 50 ELSE 0)
  BY <1>1, <1>4, <1>6, <1>7, <1>8
<1>11. ASSUME NEW h \in Good, h.cost = g.cost, h.price = Recommend(r, g, seen)
       PROVE  Recommend(r, h, seen) = h.price
  <2> DEFINE u == Target(r, h, seen)
             b == AboveFloor(u, h, r)
  <2>1. u \in Int BY TargetIs
  <2>2. b = Max({1, u, f}) BY <1>11 DEF AboveFloor, f
  <2>3. Recommend(r, h, seen) = IF r.roundTo99 THEN Charm(b) ELSE b BY DEF Recommend
  <2>4. u = t \/ u = h.price BY <1>11, TargetIs DEF t
  <2> HIDE DEF u, b
  <2>m. /\ Max({1, u, f}) \in {1, u, f} /\ Max({1, u, f}) \in Int
        /\ Max({1, u, f}) >= 1 /\ Max({1, u, f}) >= u /\ Max({1, u, f}) >= f
    <3>1. 1 \in Int /\ u \in Int /\ f \in Int BY <1>4, <2>1
    <3> QED BY ONLY <3>1, LargestOf, Zenon
  <2>5. b \in {1, u, f} /\ b >= 1 /\ b >= u /\ b >= f BY <2>m, <2>2
  <2>6. CASE u = t BY <1>5, <1>6, <1>11, <2>2, <2>3, <2>6
  <2>7. CASE u = h.price /\ ~r.roundTo99
    <3>1. u = a BY <1>6, <1>11, <2>7
    <3>2. b = a BY <1>4, <1>7, <2>5, <3>1
    <3> QED BY <1>6, <1>11, <2>3, <2>7, <3>2
  <2>8. CASE u = h.price /\ r.roundTo99
    <3>1. u = Charm(a) BY <1>6, <1>11, <2>8
    <3>2. Charm(b) = Charm(a) BY <1>4, <1>7, <2>5, <3>1, CharmIs
    <3> QED BY <1>6, <1>11, <2>3, <2>8, <3>2
  <2> QED BY <2>4, <2>6, <2>7, <2>8
<1> QED BY <1>9, <1>10, <1>11 DEF f

(* The variant as an edit leaves it. *)
Changed(g, field, to) == IF field = "price" THEN [g EXCEPT !.price = to] ELSE [g EXCEPT !.was = to]

Writing == [at : {"write"}, rule : PriceRules, todo : SUBSET (Priced \X Nat),
            goods : [Priced -> Good], rivals : [Priced -> SUBSET Rival]]

(* A repricing that writes has for each variant what it recommends on what it read. *)
RepricerInOrder(p) ==
    \/ p = NoReprice
    \/ p.at = "read" /\ p.rule \in PriceRules
    \/ /\ p \in Writing
       /\ \A c \in p.todo : c[2] = Recommend(p.rule, p.goods[c[1]], p.rivals[c[1]])

(* A price with a basis was recommended on it, for some price of before. *)
RestsOn(b, g) ==
    \/ b = NoBasis
    \/ /\ b \in Basis
       /\ \E x \in Good : x.cost = b.cost /\ g.price = Recommend(b.rule, x, b.rivals)

(* What an edit compared is what it will leave behind, unless others interfered. *)
Fits(e, gs, cs) ==
    (e # NoEdit /\ e.clean /\ e.v \notin cs) => Accepts(Changed(gs[e.v], e.field, e.to))

PricesInOrder ==
    /\ rule \in PriceRules /\ goods \in [Priced -> Good] /\ rivals \in [Priced -> SUBSET Rival]
    /\ repricer = [h \in Repricers |-> repricer[h]] /\ \A h \in Repricers : RepricerInOrder(repricer[h])
    /\ editing \in [Editors -> {NoEdit} \cup Editing]
    /\ basis = [v \in Priced |-> basis[v]]
    /\ crossed \subseteq Priced /\ priceCalls \in Nat

PricingInv ==
    /\ PricesInOrder
    /\ \A v \in Priced : RestsOn(basis[v], goods[v])
    /\ \A e \in Editors : Fits(editing[e], goods, crossed)
    /\ \A v \in Priced \ crossed : Accepts(goods[v])

LEMMA EditsTyped ==
    ASSUME NEW x \in Editing
    PROVE  x # NoEdit /\ x.v \in Priced /\ x.field \in {"price", "was"} /\ x.to \in Nat /\ x.clean \in BOOLEAN
  BY DEF Editing, NoEdit

LEMMA ChangedIs ==
    ASSUME NEW g \in Good, NEW field \in {"price", "was"}, NEW to \in Nat
    PROVE  /\ Changed(g, field, to) \in Good /\ Changed(g, field, to).cost = g.cost
           /\ Changed(g, field, to).price = IF field = "price" THEN to ELSE g.price
           /\ Changed(g, field, to).was = IF field = "price" THEN g.was ELSE to
<1>1. CASE field = "price" BY <1>1 DEF Changed, Good
<1>2. CASE field # "price" BY <1>2 DEF Changed, Good
<1> QED BY <1>1, <1>2

LEMMA PriceWritten ==
    ASSUME NEW g \in Good, NEW n \in Nat
    PROVE  /\ [g EXCEPT !.price = n] \in Good /\ [g EXCEPT !.price = n].price = n
           /\ [g EXCEPT !.price = n].was = g.was /\ [g EXCEPT !.price = n].cost = g.cost
  BY DEF Good

(* Accepting looks at the two prices. *)
LEMMA AcceptsSame ==
    ASSUME NEW g, NEW h, g.price = h.price, g.was = h.was
    PROVE  Accepts(g) = Accepts(h)
  BY DEF Accepts

LEMMA PricesStart == PricingInit => PricingInv
<1> SUFFICES ASSUME PricingInit PROVE PricingInv
    OBVIOUS
<1>1. goods \in [Priced -> Good] /\ \A v \in Priced : goods[v].was = 0
  <2>1. \A v \in Priced : goods[v] \in [price : Prices, was : {0}, cost : Costs] BY DEF PricingInit
  <2>2. \A v \in Priced : goods[v] \in Good /\ goods[v].was = 0 BY <2>1, PricingAssumption DEF Good
  <2> QED BY <2>2 DEF PricingInit
<1>2. PricesInOrder BY <1>1 DEF PricingInit, PricesInOrder, RepricerInOrder
<1>3. \A v \in Priced : RestsOn(basis[v], goods[v]) BY DEF PricingInit, RestsOn
<1>4. \A e \in Editors : Fits(editing[e], goods, crossed) BY DEF PricingInit, Fits
<1>5. \A v \in Priced \ crossed : Accepts(goods[v]) BY <1>1 DEF Accepts
<1> QED BY <1>2, <1>3, <1>4, <1>5 DEF PricingInv

(* What leaves the prices, the edits and what the prices rest on as they are. *)
LEMMA PricesUntouched ==
    ASSUME PricingInv, goods' = goods, basis' = basis, crossed' = crossed, editing' = editing,
           PricesInOrder'
    PROVE  PricingInv'
  BY DEF PricingInv

LEMMA SetCostKeeps ==
    ASSUME PricingInv, NEW v \in Priced, NEW cost \in Costs, SetCost(v, cost)
    PROVE  PricingInv'
<1> DEFINE g == [goods[v] EXCEPT !.cost = cost]
<1>0. goods \in [Priced -> Good] /\ cost \in Nat BY PricingAssumption DEF PricingInv, PricesInOrder
<1>1. g \in Good /\ g.price = goods[v].price /\ g.was = goods[v].was BY <1>0 DEF Good
<1>2. goods' = [goods EXCEPT ![v] = g] BY <1>0 DEF SetCost, Good
<1> HIDE DEF g
<1>3. goods' \in [Priced -> Good] /\ \A w \in Priced : goods'[w].price = goods[w].price /\ goods'[w].was = goods[w].was
  BY <1>0, <1>1, <1>2
<1>4. UNCHANGED <<rule, rivals, repricer, editing, basis, crossed>> /\ priceCalls' = priceCalls + 1
  BY DEF SetCost, PriceCall
<1>5. PricesInOrder' BY <1>3, <1>4 DEF PricingInv, PricesInOrder
<1>6. \A w \in Priced : RestsOn(basis'[w], goods'[w]) BY <1>3, <1>4 DEF PricingInv, RestsOn
<1>7. ASSUME NEW e \in Editors PROVE Fits(editing'[e], goods', crossed')
  <2> DEFINE x == editing[e]
  <2>1. editing'[e] = x /\ crossed' = crossed BY <1>4
  <2>2. Fits(x, goods, crossed) BY DEF PricingInv
  <2>3. CASE x = NoEdit BY <2>1, <2>3 DEF Fits
  <2>4. CASE x # NoEdit
    <3>1. x \in Editing BY <2>4 DEF PricingInv, PricesInOrder
    <3> HIDE DEF x
    <3>2. x.v \in Priced /\ x.field \in {"price", "was"} /\ x.to \in Nat BY <3>1, EditsTyped
    <3>3. goods[x.v] \in Good /\ goods'[x.v] \in Good BY <1>0, <1>3, <3>2
    <3>4. /\ Changed(goods[x.v], x.field, x.to).price = Changed(goods'[x.v], x.field, x.to).price
          /\ Changed(goods[x.v], x.field, x.to).was = Changed(goods'[x.v], x.field, x.to).was
      <4>1. goods'[x.v].price = goods[x.v].price /\ goods'[x.v].was = goods[x.v].was BY <1>3, <3>2
      <4>2. /\ Changed(goods[x.v], x.field, x.to).price = (IF x.field = "price" THEN x.to ELSE goods[x.v].price)
            /\ Changed(goods[x.v], x.field, x.to).was = (IF x.field = "price" THEN goods[x.v].was ELSE x.to)
        BY <3>2, <3>3, ChangedIs
      <4>3. /\ Changed(goods'[x.v], x.field, x.to).price = (IF x.field = "price" THEN x.to ELSE goods'[x.v].price)
            /\ Changed(goods'[x.v], x.field, x.to).was = (IF x.field = "price" THEN goods'[x.v].was ELSE x.to)
        BY <3>2, <3>3, ChangedIs
      <4> QED BY <4>1, <4>2, <4>3
    <3>5. Accepts(Changed(goods[x.v], x.field, x.to)) = Accepts(Changed(goods'[x.v], x.field, x.to))
      BY <3>4, AcceptsSame
    <3> QED BY <2>1, <2>2, <3>5 DEF Fits
  <2> QED BY <2>3, <2>4
<1>8. \A w \in Priced \ crossed' : Accepts(goods'[w]) BY <1>3, <1>4 DEF PricingInv, Accepts
<1> QED BY <1>5, <1>6, <1>7, <1>8 DEF PricingInv

LEMMA AddCompetitorKeeps ==
    ASSUME PricingInv, NEW v \in Priced, NEW p \in RivalPrices, NEW b \in BOOLEAN, AddCompetitor(v, p, b)
    PROVE  PricingInv'
<1>1. [asks |-> p, inStock |-> b] \in Rival BY PricingAssumption DEF Rival
<1>2. rivals' \in [Priced -> SUBSET Rival] BY <1>1 DEF AddCompetitor, PricingInv, PricesInOrder
<1>3. PricesInOrder' BY <1>2 DEF AddCompetitor, PriceCall, PricingInv, PricesInOrder
<1> QED BY <1>3, PricesUntouched DEF AddCompetitor

LEMMA RemoveCompetitorKeeps ==
    ASSUME PricingInv, NEW v \in Priced, NEW r \in rivals[v], RemoveCompetitor(v, r)
    PROVE  PricingInv'
<1>1. rivals' \in [Priced -> SUBSET Rival] BY DEF RemoveCompetitor, PricingInv, PricesInOrder
<1>2. PricesInOrder' BY <1>1 DEF RemoveCompetitor, PriceCall, PricingInv, PricesInOrder
<1> QED BY <1>2, PricesUntouched DEF RemoveCompetitor

LEMMA MovedIs ==
    ASSUME NEW r \in Rival
    PROVE  Moved(r) \subseteq Rival
<1> SUFFICES ASSUME NEW f \in {95, 100, 105}
             PROVE  [r EXCEPT !.asks = Max({1, Nearest(r.asks * f, 100)})] \in Rival
    BY DEF Moved
<1>1. r.asks \in Nat BY DEF Rival
<1>2. r.asks * f \in Nat BY <1>1
<1>3. \A n \in Nat : (2 * n + 100) \div 200 \in Int BY SMTT(30)
<1>4. Nearest(r.asks * f, 100) = (2 * (r.asks * f) + 100) \div 200 BY DEF Nearest
<1>5. Nearest(r.asks * f, 100) \in Int BY <1>2, <1>3, <1>4
<1>6. Max({1, Nearest(r.asks * f, 100)}) = IF 1 >= Nearest(r.asks * f, 100) THEN 1 ELSE Nearest(r.asks * f, 100)
  BY <1>5, LargerOf
<1>7. Max({1, Nearest(r.asks * f, 100)}) \in Nat \ {0} BY <1>5, <1>6
<1> QED BY <1>7 DEF Rival

LEMMA RefreshKeeps ==
    ASSUME PricingInv, NEW v \in Priced, RefreshCompetitors(v)
    PROVE  PricingInv'
<1>1. PICK moved \in [rivals[v] -> UNION {Moved(r) : r \in rivals[v]}] :
         /\ \A r \in rivals[v] : moved[r] \in Moved(r)
         /\ rivals' = [rivals EXCEPT ![v] = {moved[r] : r \in rivals[v]}]
  BY DEF RefreshCompetitors
<1>2. rivals[v] \subseteq Rival BY DEF PricingInv, PricesInOrder
<1>3. {moved[r] : r \in rivals[v]} \subseteq Rival BY <1>1, <1>2, MovedIs
<1>4. rivals' \in [Priced -> SUBSET Rival] BY <1>1, <1>3 DEF PricingInv, PricesInOrder
<1>5. UNCHANGED <<rule, goods, repricer, editing, basis, crossed>> /\ priceCalls' = priceCalls + 1
  BY DEF RefreshCompetitors, PriceCall
<1>6. PricesInOrder' BY <1>4, <1>5 DEF PricingInv, PricesInOrder
<1> QED BY <1>5, <1>6, PricesUntouched

LEMMA EditKeeps ==
    ASSUME PricingInv, NEW e \in Editors, NEW v \in Priced, NEW field \in {"price", "was"}, NEW to \in Prices,
           Edit(e, v, field, to)
    PROVE  PricingInv'
<1> DEFINE x == [at |-> "write", v |-> v, field |-> field, to |-> to, clean |-> TRUE]
<1>0. to \in Nat BY PricingAssumption
<1>1. x \in Editing /\ x.v = v /\ x.field = field /\ x.to = to BY <1>0 DEF Editing
<1>2. editing' = [editing EXCEPT ![e] = x] BY DEF Edit
<1>3. Accepts(Changed(goods[v], field, to)) BY DEF Edit, Changed
<1> HIDE DEF x
<1>4. editing \in [Editors -> {NoEdit} \cup Editing] BY DEF PricingInv, PricesInOrder
<1>5. editing' \in [Editors -> {NoEdit} \cup Editing] BY <1>1, <1>2, <1>4
<1>6. UNCHANGED <<rule, goods, rivals, repricer, basis, crossed>> /\ priceCalls' = priceCalls + 1
  BY DEF Edit, PriceCall
<1>7. PricesInOrder' BY <1>5, <1>6 DEF PricingInv, PricesInOrder
<1>8. ASSUME NEW d \in Editors PROVE Fits(editing'[d], goods', crossed')
  <2>1. CASE d = e
    <3>1. editing'[d] = x BY <1>2, <1>4, <2>1
    <3> QED BY <1>1, <1>3, <1>6, <3>1 DEF Fits
  <2>2. CASE d # e
    <3>1. editing'[d] = editing[d] BY <1>2, <1>4, <2>2
    <3>2. Fits(editing[d], goods, crossed) BY DEF PricingInv
    <3> QED BY <1>6, <3>1, <3>2
  <2> QED BY <2>1, <2>2
<1> QED BY <1>6, <1>7, <1>8 DEF PricingInv

(* A price or "was" price is written: whoever else edits the variant is out of date. *)
LEMMA OutdatedIs ==
    ASSUME PricingInv, NEW v \in Priced
    PROVE  /\ Outdated(v) \in [Editors -> {NoEdit} \cup Editing]
           /\ \A e \in Editors :
                 \/ Outdated(v)[e] = NoEdit
                 \/ Outdated(v)[e] \in Editing /\ Outdated(v)[e].v = v /\ ~Outdated(v)[e].clean
                 \/ Outdated(v)[e] = editing[e] /\ editing[e].v # v
<1>1. ASSUME NEW e \in Editors
      PROVE  \/ Outdated(v)[e] = NoEdit
             \/ Outdated(v)[e] \in Editing /\ Outdated(v)[e].v = v /\ ~Outdated(v)[e].clean
             \/ Outdated(v)[e] = editing[e] /\ editing[e].v # v
  <2>0. editing[e] = NoEdit \/ editing[e] \in Editing BY DEF PricingInv, PricesInOrder
  <2>1. CASE editing[e] = NoEdit BY <2>1 DEF Outdated
  <2>2. CASE editing[e] # NoEdit /\ editing[e].v # v BY <2>2 DEF Outdated
  <2>3. CASE editing[e] # NoEdit /\ editing[e].v = v
    <3>1. Outdated(v)[e] = [editing[e] EXCEPT !.clean = FALSE] BY <2>3 DEF Outdated
    <3>2. editing[e] \in Editing BY <2>0, <2>3
    <3>3. [editing[e] EXCEPT !.clean = FALSE] \in Editing /\ [editing[e] EXCEPT !.clean = FALSE].v = v
          /\ [editing[e] EXCEPT !.clean = FALSE].clean = FALSE
      BY <2>3, <3>2 DEF Editing
    <3> QED BY <3>1, <3>3
  <2> QED BY <2>0, <2>1, <2>2, <2>3
<1>2. \A e \in Editors : Outdated(v)[e] \in {NoEdit} \cup Editing
  BY <1>1 DEF PricingInv, PricesInOrder
<1>3. Outdated(v) = [e \in Editors |-> Outdated(v)[e]] BY DEF Outdated
<1> QED BY <1>1, <1>2, <1>3

(* Of an edit of another variant. *)
LEMMA FitsBeside ==
    ASSUME NEW x \in Editing, NEW gs, NEW after, NEW cs, NEW csAfter, Fits(x, gs, cs),
           after[x.v] = gs[x.v], x.v \in csAfter <=> x.v \in cs
    PROVE  Fits(x, after, csAfter)
  BY DEF Fits

LEMMA SaveEditKeeps ==
    ASSUME PricingInv, NEW e \in Editors, SaveEdit(e)
    PROVE  PricingInv'
<1> DEFINE x == editing[e]
<1>0. goods \in [Priced -> Good] /\ editing \in [Editors -> {NoEdit} \cup Editing] /\ crossed \subseteq Priced
  BY DEF PricingInv, PricesInOrder
<1>1. x \in Editing BY <1>0 DEF SaveEdit
<1>2. x # NoEdit /\ x.v \in Priced /\ x.field \in {"price", "was"} /\ x.to \in Nat /\ x.clean \in BOOLEAN
  BY <1>1, EditsTyped
<1>f. Fits(x, goods, crossed) BY DEF PricingInv
<1> HIDE DEF x
<1> DEFINE g == Changed(goods[x.v], x.field, x.to)
<1>3. goods[x.v] \in Good BY <1>0, <1>2
<1>4. /\ g \in Good /\ g.cost = goods[x.v].cost
      /\ g.price = (IF x.field = "price" THEN x.to ELSE goods[x.v].price)
      /\ g.was = (IF x.field = "price" THEN goods[x.v].was ELSE x.to)
  <2>1. x.field \in {"price", "was"} /\ x.to \in Nat BY <1>2
  <2> QED BY ONLY <1>3, <2>1, ChangedIs
<1>5. goods' = [goods EXCEPT ![x.v] = g]
  <2>1. CASE x.field = "price" BY <1>0, <1>2, <2>1 DEF SaveEdit, Changed, x
  <2>2. CASE x.field # "price" BY <1>0, <1>2, <2>2 DEF SaveEdit, Changed, x
  <2> QED BY <2>1, <2>2
<1>6. editing' = [Outdated(x.v) EXCEPT ![e] = NoEdit] BY DEF SaveEdit, x
<1>7. basis' = IF x.field = "price" THEN [basis EXCEPT ![x.v] = NoBasis] ELSE basis BY DEF SaveEdit, x
<1>8. crossed' = IF goods'[x.v].was = 0 THEN crossed \ {x.v}
                 ELSE IF x.clean THEN crossed ELSE crossed \cup {x.v}
  BY DEF SaveEdit, x
<1>9. rule' = rule /\ rivals' = rivals /\ repricer' = repricer /\ priceCalls' = priceCalls BY DEF SaveEdit
<1>10. Fits(x, goods, crossed) => (x.clean /\ x.v \notin crossed => Accepts(g)) BY <1>2 DEF Fits
<1> HIDE DEF g
<1>11. goods'[x.v] = g /\ \A w \in Priced \ {x.v} : goods'[w] = goods[w] BY <1>0, <1>2, <1>5
<1>12. goods' \in [Priced -> Good] BY <1>0, <1>4, <1>5
<1>13. \A d \in Editors : editing'[d] = IF d = e THEN NoEdit ELSE Outdated(x.v)[d]
  BY <1>2, <1>6, OutdatedIs
<1>14. editing' \in [Editors -> {NoEdit} \cup Editing] BY <1>2, <1>6, OutdatedIs
<1>15. basis' = [v \in Priced |-> basis'[v]] /\ \A v \in Priced : basis'[v] = NoBasis \/ (basis'[v] = basis[v] /\ (v = x.v => x.field # "price"))
  BY <1>2, <1>7 DEF PricingInv, PricesInOrder
<1>16. PricesInOrder'
  <2>1. crossed' \subseteq Priced BY <1>0, <1>2, <1>8
  <2> QED BY <1>9, <1>12, <1>14, <1>15, <2>1 DEF PricingInv, PricesInOrder
<1>17. ASSUME NEW v \in Priced PROVE RestsOn(basis'[v], goods'[v])
  <2>1. RestsOn(basis[v], goods[v]) BY DEF PricingInv
  <2>2. CASE basis'[v] = NoBasis BY <2>2 DEF RestsOn
  <2>3. CASE basis'[v] # NoBasis
    <3>1. basis'[v] = basis[v] /\ goods'[v].price = goods[v].price BY <1>4, <1>11, <1>15, <2>3
    <3> QED BY <2>1, <3>1 DEF RestsOn
  <2> QED BY <2>2, <2>3
<1>18. \A v \in Priced : v # x.v => (v \in crossed' <=> v \in crossed) BY <1>8
<1>19. ASSUME NEW d \in Editors PROVE Fits(editing'[d], goods', crossed')
  <2>1. CASE d = e \/ Outdated(x.v)[d] = NoEdit BY <1>13, <2>1 DEF Fits
  <2>2. CASE d # e /\ Outdated(x.v)[d] # NoEdit
    <3>1. editing'[d] = Outdated(x.v)[d] BY <1>13, <2>2
    <3>2. \/ editing'[d] \in Editing /\ ~editing'[d].clean
          \/ editing'[d] = editing[d] /\ editing[d].v # x.v
      BY <1>2, <2>2, <3>1, OutdatedIs
    <3>3. CASE ~editing'[d].clean BY <3>3 DEF Fits
    <3>4. CASE editing'[d] = editing[d] /\ editing[d].v # x.v
      <4>1. editing[d] \in Editing BY <1>0, <2>2, <3>1, <3>4
      <4>2. editing[d].v \in Priced BY <4>1, EditsTyped
      <4>3. Fits(editing[d], goods, crossed) BY DEF PricingInv
      <4>4. Fits(editing[d], goods', crossed') BY <1>11, <1>18, <3>4, <4>1, <4>2, <4>3, FitsBeside
      <4> QED BY <3>4, <4>4
    <3> QED BY <3>2, <3>3, <3>4
  <2> QED BY <2>1, <2>2
<1>20. ASSUME NEW v \in Priced \ crossed' PROVE Accepts(goods'[v])
  <2>1. CASE v # x.v BY <1>11, <1>18, <2>1 DEF PricingInv
  <2>2. CASE v = x.v
    <3>1. CASE g.was = 0 BY <1>11, <2>2, <3>1 DEF Accepts
    <3>2. CASE g.was # 0
      <4>1. x.clean /\ x.v \notin crossed BY <1>8, <1>11, <1>20, <2>2, <3>2
      <4> QED BY <1>f, <1>10, <1>11, <2>2, <4>1 DEF x
    <3> QED BY <3>1, <3>2
  <2> QED BY <2>1, <2>2
<1> QED BY <1>16, <1>17, <1>19, <1>20 DEF PricingInv

LEMMA StartRepriceKeeps ==
    ASSUME PricingInv, NEW h \in Repricers, StartReprice(h)
    PROVE  PricingInv'
<1> DEFINE p == [at |-> "read", rule |-> rule]
<1>1. RepricerInOrder(p) BY DEF RepricerInOrder, PricingInv, PricesInOrder
<1>2. repricer' = [repricer EXCEPT ![h] = p] BY DEF StartReprice
<1> HIDE DEF p
<1>3. repricer' = [g \in Repricers |-> repricer'[g]] /\ \A g \in Repricers : RepricerInOrder(repricer'[g])
  BY <1>1, <1>2 DEF PricingInv, PricesInOrder
<1>4. UNCHANGED <<rule, goods, rivals, editing, basis, crossed>> /\ priceCalls' = priceCalls + 1
  BY DEF StartReprice, PriceCall
<1>5. PricesInOrder' BY <1>3, <1>4 DEF PricingInv, PricesInOrder
<1> QED BY <1>4, <1>5, PricesUntouched

LEMMA AnalyzeKeeps ==
    ASSUME PricingInv, NEW h \in Repricers, Analyze(h)
    PROVE  PricingInv'
<1> DEFINE r == repricer[h].rule
           new(v) == Recommend(r, goods[v], rivals[v])
           p == [at |-> "write", rule |-> r, goods |-> goods, rivals |-> rivals,
                 todo |-> {<<v, new(v)>> : v \in {x \in Priced : new(x) # goods[x].price}}]
<1>1. r \in PriceRules
  <2>1. RepricerInOrder(repricer[h]) BY DEF PricingInv, PricesInOrder
  <2>2. repricer[h] # NoReprice /\ repricer[h].at = "read" BY DEF Analyze
  <2> QED BY <2>1, <2>2 DEF RepricerInOrder, Writing
<1>2. p.at = "write" /\ p.rule = r /\ p.goods = goods /\ p.rivals = rivals
      /\ p.todo = {<<v, new(v)>> : v \in {x \in Priced : new(x) # goods[x].price}}
  OBVIOUS
<1>3. repricer' = [repricer EXCEPT ![h] = p] BY DEF Analyze
<1> HIDE DEF p
<1>4. \A c \in p.todo : c[2] = new(c[1]) BY <1>2
<1>5. RepricerInOrder(p)
  <2>1. \A v \in Priced : new(v) \in Nat BY <1>1, RecommendIs DEF PricingInv, PricesInOrder
  <2>2. p.todo \subseteq Priced \X Nat BY <1>2, <2>1
  <2>3. p \in Writing BY <1>1, <2>2 DEF Writing, p, PricingInv, PricesInOrder
  <2> QED BY <1>2, <1>4, <2>3 DEF RepricerInOrder
<1>6. repricer' = [g \in Repricers |-> repricer'[g]] /\ \A g \in Repricers : RepricerInOrder(repricer'[g])
  BY <1>3, <1>5 DEF PricingInv, PricesInOrder
<1>7. UNCHANGED <<rule, goods, rivals, editing, basis, crossed, priceCalls>>
  BY DEF Analyze
<1>8. PricesInOrder' BY <1>6, <1>7 DEF PricingInv, PricesInOrder
<1> QED BY <1>7, <1>8, PricesUntouched

LEMMA EndRepriceKeeps ==
    ASSUME PricingInv, NEW h \in Repricers, EndReprice(h)
    PROVE  PricingInv'
<1>1. repricer' = [g \in Repricers |-> repricer'[g]] /\ \A g \in Repricers : RepricerInOrder(repricer'[g])
  BY DEF PricingInv, PricesInOrder, EndReprice, RepricerInOrder
<1>2. UNCHANGED <<rule, goods, rivals, editing, basis, crossed, priceCalls>>
  BY DEF EndReprice
<1>3. PricesInOrder' BY <1>1, <1>2 DEF PricingInv, PricesInOrder
<1> QED BY <1>2, <1>3, PricesUntouched

LEMMA WritePriceKeeps ==
    ASSUME PricingInv, NEW h \in Repricers, WritePrice(h)
    PROVE  PricingInv'
<1> DEFINE p == repricer[h]
<1>0. goods \in [Priced -> Good] /\ editing \in [Editors -> {NoEdit} \cup Editing] /\ crossed \subseteq Priced
  BY DEF PricingInv, PricesInOrder
<1>1. PICK c \in p.todo :
         /\ goods' = [goods EXCEPT ![c[1]].price = c[2]]
         /\ basis' = [basis EXCEPT ![c[1]] = [on |-> "repricing", rule |-> p.rule,
                                             cost |-> p.goods[c[1]].cost, rivals |-> p.rivals[c[1]]]]
         /\ editing' = Outdated(c[1])
         /\ crossed' = IF goods[c[1]].was = 0 THEN crossed ELSE crossed \cup {c[1]}
         /\ repricer' = [repricer EXCEPT ![h].todo = @ \ {c}]
  BY DEF WritePrice
<1>2. /\ p \in Writing /\ p.rule \in PriceRules
      /\ p.goods \in [Priced -> Good] /\ p.rivals \in [Priced -> SUBSET Rival]
      /\ \A d \in p.todo : d[1] \in Priced /\ d[2] = Recommend(p.rule, p.goods[d[1]], p.rivals[d[1]])
  <2>1. RepricerInOrder(p) BY DEF PricingInv, PricesInOrder
  <2>2. p # NoReprice /\ p.at = "write" BY DEF WritePrice
  <2>3. p \in Writing /\ \A d \in p.todo : d[2] = Recommend(p.rule, p.goods[d[1]], p.rivals[d[1]])
    BY <2>1, <2>2 DEF RepricerInOrder
  <2>4. \A d \in p.todo : d[1] \in Priced BY <2>3 DEF Writing
  <2> QED BY <2>3, <2>4 DEF Writing
<1> DEFINE v == c[1]
           n == c[2]
           b == [on |-> "repricing", rule |-> p.rule, cost |-> p.goods[v].cost, rivals |-> p.rivals[v]]
           g == [goods[v] EXCEPT !.price = n]
           q == [p EXCEPT !.todo = @ \ {c}]
<1>3. v \in Priced /\ n = Recommend(p.rule, p.goods[v], p.rivals[v]) BY <1>2
<1>4. p.goods[v] \in Good /\ p.rivals[v] \in SUBSET Rival BY <1>2, <1>3
<1>5. n \in Nat BY <1>2, <1>3, <1>4, RecommendIs
<1>6. goods[v] \in Good BY <1>0, <1>3
<1>7. g \in Good /\ g.price = n /\ g.was = goods[v].was BY <1>5, <1>6, PriceWritten
<1>8. goods' = [goods EXCEPT ![v] = g] BY <1>0, <1>1, <1>3
<1>9. b \in Basis /\ b.rule = p.rule /\ b.cost = p.goods[v].cost /\ b.rivals = p.rivals[v]
  <2>1. p.goods[v].cost \in Nat BY <1>4 DEF Good
  <2> QED BY <1>2, <1>4, <2>1 DEF Basis
<1>10. basis' = [basis EXCEPT ![v] = b] BY <1>1
<1>11. repricer' = [repricer EXCEPT ![h] = q] BY <1>1 DEF PricingInv, PricesInOrder
<1>12. RepricerInOrder(q)
  <2>1. q \in Writing /\ q.rule = p.rule /\ q.goods = p.goods /\ q.rivals = p.rivals /\ q.todo \subseteq p.todo
    BY <1>2 DEF Writing
  <2> HIDE DEF q, p
  <2> QED BY <1>2, <2>1 DEF RepricerInOrder
<1>13. crossed' = IF goods[v].was = 0 THEN crossed ELSE crossed \cup {v} BY <1>1
<1>14. editing' = Outdated(v) BY <1>1
<1>15. UNCHANGED <<rule, rivals, priceCalls>> BY DEF WritePrice
<1> HIDE DEF v, n, b, g, q, p
<1>16. goods'[v] = g /\ \A w \in Priced \ {v} : goods'[w] = goods[w] BY <1>0, <1>3, <1>8
<1>17. PricesInOrder'
  <2>1. goods' \in [Priced -> Good] BY <1>0, <1>7, <1>8
  <2>2. editing' \in [Editors -> {NoEdit} \cup Editing] BY <1>3, <1>14, OutdatedIs
  <2>3. crossed' \subseteq Priced BY <1>0, <1>3, <1>13
  <2>4. basis' = [w \in Priced |-> basis'[w]] BY <1>10 DEF PricingInv, PricesInOrder
  <2>5. repricer' = [k \in Repricers |-> repricer'[k]] /\ \A k \in Repricers : RepricerInOrder(repricer'[k])
    BY <1>11, <1>12 DEF PricingInv, PricesInOrder
  <2> QED BY <1>15, <2>1, <2>2, <2>3, <2>4, <2>5 DEF PricingInv, PricesInOrder
<1>18. ASSUME NEW w \in Priced PROVE RestsOn(basis'[w], goods'[w])
  <2>1. CASE w = v
    <3>1. basis'[w] = b BY <1>10, <2>1 DEF PricingInv, PricesInOrder
    <3>2. goods'[w].price = Recommend(b.rule, p.goods[v], b.rivals) BY <1>3, <1>7, <1>9, <1>16, <2>1
    <3> QED BY <1>4, <1>9, <3>1, <3>2 DEF RestsOn
  <2>2. CASE w # v
    <3>1. basis'[w] = basis[w] /\ goods'[w] = goods[w] BY <1>10, <1>16, <2>2 DEF PricingInv, PricesInOrder
    <3> QED BY <3>1 DEF PricingInv
  <2> QED BY <2>1, <2>2
<1>19. ASSUME NEW d \in Editors PROVE Fits(editing'[d], goods', crossed')
  <2>1. \/ editing'[d] = NoEdit
        \/ editing'[d] \in Editing /\ ~editing'[d].clean
        \/ editing'[d] = editing[d] /\ editing[d].v # v
    BY <1>3, <1>14, OutdatedIs
  <2>2. CASE editing'[d] = NoEdit \/ ~editing'[d].clean BY <2>2 DEF Fits
  <2>3. CASE editing'[d] # NoEdit /\ editing'[d] = editing[d] /\ editing[d].v # v
    <3>1. editing[d] \in Editing BY <1>0, <2>3
    <3>2. editing[d].v \in Priced BY <3>1, EditsTyped
    <3>3. Fits(editing[d], goods, crossed) BY DEF PricingInv
    <3>4. Fits(editing[d], goods', crossed') BY <1>13, <1>16, <2>3, <3>1, <3>2, <3>3, FitsBeside
    <3> QED BY <2>3, <3>4
  <2> QED BY <2>1, <2>2, <2>3
<1>20. ASSUME NEW w \in Priced \ crossed' PROVE Accepts(goods'[w])
  <2>1. CASE w # v BY <1>13, <1>16, <2>1 DEF PricingInv
  <2>2. CASE w = v BY <1>7, <1>13, <1>16, <1>20, <2>2 DEF Accepts
  <2> QED BY <2>1, <2>2
<1> QED BY <1>17, <1>18, <1>19, <1>20 DEF PricingInv

LEMMA PricesStep == PricingInv /\ [PricingNext]_pricingVars => PricingInv'
<1> SUFFICES ASSUME PricingInv, [PricingNext]_pricingVars PROVE PricingInv'
    OBVIOUS
<1>1. ASSUME NEW r \in PriceRules, SetRule(r) PROVE PricingInv'
  <2>1. PricesInOrder' BY <1>1 DEF SetRule, PriceCall, PricingInv, PricesInOrder
  <2> QED BY <1>1, <2>1, PricesUntouched DEF SetRule
<1>2. CASE UNCHANGED pricingVars
  <2>1. PricesInOrder' BY <1>2 DEF pricingVars, PricingInv, PricesInOrder
  <2> QED BY <1>2, <2>1, PricesUntouched DEF pricingVars
<1> QED BY <1>1, <1>2, SetCostKeeps, AddCompetitorKeeps, RemoveCompetitorKeeps, RefreshKeeps, EditKeeps,
       SaveEditKeeps, StartRepriceKeeps, AnalyzeKeeps, WritePriceKeeps, EndRepriceKeeps
    DEF PricingNext

LEMMA PricesHold == PricingInv => PricesKeepTheirRules /\ PricingTypeOK
<1> SUFFICES ASSUME PricingInv PROVE PricesKeepTheirRules /\ PricingTypeOK
    OBVIOUS
<1>0. rule \in PriceRules /\ goods \in [Priced -> Good] /\ rivals \in [Priced -> SUBSET Rival]
  BY DEF PricingInv, PricesInOrder
<1>1. ASSUME NEW v \in Priced, basis[v] # NoBasis, basis[v].cost = goods[v].cost, basis[v].rule = rule
      PROVE  /\ goods[v].price >= MarginFloor(goods[v].cost, rule.minMargin)
                                   - (IF rule.roundTo99 THEN 50 ELSE 0)
             /\ basis[v].rivals = rivals[v] => Recommend(rule, goods[v], rivals[v]) = goods[v].price
  <2>1. RestsOn(basis[v], goods[v]) BY DEF PricingInv
  <2>2. basis[v] \in Basis BY <1>1, <2>1 DEF RestsOn
  <2>3. PICK x \in Good : x.cost = basis[v].cost /\ goods[v].price = Recommend(basis[v].rule, x, basis[v].rivals)
    BY <1>1, <2>1 DEF RestsOn
  <2>4. basis[v].rivals \in SUBSET Rival BY <2>2 DEF Basis
  <2>5. Recommend(rule, x, basis[v].rivals)
           >= MarginFloor(x.cost, rule.minMargin) - (IF rule.roundTo99 THEN 50 ELSE 0)
    BY <1>0, <2>4, RecommendIs
  <2>6. goods[v] \in Good BY <1>0
  <2>7. goods[v].price = Recommend(rule, x, basis[v].rivals) /\ goods[v].cost = x.cost BY <1>1, <2>3
  <2>8. Recommend(rule, goods[v], basis[v].rivals) = goods[v].price
    BY <1>0, <2>4, <2>6, <2>7, RecommendIs
  <2> QED BY <2>5, <2>7, <2>8
<1>2. MarginFloorHonored BY <1>1 DEF MarginFloorHonored
<1>3. RepricingSettles BY <1>1 DEF RepricingSettles
<1>4. WasPriceAbovePrice BY DEF PricingInv, WasPriceAbovePrice, Accepts
<1>5. PricingTypeOK
  <2>1. \A h \in Repricers : repricer[h] = NoReprice \/ repricer[h].at \in {"read", "write"}
    BY DEF PricingInv, PricesInOrder, RepricerInOrder, Writing
  <2>2. \A v \in Priced : basis[v] = NoBasis \/ basis[v] \in Basis BY DEF PricingInv, RestsOn
  <2> QED BY <2>1, <2>2 DEF PricingTypeOK, PricingInv, PricesInOrder
<1> QED BY <1>2, <1>3, <1>4, <1>5 DEF PricesKeepTheirRules

(* Rules, goods and the repricing under way keep their shape, at any price. *)
THEOREM PricingType == PricingSpec => []PricingTypeOK
<1> QED BY PricesStart, PricesStep, PricesHold, PTL DEF PricingSpec

(* A repriced variant leaves the margin it was asked for, repricing it again on what its
   price rests on changes nothing, and an edited one sells below its "was" price, at any
   costs, prices and rivals (PricingService.recommend, reprice). *)
THEOREM PricesKept == PricingSpec => []PricesKeepTheirRules
<1> QED BY PricesStart, PricesStep, PricesHold, PTL DEF PricingSpec
----------------------------------------------------------------------------
(* Experiments. *)

PromotesIn(p) == p.at \in {"page", "theme", "end"}
WillRun(p) == p.at = "status" /\ p.to = "RUNNING"

(* As long as nobody else wrote anything, a promotion goes by what the variant is, and
   what it has written is there. *)
PromotionHolds(p, as, page, theme) ==
    /\ p.arm \in DOMAIN as /\ p.content = as[p.arm].content /\ p.themed = as[p.arm].themed
    /\ p.at \in {"theme", "end"} => page = p.content
    /\ p.at = "theme" => p.themed
    /\ p.at = "end" /\ p.themed => theme = p.content

Live(w, as, page, theme) ==
    /\ w \in DOMAIN as /\ page = as[w].content
    /\ as[w].themed => theme = as[w].content

(* While nothing is edited one promotion is under way, or the winner is live. *)
AloneOrLive(ps, w, as, page, theme) ==
    /\ \A g, h \in Promoters : PromotesIn(ps[g]) /\ PromotesIn(ps[h]) => g = h
    /\ \A h \in Promoters : PromotesIn(ps[h]) => PromotionHolds(ps[h], as, page, theme)
    /\ (\A h \in Promoters : ~PromotesIn(ps[h])) /\ w # 0 => Live(w, as, page, theme)

(* Whoever counted two variants was right, unless one was removed since. *)
TwoCounted(st, ps, as) ==
    (st = "RUNNING" \/ \E h \in Promoters : WillRun(ps[h])) => Cardinality(DOMAIN as) >= 2

FairInv ==
    /\ ExperimentTypeOK /\ arms = [a \in DOMAIN arms |-> arms[a]] /\ IsFiniteSet(DOMAIN arms)
    /\ ~shrunk => TwoCounted(status, promoter, arms)
    /\ ~edited => AloneOrLive(promoter, winner, arms, livePage, liveTheme)

LEMMA PromoterIs ==
    ASSUME NEW p, p \in {NoPromotion} \cup Promotion
    PROVE  /\ PromotesIn(p) => p \in [at : {"page", "theme", "end"}, arm : Arms, content : Contents, themed : BOOLEAN]
           /\ p.at = "status" => p \in [at : {"status"}, to : Statuses]
           /\ p.at = "free" <=> p = NoPromotion
           /\ p = NoPromotion => ~PromotesIn(p) /\ ~WillRun(p)
  BY DEF Promotion, NoPromotion, PromotesIn, WillRun

LEMMA PromotingIs == Promoting <=> \E h \in Promoters : PromotesIn(promoter[h])
  BY DEF Promoting, PromotesIn

LEMMA FairStarts == ExperimentInit => FairInv
<1> SUFFICES ASSUME ExperimentInit PROVE FairInv
    OBVIOUS
<1>1. PICK w \in Weights : arms = [a \in {ControlArm} |-> [weight |-> w, content |-> livePage, themed |-> FALSE]]
  BY DEF ExperimentInit
<1>2. DOMAIN arms = {ControlArm} BY <1>1
<1>3. [weight |-> w, content |-> livePage, themed |-> FALSE] \in Arm BY DEF Arm, ExperimentInit
<1>4. \A a \in DOMAIN arms : arms[a] \in Arm BY <1>1, <1>2, <1>3
<1>5. ExperimentTypeOK BY <1>2, <1>4, ExperimentAssumption DEF ExperimentInit, ExperimentTypeOK, Statuses
<1>6. IsFiniteSet(DOMAIN arms) BY <1>2, FS_Singleton
<1>7. \A h \in Promoters : promoter[h] = NoPromotion /\ ~PromotesIn(promoter[h]) /\ ~WillRun(promoter[h])
  BY DEF ExperimentInit, NoPromotion, PromotesIn, WillRun
<1>8. TwoCounted(status, promoter, arms) BY <1>7 DEF ExperimentInit, TwoCounted
<1>9. AloneOrLive(promoter, winner, arms, livePage, liveTheme) BY <1>7 DEF ExperimentInit, AloneOrLive
<1> QED BY <1>1, <1>2, <1>5, <1>6, <1>8, <1>9 DEF FairInv

LEMMA PutVariantKeeps ==
    ASSUME FairInv, NEW a \in Arms, NEW arm \in Arm, PutVariant(a, arm)
    PROVE  FairInv'
<1>0. ExperimentTypeOK /\ IsFiniteSet(DOMAIN arms) BY DEF FairInv
<1>1. arms' = [b \in DOMAIN arms \cup {a} |-> IF b = a THEN arm ELSE arms[b]] BY DEF PutVariant
<1>2. DOMAIN arms' = DOMAIN arms \cup {a} BY <1>1
<1>3. \A b \in DOMAIN arms' : arms'[b] = IF b = a THEN arm ELSE arms[b] BY <1>1
<1>4. UNCHANGED <<status, winner, livePage, liveTheme, promoter, shrunk>> /\ trials' = trials + 1
      /\ edited' = (edited \/ Promoting \/ a = winner)
  BY DEF PutVariant, Trial
<1>5. ExperimentTypeOK'
  <2>1. \A b \in DOMAIN arms' : arms'[b] \in Arm BY <1>0, <1>2, <1>3 DEF ExperimentTypeOK
  <2>2. ControlArm \in DOMAIN arms' /\ DOMAIN arms' \subseteq Arms BY <1>0, <1>2 DEF ExperimentTypeOK
  <2>3. edited' \in BOOLEAN BY <1>4, <1>0 DEF ExperimentTypeOK
  <2> QED BY <1>0, <1>4, <2>1, <2>2, <2>3 DEF ExperimentTypeOK
<1>6. IsFiniteSet(DOMAIN arms') /\ Cardinality(DOMAIN arms) <= Cardinality(DOMAIN arms')
  <2>1. IsFiniteSet(DOMAIN arms') BY <1>0, <1>2, FS_AddElement
  <2> QED BY <1>2, <2>1, FS_Subset
<1>7. Cardinality(DOMAIN arms) \in Nat /\ Cardinality(DOMAIN arms') \in Nat BY <1>0, <1>6, FS_CardinalityType
<1>8. ~shrunk' => TwoCounted(status', promoter', arms')
  <2>1. Cardinality(DOMAIN arms) >= 2 => Cardinality(DOMAIN arms') >= 2 BY <1>6, <1>7
  <2> QED BY <1>4, <2>1 DEF FairInv, TwoCounted
<1>9. ASSUME ~edited' PROVE AloneOrLive(promoter', winner', arms', livePage', liveTheme')
  <2>1. ~edited /\ ~Promoting /\ a # winner BY <1>4, <1>9
  <2>2. \A h \in Promoters : ~PromotesIn(promoter[h]) BY <2>1, PromotingIs
  <2>3. winner # 0 => Live(winner, arms, livePage, liveTheme) BY <2>1, <2>2 DEF FairInv, AloneOrLive
  <2>4. winner # 0 => Live(winner, arms', livePage, liveTheme) BY <1>2, <1>3, <2>1, <2>3 DEF Live
  <2> QED BY <1>4, <2>2, <2>4 DEF AloneOrLive
<1>10. arms' = [b \in DOMAIN arms' |-> arms'[b]] BY <1>1
<1> QED BY <1>5, <1>6, <1>8, <1>9, <1>10 DEF FairInv

LEMMA RemoveVariantKeeps ==
    ASSUME FairInv, NEW a \in Arms, RemoveVariant(a)
    PROVE  FairInv'
<1>0. ExperimentTypeOK /\ IsFiniteSet(DOMAIN arms) BY DEF FairInv
<1>1. arms' = [b \in DOMAIN arms \ {a} |-> arms[b]] /\ a # ControlArm BY DEF RemoveVariant
<1>2. DOMAIN arms' = DOMAIN arms \ {a} BY <1>1
<1>3. \A b \in DOMAIN arms' : arms'[b] = arms[b] BY <1>1
<1>4. UNCHANGED <<status, winner, livePage, liveTheme, promoter>> /\ trials' = trials + 1 /\ shrunk' = TRUE
      /\ edited' = (edited \/ Promoting \/ a = winner)
  BY DEF RemoveVariant, Trial
<1>5. ExperimentTypeOK'
  <2>1. \A b \in DOMAIN arms' : arms'[b] \in Arm BY <1>0, <1>2, <1>3 DEF ExperimentTypeOK
  <2>2. ControlArm \in DOMAIN arms' /\ DOMAIN arms' \subseteq Arms BY <1>0, <1>1, <1>2 DEF ExperimentTypeOK
  <2>3. edited' \in BOOLEAN BY <1>4, <1>0 DEF ExperimentTypeOK
  <2> QED BY <1>0, <1>4, <2>1, <2>2, <2>3 DEF ExperimentTypeOK
<1>6. IsFiniteSet(DOMAIN arms') BY <1>0, <1>2, FS_RemoveElement
<1>9. ASSUME ~edited' PROVE AloneOrLive(promoter', winner', arms', livePage', liveTheme')
  <2>1. ~edited /\ ~Promoting /\ a # winner BY <1>4, <1>9
  <2>2. \A h \in Promoters : ~PromotesIn(promoter[h]) BY <2>1, PromotingIs
  <2>3. winner # 0 => Live(winner, arms, livePage, liveTheme) BY <2>1, <2>2 DEF FairInv, AloneOrLive
  <2>4. winner # 0 => Live(winner, arms', livePage, liveTheme) BY <1>2, <1>3, <2>1, <2>3 DEF Live
  <2> QED BY <1>4, <2>2, <2>4 DEF AloneOrLive
<1>10. arms' = [b \in DOMAIN arms' |-> arms'[b]] BY <1>1
<1> QED BY <1>4, <1>5, <1>6, <1>9, <1>10 DEF FairInv

LEMMA EditsKeep ==
    ASSUME FairInv, NEW c \in Contents, EditPage(c) \/ EditTheme(c)
    PROVE  FairInv'
<1>0. ExperimentTypeOK BY DEF FairInv
<1>1. UNCHANGED <<status, winner, promoter, shrunk, arms>> /\ trials' = trials + 1 /\ edited' = TRUE
  BY DEF EditPage, EditTheme, Trial
<1>2. livePage' \in Contents /\ liveTheme' \in Contents
  BY <1>0 DEF EditPage, EditTheme, ExperimentTypeOK
<1>3. ExperimentTypeOK' BY <1>0, <1>1, <1>2 DEF ExperimentTypeOK
<1> QED BY <1>1, <1>3 DEF FairInv

(* A step of one handler. *)
LEMMA PromoterTyped ==
    ASSUME FairInv, NEW h \in Promoters, NEW q \in {NoPromotion} \cup Promotion, promoter' = [promoter EXCEPT ![h] = q]
    PROVE  /\ promoter' \in [Promoters -> {NoPromotion} \cup Promotion]
           /\ promoter'[h] = q /\ \A g \in Promoters \ {h} : promoter'[g] = promoter[g]
  BY DEF FairInv, ExperimentTypeOK

LEMMA AskStatusKeeps ==
    ASSUME FairInv, NEW h \in Promoters, NEW s \in Statuses, AskStatus(h, s)
    PROVE  FairInv'
<1>0. ExperimentTypeOK /\ IsFiniteSet(DOMAIN arms) BY DEF FairInv
<1> DEFINE q == [at |-> "status", to |-> s]
<1>1. q \in Promotion /\ ~PromotesIn(q) /\ (WillRun(q) <=> s = "RUNNING") BY DEF Promotion, PromotesIn, WillRun
<1>2. promoter' = [promoter EXCEPT ![h] = q] BY DEF AskStatus
<1> HIDE DEF q
<1>3. /\ promoter' \in [Promoters -> {NoPromotion} \cup Promotion]
      /\ promoter'[h] = q /\ \A g \in Promoters \ {h} : promoter'[g] = promoter[g]
  BY <1>1, <1>2, PromoterTyped
<1>4. UNCHANGED <<status, arms, winner, livePage, liveTheme, edited>> /\ trials' = trials + 1
      /\ shrunk' = (shrunk /\ s # "RUNNING") /\ promoter[h] = NoPromotion
      /\ (s = "RUNNING" => Cardinality(DOMAIN arms) >= 2)
  BY DEF AskStatus, Trial, MayStart
<1>5. ~PromotesIn(promoter[h]) BY <1>4 DEF NoPromotion, PromotesIn
<1>6. \A g \in Promoters : (PromotesIn(promoter'[g]) => promoter'[g] = promoter[g] /\ PromotesIn(promoter[g]))
                        /\ (PromotesIn(promoter[g]) => PromotesIn(promoter'[g]))
  BY <1>1, <1>3, <1>5
<1>7. ExperimentTypeOK'
  <2>1. shrunk' \in BOOLEAN BY <1>4, <1>0 DEF ExperimentTypeOK
  <2> QED BY <1>0, <1>3, <1>4, <2>1 DEF ExperimentTypeOK
<1>8. ~shrunk' => TwoCounted(status', promoter', arms')
  <2>1. CASE s = "RUNNING" BY <1>4, <2>1 DEF TwoCounted
  <2>2. CASE s # "RUNNING"
    <3>1. \A g \in Promoters : WillRun(promoter'[g]) => WillRun(promoter[g]) BY <1>1, <1>3, <2>2
    <3> QED BY <1>4, <2>2, <3>1 DEF FairInv, TwoCounted
  <2> QED BY <2>1, <2>2
<1>9. ~edited' => AloneOrLive(promoter', winner', arms', livePage', liveTheme')
  BY <1>4, <1>6 DEF FairInv, AloneOrLive
<1> QED BY <1>4, <1>7, <1>8, <1>9 DEF FairInv

LEMMA WriteStatusKeeps ==
    ASSUME FairInv, NEW h \in Promoters, WriteStatus(h)
    PROVE  FairInv'
<1>0. ExperimentTypeOK /\ IsFiniteSet(DOMAIN arms) BY DEF FairInv
<1>1. promoter' = [promoter EXCEPT ![h] = NoPromotion] /\ promoter[h].at = "status" /\ status' = promoter[h].to
  BY DEF WriteStatus
<1>2. /\ promoter' \in [Promoters -> {NoPromotion} \cup Promotion]
      /\ promoter'[h] = NoPromotion /\ \A g \in Promoters \ {h} : promoter'[g] = promoter[g]
  BY <1>1, PromoterTyped
<1>3. UNCHANGED <<arms, winner, livePage, liveTheme, shrunk, trials>> /\ edited' = (edited \/ Promoting)
  BY DEF WriteStatus
<1>4. promoter[h] \in [at : {"status"}, to : Statuses]
  <2>1. promoter[h] \in {NoPromotion} \cup Promotion BY <1>0 DEF ExperimentTypeOK
  <2> QED BY <1>1, <2>1, PromoterIs
<1>5. ~PromotesIn(promoter[h]) /\ ~PromotesIn(NoPromotion) /\ ~WillRun(NoPromotion)
  BY <1>1 DEF NoPromotion, PromotesIn, WillRun
<1>6. ExperimentTypeOK'
  <2>1. status' \in Statuses BY <1>1, <1>4
  <2>2. edited' \in BOOLEAN BY <1>3, <1>0 DEF ExperimentTypeOK
  <2> QED BY <1>0, <1>2, <1>3, <2>1, <2>2 DEF ExperimentTypeOK
<1>7. ~shrunk' => TwoCounted(status', promoter', arms')
  <2>1. status' = "RUNNING" => WillRun(promoter[h]) BY <1>1 DEF WillRun
  <2>2. \A g \in Promoters : WillRun(promoter'[g]) => WillRun(promoter[g]) BY <1>2, <1>5
  <2> QED BY <1>3, <2>1, <2>2 DEF FairInv, TwoCounted
<1>8. ASSUME ~edited' PROVE AloneOrLive(promoter', winner', arms', livePage', liveTheme')
  <2>1. ~edited /\ \A g \in Promoters : ~PromotesIn(promoter[g]) BY <1>3, <1>8, PromotingIs
  <2>2. \A g \in Promoters : ~PromotesIn(promoter'[g]) BY <1>2, <1>5, <2>1
  <2> QED BY <1>3, <2>1, <2>2 DEF FairInv, AloneOrLive
<1> QED BY <1>3, <1>6, <1>7, <1>8 DEF FairInv

LEMMA PromoteKeeps ==
    ASSUME FairInv, NEW h \in Promoters, NEW a \in Arms, Promote(h, a)
    PROVE  FairInv'
<1>0. ExperimentTypeOK /\ IsFiniteSet(DOMAIN arms) BY DEF FairInv
<1> DEFINE q == [at |-> "page", arm |-> a, content |-> arms[a].content, themed |-> arms[a].themed]
<1>1. arms[a] \in Arm /\ a \in DOMAIN arms BY <1>0 DEF Promote, ExperimentTypeOK
<1>2. q \in Promotion BY <1>1 DEF Promotion, Arm
<1>3. q.at = "page" /\ q.arm = a /\ q.content = arms[a].content /\ q.themed = arms[a].themed OBVIOUS
<1>4. promoter' = [promoter EXCEPT ![h] = q] BY DEF Promote
<1> HIDE DEF q
<1>5. /\ promoter' \in [Promoters -> {NoPromotion} \cup Promotion]
      /\ promoter'[h] = q /\ \A g \in Promoters \ {h} : promoter'[g] = promoter[g]
  BY <1>2, <1>4, PromoterTyped
<1>6. UNCHANGED <<status, arms, winner, livePage, liveTheme, shrunk>> /\ trials' = trials + 1 /\ edited' = Promoting
  BY DEF Promote, Trial
<1>7. ExperimentTypeOK'
  <2>1. edited' \in BOOLEAN BY <1>6 DEF Promoting
  <2> QED BY <1>0, <1>5, <1>6, <2>1 DEF ExperimentTypeOK
<1>8. ~shrunk' => TwoCounted(status', promoter', arms')
  <2>1. \A g \in Promoters : WillRun(promoter'[g]) => WillRun(promoter[g]) BY <1>3, <1>5 DEF WillRun
  <2> QED BY <1>6, <2>1 DEF FairInv, TwoCounted
<1>9. ASSUME ~edited' PROVE AloneOrLive(promoter', winner', arms', livePage', liveTheme')
  <2>1. \A g \in Promoters : ~PromotesIn(promoter[g]) BY <1>6, <1>9, PromotingIs
  <2>2. \A g \in Promoters : PromotesIn(promoter'[g]) <=> g = h BY <1>3, <1>5, <2>1 DEF PromotesIn
  <2>3. PromotionHolds(q, arms, livePage, liveTheme) BY <1>1, <1>3 DEF PromotionHolds
  <2> QED BY <1>5, <1>6, <2>2, <2>3 DEF AloneOrLive
<1> QED BY <1>6, <1>7, <1>8, <1>9 DEF FairInv

(* A step of a promotion: it goes on as it is, or is over. *)
LEMMA PromotionGoesOn ==
    ASSUME FairInv, NEW h \in Promoters, PromotesIn(promoter[h]),
           NEW q \in {NoPromotion} \cup Promotion, promoter' = [promoter EXCEPT ![h] = q], ~WillRun(q),
           UNCHANGED <<arms, shrunk>>, edited' \in BOOLEAN, status' \in {status, "ENDED"}, winner' \in Arms \cup {0},
           livePage' \in Contents, liveTheme' \in Contents, trials' \in Nat,
           ~edited' => ~edited /\
              IF q = NoPromotion
              THEN winner' # 0 => Live(winner', arms, livePage', liveTheme')
              ELSE PromotesIn(q) /\ PromotionHolds(q, arms, livePage', liveTheme')
    PROVE  FairInv'
<1>0. ExperimentTypeOK /\ IsFiniteSet(DOMAIN arms) BY DEF FairInv
<1>1. /\ promoter' \in [Promoters -> {NoPromotion} \cup Promotion]
      /\ promoter'[h] = q /\ \A g \in Promoters \ {h} : promoter'[g] = promoter[g]
  BY PromoterTyped
<1>2. ExperimentTypeOK'
  <2>1. status' \in Statuses BY <1>0 DEF ExperimentTypeOK, Statuses
  <2> QED BY <1>0, <1>1, <2>1 DEF ExperimentTypeOK
<1>3. ~shrunk' => TwoCounted(status', promoter', arms')
  <2>1. \A g \in Promoters : WillRun(promoter'[g]) => WillRun(promoter[g]) BY <1>1
  <2>2. status' = "RUNNING" => status = "RUNNING" OBVIOUS
  <2> QED BY <2>1, <2>2 DEF FairInv, TwoCounted
<1>4. ASSUME ~edited' PROVE AloneOrLive(promoter', winner', arms', livePage', liveTheme')
  <2>1. \A g \in Promoters \ {h} : ~PromotesIn(promoter'[g]) BY <1>1, <1>4 DEF FairInv, AloneOrLive
  <2>2. CASE q = NoPromotion
    <3>1. ~PromotesIn(q) BY <2>2 DEF NoPromotion, PromotesIn
    <3>2. \A g \in Promoters : ~PromotesIn(promoter'[g]) BY <1>1, <2>1, <3>1
    <3> QED BY <1>4, <2>2, <3>2 DEF AloneOrLive
  <2>3. CASE q # NoPromotion
    <3>1. PromotesIn(q) /\ PromotionHolds(q, arms, livePage', liveTheme') BY <1>4, <2>3
    <3> QED BY <1>1, <2>1, <3>1 DEF AloneOrLive
  <2> QED BY <2>2, <2>3
<1> QED BY <1>0, <1>2, <1>3, <1>4 DEF FairInv

LEMMA PromotionAt ==
    ASSUME FairInv, NEW h \in Promoters, PromotesIn(promoter[h])
    PROVE  /\ promoter[h] \in [at : {"page", "theme", "end"}, arm : Arms, content : Contents, themed : BOOLEAN]
           /\ ~edited => PromotionHolds(promoter[h], arms, livePage, liveTheme)
<1>1. promoter[h] \in {NoPromotion} \cup Promotion BY DEF FairInv, ExperimentTypeOK
<1>2. promoter[h] \in [at : {"page", "theme", "end"}, arm : Arms, content : Contents, themed : BOOLEAN]
  BY <1>1, PromoterIs
<1> QED BY <1>2 DEF FairInv, AloneOrLive

LEMMA MovedOn ==
    ASSUME NEW p \in [at : {"page", "theme", "end"}, arm : Arms, content : Contents, themed : BOOLEAN],
           NEW to \in {"theme", "end"}
    PROVE  /\ [p EXCEPT !.at = to] \in Promotion /\ PromotesIn([p EXCEPT !.at = to]) /\ ~WillRun([p EXCEPT !.at = to])
           /\ [p EXCEPT !.at = to] # NoPromotion
           /\ [p EXCEPT !.at = to].at = to /\ [p EXCEPT !.at = to].arm = p.arm
           /\ [p EXCEPT !.at = to].content = p.content /\ [p EXCEPT !.at = to].themed = p.themed
<1>1. /\ [p EXCEPT !.at = to].at = to /\ [p EXCEPT !.at = to].arm = p.arm
      /\ [p EXCEPT !.at = to].content = p.content /\ [p EXCEPT !.at = to].themed = p.themed
  OBVIOUS
<1>2. [p EXCEPT !.at = to] \in Promotion BY DEF Promotion
<1>3. [p EXCEPT !.at = to] # NoPromotion BY <1>1 DEF NoPromotion
<1> QED BY <1>1, <1>2, <1>3 DEF PromotesIn, WillRun

LEMMA WritePageKeeps ==
    ASSUME FairInv, NEW h \in Promoters, WritePage(h)
    PROVE  FairInv'
<1> DEFINE p == promoter[h]
           q == [p EXCEPT !.at = NextStep(p)]
<1>0. ExperimentTypeOK BY DEF FairInv
<1>1. PromotesIn(p) BY DEF WritePage, PromotesIn
<1>2. p \in [at : {"page", "theme", "end"}, arm : Arms, content : Contents, themed : BOOLEAN]
      /\ (~edited => PromotionHolds(p, arms, livePage, liveTheme))
  BY <1>1, PromotionAt
<1>3. NextStep(p) \in {"theme", "end"} /\ (NextStep(p) = "theme" <=> p.themed) BY <1>2 DEF NextStep
<1>4. promoter' = [promoter EXCEPT ![h] = q] BY <1>0 DEF WritePage, ExperimentTypeOK
<1>5. livePage' = p.content /\ UNCHANGED <<status, arms, winner, liveTheme, edited, shrunk, trials>> BY DEF WritePage
<1>6. /\ q \in Promotion /\ PromotesIn(q) /\ ~WillRun(q) /\ q # NoPromotion
      /\ q.at = NextStep(p) /\ q.arm = p.arm /\ q.content = p.content /\ q.themed = p.themed
  BY <1>2, <1>3, MovedOn
<1> HIDE DEF q, p
<1>7. ~edited => PromotionHolds(q, arms, livePage', liveTheme')
  BY <1>2, <1>3, <1>5, <1>6 DEF PromotionHolds
<1>8. p.content \in Contents /\ status' \in {status, "ENDED"} /\ winner' \in Arms \cup {0}
      /\ liveTheme' \in Contents /\ edited' \in BOOLEAN /\ trials' \in Nat
  BY <1>0, <1>2, <1>5 DEF ExperimentTypeOK
<1>9. PromotesIn(promoter[h]) BY <1>1 DEF p
<1>10. livePage' \in Contents /\ UNCHANGED <<arms, shrunk>> BY <1>5, <1>8
<1>11. ~edited' => ~edited /\ IF q = NoPromotion
                              THEN winner' # 0 => Live(winner', arms, livePage', liveTheme')
                              ELSE PromotesIn(q) /\ PromotionHolds(q, arms, livePage', liveTheme')
  BY <1>5, <1>6, <1>7
<1> QED BY <1>4, <1>6, <1>8, <1>9, <1>10, <1>11, PromotionGoesOn

LEMMA WriteThemeKeeps ==
    ASSUME FairInv, NEW h \in Promoters, WriteTheme(h)
    PROVE  FairInv'
<1> DEFINE p == promoter[h]
           q == [p EXCEPT !.at = "end"]
<1>0. ExperimentTypeOK BY DEF FairInv
<1>1. PromotesIn(p) /\ p.at = "theme" BY DEF WriteTheme, PromotesIn
<1>2. p \in [at : {"page", "theme", "end"}, arm : Arms, content : Contents, themed : BOOLEAN]
      /\ (~edited => PromotionHolds(p, arms, livePage, liveTheme))
  BY <1>1, PromotionAt
<1>4. promoter' = [promoter EXCEPT ![h] = q] BY <1>0 DEF WriteTheme, ExperimentTypeOK
<1>5. liveTheme' = p.content /\ UNCHANGED <<status, arms, winner, livePage, edited, shrunk, trials>> BY DEF WriteTheme
<1>6. /\ q \in Promotion /\ PromotesIn(q) /\ ~WillRun(q) /\ q # NoPromotion
      /\ q.at = "end" /\ q.arm = p.arm /\ q.content = p.content /\ q.themed = p.themed
  BY <1>2, MovedOn
<1>9. PromotesIn(promoter[h]) BY <1>1
<1> HIDE DEF q, p
<1>7. ~edited => PromotionHolds(q, arms, livePage', liveTheme')
  BY <1>1, <1>2, <1>5, <1>6 DEF PromotionHolds
<1>8. p.content \in Contents /\ status' \in {status, "ENDED"} /\ winner' \in Arms \cup {0}
      /\ livePage' \in Contents /\ edited' \in BOOLEAN /\ trials' \in Nat
  BY <1>0, <1>2, <1>5 DEF ExperimentTypeOK
<1>10. liveTheme' \in Contents /\ UNCHANGED <<arms, shrunk>> BY <1>5, <1>8
<1>11. ~edited' => ~edited /\ IF q = NoPromotion
                              THEN winner' # 0 => Live(winner', arms, livePage', liveTheme')
                              ELSE PromotesIn(q) /\ PromotionHolds(q, arms, livePage', liveTheme')
  BY <1>5, <1>6, <1>7
<1> QED BY <1>4, <1>6, <1>8, <1>9, <1>10, <1>11, PromotionGoesOn

LEMMA EndExperimentKeeps ==
    ASSUME FairInv, NEW h \in Promoters, EndExperiment(h)
    PROVE  FairInv'
<1> DEFINE p == promoter[h]
<1>0. ExperimentTypeOK BY DEF FairInv
<1>1. PromotesIn(p) /\ p.at = "end" BY DEF EndExperiment, PromotesIn
<1>2. p \in [at : {"page", "theme", "end"}, arm : Arms, content : Contents, themed : BOOLEAN]
      /\ (~edited => PromotionHolds(p, arms, livePage, liveTheme))
  BY <1>1, PromotionAt
<1>4. promoter' = [promoter EXCEPT ![h] = NoPromotion] BY DEF EndExperiment
<1>5. status' = "ENDED" /\ winner' = p.arm /\ UNCHANGED <<arms, livePage, liveTheme, edited, shrunk, trials>>
  BY DEF EndExperiment
<1>6. ~WillRun(NoPromotion) BY DEF WillRun, NoPromotion
<1>9. PromotesIn(promoter[h]) BY <1>1
<1> HIDE DEF p
<1>7. ~edited => Live(winner', arms, livePage', liveTheme')
  BY <1>1, <1>2, <1>5 DEF PromotionHolds, Live
<1>8. status' \in {status, "ENDED"} /\ winner' \in Arms \cup {0} /\ liveTheme' \in Contents
      /\ livePage' \in Contents /\ edited' \in BOOLEAN /\ trials' \in Nat
  BY <1>0, <1>2, <1>5 DEF ExperimentTypeOK
<1>10. UNCHANGED <<arms, shrunk>> BY <1>5
<1>11. ~edited' => ~edited /\ IF NoPromotion = NoPromotion
                              THEN winner' # 0 => Live(winner', arms, livePage', liveTheme')
                              ELSE PromotesIn(NoPromotion) /\ PromotionHolds(NoPromotion, arms, livePage', liveTheme')
  BY <1>5, <1>7
<1> QED BY <1>4, <1>6, <1>8, <1>9, <1>10, <1>11, PromotionGoesOn

LEMMA PromotionFailsKeeps ==
    ASSUME FairInv, NEW h \in Promoters, PromotionFails(h)
    PROVE  FairInv'
<1>0. ExperimentTypeOK BY DEF FairInv
<1>1. PromotesIn(promoter[h]) BY DEF PromotionFails, PromotesIn
<1>2. promoter' = [promoter EXCEPT ![h] = NoPromotion] BY DEF PromotionFails
<1>3. UNCHANGED <<status, arms, winner, livePage, liveTheme, shrunk>> /\ edited' = TRUE /\ trials' = trials + 1
  BY DEF PromotionFails, Trial
<1>4. ~WillRun(NoPromotion) BY DEF WillRun, NoPromotion
<1>5. status' \in {status, "ENDED"} /\ winner' \in Arms \cup {0} /\ liveTheme' \in Contents
      /\ livePage' \in Contents /\ edited' \in BOOLEAN /\ trials' \in Nat
  BY <1>0, <1>3 DEF ExperimentTypeOK
<1>6. ~edited' => ~edited /\ IF NoPromotion = NoPromotion
                             THEN winner' # 0 => Live(winner', arms, livePage', liveTheme')
                             ELSE PromotesIn(NoPromotion) /\ PromotionHolds(NoPromotion, arms, livePage', liveTheme')
  BY <1>3
<1> QED BY <1>1, <1>2, <1>3, <1>4, <1>5, <1>6, PromotionGoesOn

LEMMA FairStep == FairInv /\ [ExperimentNext]_experimentVars => FairInv'
<1> SUFFICES ASSUME FairInv, [ExperimentNext]_experimentVars PROVE FairInv'
    OBVIOUS
<1>1. CASE UNCHANGED experimentVars
  BY <1>1 DEF experimentVars, FairInv, ExperimentTypeOK, TwoCounted, AloneOrLive
<1> QED BY <1>1, PutVariantKeeps, RemoveVariantKeeps, EditsKeep, AskStatusKeeps, WriteStatusKeeps, PromoteKeeps,
       WritePageKeeps, WriteThemeKeeps, EndExperimentKeeps, PromotionFailsKeeps
    DEF ExperimentNext

LEMMA WinnersHold == FairInv => ExperimentTypeOK /\ WinnerIsLive /\ RunningHasChallenger
<1> SUFFICES ASSUME FairInv PROVE ExperimentTypeOK /\ WinnerIsLive /\ RunningHasChallenger
    OBVIOUS
<1>1. WinnerIsLive BY PromotingIs DEF FairInv, AloneOrLive, Live, WinnerIsLive
<1>2. RunningHasChallenger BY DEF FairInv, TwoCounted, RunningHasChallenger
<1> QED BY <1>1, <1>2 DEF FairInv
----------------------------------------------------------------------------
(* The split. *)
LEMMA Products ==
    /\ \A a, b, c \in Nat : a <= b => a * c <= b * c
    /\ \A a, b, c \in Nat : c > 0 /\ a < b => a * c < b * c
<1>1. \A a, b, c \in Nat : a <= b => a * c <= b * c
  <2> SUFFICES ASSUME NEW a \in Nat, NEW b \in Nat, NEW c \in Nat, a <= b PROVE a * c <= b * c
    OBVIOUS
  <2>1. PICK d \in Nat : b = a + d
    <3>1. b - a \in Nat /\ b = a + (b - a) OBVIOUS
    <3> QED BY <3>1
  <2>2. b * c = a * c + d * c BY <2>1
  <2>3. d * c \in Nat /\ a * c \in Nat OBVIOUS
  <2> QED BY <2>2, <2>3
<1>2. \A a, b, c \in Nat : c > 0 /\ a < b => a * c < b * c
  <2> SUFFICES ASSUME NEW a \in Nat, NEW b \in Nat, NEW c \in Nat, c > 0, a < b PROVE a * c < b * c
    OBVIOUS
  <2>1. (a + 1) * c <= b * c BY <1>1
  <2>2. (a + 1) * c = a * c + c OBVIOUS
  <2>3. a * c \in Nat /\ b * c \in Nat OBVIOUS
  <2> QED BY <2>1, <2>2, <2>3
<1> QED BY <1>1, <1>2

(* The buckets below a mark are the first so many, and so many is the mark rounded up. *)
LEMMA BelowMark ==
    ASSUME NEW T \in Nat, T > 0, NEW X \in Nat, X <= 100 * T
    PROVE  \E k \in 0..100 : /\ X <= k * T /\ k * T < X + T
                             /\ {b \in Buckets : b * T < X} = 0..(k - 1)
<1>1. PICK k \in Nat : X <= k * T /\ k * T < X + T
  <2> DEFINE n == X + T - 1
             d == n \div T
             m == n % T
  <2>1. n \in Nat OBVIOUS
  <2>2. n = d * T + m /\ m \in 0..(T - 1) /\ d \in Nat
    <3> HIDE DEF n
    <3> QED BY <2>1, SMTT(30)
  <2>3. d * T \in Nat BY <2>2
  <2> HIDE DEF d, m
  <2>4. X <= d * T /\ d * T < X + T BY <2>2, <2>3
  <2> QED BY <2>2, <2>4
<1>2. k <= 100
  <2> SUFFICES ASSUME k > 100 PROVE FALSE
    OBVIOUS
  <2>1. 101 * T <= k * T BY Products
  <2>2. k * T \in Nat OBVIOUS
  <2> QED BY <1>1, <2>1, <2>2
<1>3. ASSUME NEW b \in Buckets PROVE b * T < X <=> b < k
  <2>0. b \in Nat /\ b * T \in Nat /\ k * T \in Nat BY DEF Buckets
  <2>1. CASE b < k
    <3>1. (b + 1) * T <= k * T BY <2>0, <2>1, Products
    <3>2. (b + 1) * T = b * T + T BY <2>0
    <3> QED BY <1>1, <2>0, <2>1, <3>1, <3>2
  <2>2. CASE ~(b < k)
    <3>1. k * T <= b * T BY <2>0, <2>2, Products
    <3> QED BY <1>1, <2>0, <2>2, <3>1
  <2> QED BY <2>1, <2>2
<1>4. {b \in Buckets : b * T < X} = 0..(k - 1)
  <2>1. \A b \in Buckets : b * T < X <=> b \in 0..(k - 1) BY <1>3 DEF Buckets
  <2>2. 0..(k - 1) \subseteq Buckets BY <1>2 DEF Buckets
  <2> QED BY <2>1, <2>2
<1>5. k \in 0..100 BY <1>2
<1> QED BY ONLY <1>1, <1>4, <1>5

Upto(a) == {b \in DOMAIN arms : b <= a}
Under(a) == {b \in DOMAIN arms : b < a}
WeightOf(S) == SumFunctionOnSet(Weighty, S)

(* When every variant has a weight, the total is the sum of the weights. *)
LEMMA WeightsAre ==
    ASSUME FairInv, \A a \in DOMAIN arms : arms[a].weight > 0
    PROVE  /\ DOMAIN arms \subseteq Nat /\ IsFiniteSet(DOMAIN arms)
           /\ Cardinality(DOMAIN arms) \in Nat /\ Cardinality(DOMAIN arms) > 0
           /\ \A a \in DOMAIN arms : Weighty[a] = arms[a].weight /\ Weighty[a] \in Nat /\ Weighty[a] > 0
           /\ \A S \in SUBSET DOMAIN arms : WeightOf(S) \in Nat /\ WeightOf(S) <= WeightOf(DOMAIN arms)
           /\ TotalWeight = WeightOf(DOMAIN arms) /\ WeightOf(DOMAIN arms) > 0
<1>0. ExperimentTypeOK /\ IsFiniteSet(DOMAIN arms) BY DEF FairInv
<1>1. ControlArm \in DOMAIN arms /\ DOMAIN arms \subseteq Nat
  BY <1>0, ExperimentAssumption DEF ExperimentTypeOK
<1>2. Cardinality(DOMAIN arms) \in Nat /\ Cardinality(DOMAIN arms) > 0
  <2>1. Cardinality(DOMAIN arms) \in Nat BY <1>0, FS_CardinalityType
  <2>2. Cardinality(DOMAIN arms) # 0 BY <1>0, <1>1, FS_EmptySet
  <2> QED BY <2>1, <2>2
<1>3. ASSUME NEW a \in DOMAIN arms PROVE Weighty[a] = arms[a].weight /\ Weighty[a] \in Nat /\ Weighty[a] > 0
  <2>1. arms[a].weight \in Int /\ arms[a].weight > 0
    <3>1. arms[a] \in Arm BY <1>0 DEF ExperimentTypeOK
    <3>2. arms[a].weight \in Weights BY <3>1 DEF Arm
    <3> QED BY <3>2, ExperimentAssumption
  <2>2. Max({0, arms[a].weight}) = IF 0 >= arms[a].weight THEN 0 ELSE arms[a].weight BY <2>1, LargerOf
  <2>3. Weighty[a] = Max({0, arms[a].weight}) BY DEF Weighty
  <2> QED BY <2>1, <2>2, <2>3
<1>4. ASSUME NEW S \in SUBSET DOMAIN arms PROVE WeightOf(S) \in Nat /\ WeightOf(S) <= WeightOf(DOMAIN arms)
  <2>1. \A x \in DOMAIN arms : Weighty[x] \in Nat BY <1>3
  <2>2. IsFiniteSet(S) /\ \A x \in S : Weighty[x] \in Nat BY <1>0, <2>1, FS_Subset
  <2>3. WeightOf(S) \in Nat BY <2>2, SumNat DEF WeightOf
  <2>4. WeightOf(S) <= WeightOf(DOMAIN arms) BY <1>0, <2>1, SumOfPart DEF WeightOf
  <2> QED BY <2>3, <2>4
<1>5. WeightOf(DOMAIN arms) > 0
  <2>1. \A x \in DOMAIN arms : Weighty[x] \in Int BY <1>3
  <2>2. WeightOf(DOMAIN arms) = Weighty[ControlArm] + WeightOf(DOMAIN arms \ {ControlArm})
    BY <1>0, <1>1, <2>1, SumWithout DEF WeightOf
  <2>3. WeightOf(DOMAIN arms \ {ControlArm}) \in Nat BY <1>4
  <2>4. Weighty[ControlArm] \in Nat /\ Weighty[ControlArm] > 0 BY <1>1, <1>3
  <2> QED BY <2>2, <2>3, <2>4
<1>6. TotalWeight = WeightOf(DOMAIN arms)
  <2>1. SumFunction(Weighty) = WeightOf(DOMAIN arms)
    <3>1. DOMAIN Weighty = DOMAIN arms BY DEF Weighty
    <3> QED BY <3>1 DEF SumFunction, WeightOf
  <2>2. WeightOf(DOMAIN arms) # 0 BY <1>5, <1>4
  <2> QED BY <2>1, <2>2 DEF TotalWeight
<1> QED BY <1>0, <1>1, <1>2, <1>3, <1>4, <1>5, <1>6

LEMMA Cancels ==
    ASSUME NEW a \in Nat, NEW b \in Nat, NEW n \in Nat, n > 0
    PROVE  a * n < b * n <=> a < b
<1>1. a < b => a * n < b * n BY Products
<1>2. b <= a => b * n <= a * n BY Products
<1>3. a * n \in Nat /\ b * n \in Nat OBVIOUS
<1> QED BY <1>1, <1>2, <1>3

(* The buckets used up by a variant and those before it lie below the scaled sum of
   their weights. *)
LEMMA WithinIs ==
    ASSUME FairInv, \A a \in DOMAIN arms : arms[a].weight > 0, NEW a \in DOMAIN arms
    PROVE  Within(a) = {b \in Buckets : b * TotalWeight < 100 * WeightOf(Upto(a))}
<1> DEFINE n == Cardinality(DOMAIN arms)
           T == TotalWeight
           s == WeightOf(Upto(a))
           width == SumFunctionOnSet(Width, Upto(a))
           zero == [x \in Upto(a) |-> 0]
<1>1. n \in Nat /\ n > 0 /\ T \in Nat /\ s \in Nat /\ IsFiniteSet(Upto(a)) /\ Upto(a) \subseteq DOMAIN arms
  <2>1. Upto(a) \subseteq DOMAIN arms BY DEF Upto
  <2> QED BY <2>1, WeightsAre, FS_Subset
<1>2. width = (100 * n) * s
  <2>1. ASSUME NEW x \in Upto(a) PROVE zero[x] \in Int /\ Weighty[x] \in Int /\ Width[x] = zero[x] + (100 * n) * Weighty[x]
    <3>1. x \in DOMAIN arms /\ Weighty[x] \in Nat /\ Weighty[x] > 0 BY <1>1, <2>1, WeightsAre
    <3>2. Width[x] = 100 * (Weighty[x] * n) BY <3>1 DEF Width
    <3>3. zero[x] = 0 OBVIOUS
    <3>4. \A k \in Nat : 100 * (k * n) = 0 + (100 * n) * k
      <4> HIDE DEF n
      <4> QED BY <1>1
    <3> QED BY <3>1, <3>2, <3>3, <3>4
  <2>2. 100 * n \in Int BY <1>1
  <2>3. SumFunctionOnSet(zero, Upto(a)) = 0 
    <3>1. \A x \in Upto(a) : zero[x] = 0 OBVIOUS
    <3> QED BY <1>1, <3>1, SumZero
  <2> HIDE DEF zero, n
  <2>4. width = SumFunctionOnSet(zero, Upto(a)) + (100 * n) * SumFunctionOnSet(Weighty, Upto(a))
    BY <1>1, <2>1, <2>2, SumLinear
  <2>5. (100 * n) * s \in Int BY <1>1
  <2> QED BY <2>3, <2>4, <2>5 DEF WeightOf
<1>3. Within(a) = {b \in Buckets : b * (T * n) < width} BY DEF Within, Upto, UsedUp
<1>4. ASSUME NEW b \in Buckets PROVE b * (T * n) < width <=> b * T < 100 * s
  <2>1. b \in Nat BY DEF Buckets
  <2> HIDE DEF n, T, s, width
  <2>2. b * (T * n) = (b * T) * n /\ (100 * n) * s = (100 * s) * n BY <1>1, <2>1
  <2>3. b * T \in Nat /\ 100 * s \in Nat BY <1>1, <2>1
  <2>4. (b * T) * n < (100 * s) * n <=> b * T < 100 * s BY <1>1, <2>3, Cancels
  <2> QED BY <1>2, <2>2, <2>4
<1> QED BY <1>3, <1>4

LEMMA SharesAre ==
    ASSUME FairInv, \A a \in DOMAIN arms : arms[a].weight > 0, NEW a \in DOMAIN arms
    PROVE  /\ WeightOf(Upto(a)) = arms[a].weight + WeightOf(Under(a))
           /\ UNION {Within(b) : b \in Under(a)} = {b \in Buckets : b * TotalWeight < 100 * WeightOf(Under(a))}
<1>0. DOMAIN arms \subseteq Nat /\ IsFiniteSet(DOMAIN arms) BY WeightsAre
<1>1. Under(a) \subseteq DOMAIN arms /\ IsFiniteSet(Under(a)) /\ \A c \in DOMAIN arms : Upto(c) \subseteq DOMAIN arms
  <2>1. Under(a) \subseteq DOMAIN arms BY DEF Under
  <2>2. \A c \in DOMAIN arms : Upto(c) \subseteq DOMAIN arms BY DEF Upto
  <2> QED BY <1>0, <2>1, <2>2, FS_Subset
<1>2. WeightOf(Upto(a)) = arms[a].weight + WeightOf(Under(a))
  <2>1. Upto(a) = Under(a) \cup {a} /\ a \notin Under(a) BY <1>0 DEF Upto, Under
  <2>2. \A x \in Under(a) \cup {a} : Weighty[x] \in Int BY <1>1, WeightsAre
  <2>3. WeightOf(Under(a) \cup {a}) = Weighty[a] + WeightOf(Under(a)) BY <1>1, <2>1, <2>2, SumWith DEF WeightOf
  <2>4. Weighty[a] = arms[a].weight BY WeightsAre
  <2> QED BY <2>1, <2>3, <2>4
<1>3. ASSUME NEW c \in Under(a) PROVE WeightOf(Upto(c)) <= WeightOf(Under(a)) /\ WeightOf(Upto(c)) \in Nat
  <2>1. Upto(c) \subseteq Under(a) BY <1>0, <1>1 DEF Upto, Under
  <2>2. \A x \in Under(a) : Weighty[x] \in Nat BY <1>1, WeightsAre
  <2>3. WeightOf(Upto(c)) <= WeightOf(Under(a)) BY <1>1, <2>1, <2>2, SumOfPart DEF WeightOf
  <2>4. WeightOf(Upto(c)) \in Nat BY <1>1, WeightsAre
  <2> QED BY <2>3, <2>4
<1> DEFINE T == TotalWeight
           s == WeightOf(Under(a))
           U == UNION {Within(b) : b \in Under(a)}
<1>4. T \in Nat /\ s \in Nat BY <1>1, WeightsAre
<1>5. ASSUME NEW b \in U PROVE b \in Buckets /\ b * T < 100 * s
  <2>1. PICK c \in Under(a) : b \in Within(c) OBVIOUS
  <2>2. b \in Buckets /\ b * T < 100 * WeightOf(Upto(c)) BY <1>1, <2>1, WithinIs
  <2>3. b \in Nat BY <2>2 DEF Buckets
  <2>4. b * T \in Nat BY <1>4, <2>3
  <2>5. WeightOf(Upto(c)) <= s /\ WeightOf(Upto(c)) \in Nat BY <1>3
  <2> HIDE DEF T, s
  <2> QED BY <1>4, <2>2, <2>4, <2>5
<1>6. ASSUME NEW b \in Buckets, b * T < 100 * s PROVE b \in U
  <2>1. b \in Nat /\ b * T \in Nat BY <1>4 DEF Buckets
  <2>2. s # 0 BY <1>4, <1>6, <2>1
  <2>3. Under(a) # {} BY <2>2, SumEmpty DEF WeightOf
  <2>4. PICK c \in Under(a) : \A d \in Under(a) : d <= c BY <1>0, <1>1, <2>3, LargestNumber
  <2>5. Upto(c) = Under(a) BY <1>0, <1>1, <2>4 DEF Upto, Under
  <2>6. Within(c) = {x \in Buckets : x * T < 100 * s} BY <1>1, <2>5, WithinIs
  <2>7. b \in Within(c) BY <1>6, <2>6
  <2> QED BY <2>7
<1>7. U = {b \in Buckets : b * T < 100 * s} BY <1>5, <1>6
<1> QED BY <1>2, <1>7

(* A share is the difference of two marks, each rounded up to a bucket. *)
LEMMA SplitHolds == FairInv => SplitFollowsWeights
<1> SUFFICES ASSUME FairInv, \A a \in DOMAIN arms : arms[a].weight > 0, NEW a \in DOMAIN arms
             PROVE  LET off == ShareOf(a) * TotalWeight - 100 * arms[a].weight
                    IN  -TotalWeight < off /\ off < TotalWeight
    BY DEF SplitFollowsWeights
<1> DEFINE T == TotalWeight
           w == arms[a].weight
           s == WeightOf(Under(a))
           u == WeightOf(Upto(a))
<1>1. T \in Nat /\ T > 0 /\ s \in Nat /\ u \in Nat /\ s <= T /\ u <= T /\ w \in Nat
  <2>1. Under(a) \subseteq DOMAIN arms /\ Upto(a) \subseteq DOMAIN arms BY DEF Under, Upto
  <2> QED BY <2>1, WeightsAre
<1>2. u = w + s BY SharesAre
<1>3. Within(a) = {b \in Buckets : b * T < 100 * u} BY WithinIs
<1>4. UNION {Within(b) : b \in Under(a)} = {b \in Buckets : b * T < 100 * s} BY SharesAre
<1>5. ShareOf(a) = Cardinality(Within(a) \ UNION {Within(b) : b \in Under(a)}) BY DEF ShareOf, Under
<1> HIDE DEF T, w, s, u
<1>6. PICK k \in 0..100 : 100 * u <= k * T /\ k * T < 100 * u + T /\ {b \in Buckets : b * T < 100 * u} = 0..(k - 1)
  <2> DEFINE m == 100 * u
  <2>1. m \in Nat /\ T \in Nat /\ T > 0 /\ m <= 100 * T BY <1>1
  <2> HIDE DEF m
  <2>2. \E k \in 0..100 : m <= k * T /\ k * T < m + T /\ {b \in Buckets : b * T < m} = 0..(k - 1)
    BY ONLY <2>1, BelowMark
  <2> QED BY <2>2 DEF m
<1>7. PICK j \in 0..100 : 100 * s <= j * T /\ j * T < 100 * s + T /\ {b \in Buckets : b * T < 100 * s} = 0..(j - 1)
  <2> DEFINE m == 100 * s
  <2>1. m \in Nat /\ T \in Nat /\ T > 0 /\ m <= 100 * T BY <1>1
  <2> HIDE DEF m
  <2>2. \E j \in 0..100 : m <= j * T /\ j * T < m + T /\ {b \in Buckets : b * T < m} = 0..(j - 1)
    BY ONLY <2>1, BelowMark
  <2> QED BY <2>2 DEF m
<1>8. k \in Nat /\ j \in Nat /\ k * T \in Nat /\ j * T \in Nat BY <1>1
<1>9. j <= k
  <2> SUFFICES ASSUME k < j PROVE FALSE
    BY <1>8
  <2>1. (k + 1) * T <= j * T BY <1>1, <1>8, Products
  <2>2. (k + 1) * T = k * T + T BY <1>1, <1>8
  <2> QED BY <1>1, <1>2, <1>6, <1>7, <1>8, <2>1, <2>2
<1>10. ShareOf(a) = k - j
  <2>1. ShareOf(a) = Cardinality((0..(k - 1)) \ (0..(j - 1))) BY <1>3, <1>4, <1>5, <1>6, <1>7
  <2>2. (0..(k - 1)) \ (0..(j - 1)) = j..(k - 1) BY <1>8, <1>9
  <2>3. Cardinality(j..(k - 1)) = IF j > k - 1 THEN 0 ELSE (k - 1) - j + 1
    <3>1. j \in Int /\ k - 1 \in Int BY <1>8
    <3> QED BY <3>1, FS_Interval
  <2> DEFINE c == Cardinality(j..(k - 1))
  <2>4. ShareOf(a) = c BY <2>1, <2>2
  <2>5. c = IF j > k - 1 THEN 0 ELSE (k - 1) - j + 1 BY <2>3
  <2> HIDE DEF c
  <2>6. c = k - j BY ONLY <1>8, <1>9, <2>5, SMT
  <2> QED BY <2>4, <2>6
<1>11. (k - j) * T = k * T - j * T BY <1>1, <1>8
<1>12. -T < (k - j) * T - 100 * w /\ (k - j) * T - 100 * w < T
  BY <1>1, <1>2, <1>6, <1>7, <1>8, <1>11
<1> QED BY <1>10, <1>12 DEF T, w

LEMMA FairHolds == FairInv => ExperimentsAreFair
  BY WinnersHold, SplitHolds DEF ExperimentsAreFair

(* The experiment, its variants and the promotions under way keep their shape. *)
THEOREM ExperimentType == ExperimentSpec => []ExperimentTypeOK
<1> QED BY FairStarts, FairStep, WinnersHold, PTL DEF ExperimentSpec

(* Visitors are split by the weights, to less than one of a hundred buckets, for any
   number of variants and any weights; a running experiment compares two variants, and
   one that ended shows its winner (ExperimentService.pickSplit, setStatus,
   promoteWinner). *)
THEOREM ExperimentsFair == ExperimentSpec => []ExperimentsAreFair
<1> QED BY FairStarts, FairStep, FairHolds, PTL DEF ExperimentSpec
----------------------------------------------------------------------------
(* The parts taken together. *)

(* A step of the back office is one of a part, and the others stand still. *)
LEMMA OneSceneAtATime ==
    [BackOfficeNext]_backVars =>
       /\ [TeamNext]_teamVars /\ [SupportNext]_supportVars /\ [InvoiceNext]_invoiceVars
       /\ [ImportNext]_importVars /\ [PricingNext]_pricingVars /\ [ExperimentNext]_experimentVars
       /\ scene' = scene
<1> DEFINE Steps ==
       /\ [TeamNext]_teamVars /\ [SupportNext]_supportVars /\ [InvoiceNext]_invoiceVars
       /\ [ImportNext]_importVars /\ [PricingNext]_pricingVars /\ [ExperimentNext]_experimentVars
       /\ scene' = scene
<1>1. TeamScene => Steps BY DEF TeamScene
<1>2. SupportScene => Steps BY DEF SupportScene
<1>3. InvoiceScene => Steps BY DEF InvoiceScene
<1>4. ImportScene => Steps BY DEF ImportScene
<1>5. PricingScene => Steps BY DEF PricingScene
<1>6. ExperimentScene => Steps BY DEF ExperimentScene
<1>7. UNCHANGED backVars => Steps BY DEF backVars
<1> QED BY <1>1, <1>2, <1>3, <1>4, <1>5, <1>6, <1>7 DEF BackOfficeNext

(* Whichever part a behaviour shows, each goes through a behaviour of its own
   specification. *)
LEMMA PartsAreThemselves ==
    /\ BackOfficeSpec => TeamSpec
    /\ BackOfficeSpec => SupportSpec
    /\ BackOfficeSpec => InvoiceSpec
    /\ BackOfficeSpec => ImportSpec
    /\ BackOfficeSpec => PricingSpec
    /\ BackOfficeSpec => ExperimentSpec
<1>1. BackOfficeInit => /\ TeamInit /\ SupportInit /\ InvoiceInit
                        /\ ImportInit /\ PricingInit /\ ExperimentInit
  BY DEF BackOfficeInit
<1> QED BY <1>1, OneSceneAtATime, PTL
        DEF BackOfficeSpec, TeamSpec, SupportSpec, InvoiceSpec, ImportSpec, PricingSpec, ExperimentSpec

(* The state of every part keeps its shape, in the back office as a whole. *)
THEOREM BackOfficeType == BackOfficeSpec => []BackOfficeTypeOK
<1>1. BackOfficeInit => scene \in Scenes BY DEF BackOfficeInit
<1>2. scene \in Scenes /\ scene' = scene => (scene \in Scenes)' OBVIOUS
<1>3. BackOfficeSpec => [](scene \in Scenes) BY <1>1, <1>2, OneSceneAtATime, PTL DEF BackOfficeSpec
<1>4. scene \in Scenes /\ TeamTypeOK /\ SupportTypeOK /\ InvoiceTypeOK
        /\ ImportTypeOK /\ PricingTypeOK /\ ExperimentTypeOK => BackOfficeTypeOK
  BY DEF BackOfficeTypeOK
<1> QED BY <1>3, <1>4, PartsAreThemselves, TeamType, SupportType, InvoiceType, ImportType, PricingType,
           ExperimentType, PTL

(* What each part promises it promises in the back office. *)
THEOREM BackOfficeKeepsPromises ==
    BackOfficeSpec => [](/\ TopRoleIsHeld /\ EscalationsReachPeople /\ DocumentsAreExact
                         /\ ImportsAreComplete /\ PricesKeepTheirRules /\ ExperimentsAreFair)
<1> QED BY PartsAreThemselves, TopRoleHeld, CustomersReachPeople, DocumentsExact, HistoryComesInOnce,
           PricesKept, ExperimentsFair, PTL
==============================================================================
