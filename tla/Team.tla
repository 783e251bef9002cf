-------------------------------- MODULE Team --------------------------------
(***************************************************************************)
(* The people of one group: the members of a merchant's workspace          *)
(* (MemberService, AuthService.acceptInvite) or the staff of the platform  *)
(* (PlatformAuthService).  Either has a top role - OWNER, SUPER_ADMIN -    *)
(* that somebody must hold.  A request that takes it from someone counts   *)
(* the others who hold it first, and writes later.                         *)
(***************************************************************************)
EXTENDS Naturals, FiniteSets

CONSTANTS
    Users,
    TeamRequests,   \* request handlers
    MaxTeamCalls    \* bound: requests

(* RANK: STAFF, ADMIN and OWNER of a workspace; of the platform's roles only the
   highest matters.  0 is nobody. *)
Top == 3
Ranks == 1..Top
Manager == 2        \* members:manage belongs to OWNER and ADMIN

ASSUME TeamAssumption == MaxTeamCalls \in Nat

VARIABLES
    platform,    \* is the group the platform's staff?
    rank,        \* per user their rank
    invites,     \* the invitations that are neither accepted nor revoked
    pending,     \* per handler: where it stands, what it has read
    slips,       \* how the top role was taken from someone without a valid count
    teamCalls    \* requests so far

teamVars == <<platform, rank, invites, pending, slips, teamCalls>>

Invitation == [for : Users, to : Ranks]
NoRequest == [at |-> "free"]
Changing == [at : {"count", "write"}, u : Users, to : 0..Top, counted : BOOLEAN, valid : BOOLEAN]
Joining == [at : {"join"}, i : Invitation]

TeamTypeOK ==
    /\ platform \in BOOLEAN
    /\ rank \in [Users -> 0..Top]
    /\ invites \subseteq Invitation
    /\ pending \in [TeamRequests -> {NoRequest} \cup Changing \cup Joining]
    /\ slips \subseteq {"unchecked", "overtaken", "invited"}
    /\ teamCalls \in Nat

(* signup: a workspace begins with its owner. *)
TeamInit ==
    /\ platform \in BOOLEAN
    /\ \E u \in Users : rank = [v \in Users |-> IF v = u THEN Top ELSE 0]
    /\ invites = {} /\ slips = {} /\ teamCalls = 0
    /\ pending = [h \in TeamRequests |-> NoRequest]

CallsTeam == teamCalls < MaxTeamCalls /\ teamCalls' = teamCalls + 1

(* The rank of who makes a request: a member who may manage, or an API key or a
   partner, which count as owners. *)
CallerRanks == {Top} \cup {rank[c] : c \in {x \in Users : rank[x] >= Manager}}
----------------------------------------------------------------------------
(* createInvite; the platform creates a staff member at once. *)
Invite(u, to) ==
    /\ rank[u] = 0 /\ CallsTeam
    /\ IF platform
       THEN /\ u \notin {pending[h].u : h \in {x \in TeamRequests : pending[x] # NoRequest}}  \* a new id
            /\ rank' = [rank EXCEPT ![u] = to]
            /\ UNCHANGED invites
       ELSE /\ \E r \in CallerRanks : to <= r
            /\ invites' = invites \cup {[for |-> u, to |-> to]}
            /\ UNCHANGED rank
    /\ UNCHANGED <<platform, pending, slips>>

RevokeInvite(i) ==
    /\ i \in invites /\ CallsTeam
    /\ invites' = invites \ {i}
    /\ UNCHANGED <<platform, rank, pending, slips>>

(* acceptInvite: the invitation is read, *)
ReadInvite(h, i) ==
    /\ pending[h] = NoRequest /\ i \in invites /\ CallsTeam
    /\ pending' = [pending EXCEPT ![h] = [at |-> "join", i |-> i]]
    /\ UNCHANGED <<platform, rank, invites, slips>>

(* A write that takes the top role from u makes the counts of others invalid. *)
Overtakes(h, u, to) ==
    [g \in TeamRequests |->
       IF g = h THEN NoRequest
       ELSE IF pending[g].at = "write" /\ rank[u] = Top /\ to # Top
            THEN [pending[g] EXCEPT !.valid = FALSE]
       ELSE pending[g]]

(* and whoever it is for gets its role, member or not, and it is used up. *)
Join(h) ==
    /\ pending[h].at = "join"
    /\ LET u == pending[h].i.for
           to == pending[h].i.to
       IN  /\ rank' = [rank EXCEPT ![u] = to]
           /\ pending' = Overtakes(h, u, to)
           /\ slips' = IF rank[u] = Top /\ to # Top THEN slips \cup {"invited"} ELSE slips
    /\ invites' = invites \ {pending[h].i}
    /\ UNCHANGED <<platform, teamCalls>>
----------------------------------------------------------------------------
(* changeRole, and removeMember (to = 0), which compares no ranks: the member is
   read; only a demotion from the top counts the others. *)
Allowed(u, to) == platform \/ to = 0 \/ \E r \in CallerRanks : to <= r /\ rank[u] <= r

Ask(h, u, to) ==
    /\ pending[h] = NoRequest /\ rank[u] # 0 /\ CallsTeam
    /\ Allowed(u, to)
    /\ pending' = [pending EXCEPT ![h] =
                     [at |-> IF rank[u] = Top /\ to # Top THEN "count" ELSE "write",
                      u |-> u, to |-> to, counted |-> FALSE, valid |-> FALSE]]
    /\ UNCHANGED <<platform, rank, invites, slips>>

(* assertNotLastOwner, assertNotLastSuperAdmin. *)
HoldersOf(u) == {v \in Users : rank[v] = Top}
OthersThan(u) == {v \in Users \ {u} : rank[v] = Top}

CountTop(h) ==
    /\ pending[h].at = "count"
    /\ pending' = [pending EXCEPT ![h] =
                     IF OthersThan(pending[h].u) = {} THEN NoRequest
                     ELSE [@ EXCEPT !.at = "write", !.counted = TRUE, !.valid = TRUE]]
    /\ UNCHANGED <<platform, rank, invites, slips, teamCalls>>

(* The write itself looks at nothing; it fails for a member who is gone. *)
WriteRank(h) ==
    LET p == pending[h] IN
    /\ p.at = "write"
    /\ rank' = IF rank[p.u] = 0 THEN rank ELSE [rank EXCEPT ![p.u] = p.to]
    /\ pending' = Overtakes(h, p.u, p.to)
    /\ slips' = IF rank[p.u] # Top \/ p.to = Top \/ p.valid THEN slips
                ELSE slips \cup {IF p.counted THEN "overtaken" ELSE "unchecked"}
    /\ UNCHANGED <<platform, invites, teamCalls>>
----------------------------------------------------------------------------
TeamNext ==
    \/ \E u \in Users, to \in Ranks : Invite(u, to)
    \/ \E i \in invites : RevokeInvite(i)
    \/ \E h \in TeamRequests :
          \/ Join(h) \/ CountTop(h) \/ WriteRank(h)
          \/ \E i \in invites : ReadInvite(h, i)
          \/ \E u \in Users, to \in 0..Top : Ask(h, u, to)

TeamSpec == TeamInit /\ [][TeamNext]_teamVars
----------------------------------------------------------------------------
(* "A tenant keeps at least one OWNER", and the platform a super admin: somebody
   holds the top role however many are demoted, removed and invited, as long as no
   write landed on a count that another one had overtaken, on someone promoted
   since it read them, or as an old invitation of a member. *)
TopRoleIsHeld == slips = {} => \E u \in Users : rank[u] = Top
============================================================================
