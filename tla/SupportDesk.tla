----------------------------- MODULE SupportDesk -----------------------------
(***************************************************************************)
(* One support conversation (CustomerSupportService).  Every message of    *)
(* the customer is answered by the assistant, which takes a while, and the *)
(* conversation is then saved from what was read before: the count of      *)
(* replies that did not help, and whether to hand it to a human.  Agents   *)
(* reply and set the status meanwhile.                                     *)
(***************************************************************************)
EXTENDS Naturals, FiniteSets

CONSTANTS
    Chats,          \* executions of chat() that may overlap
    Caps,           \* values of maxRebuttals (1 to 5)
    HighestRebuttals, \* the largest of them
    MaxTurns        \* bound: messages of the customer and of agents

ASSUME SupportAssumption ==
    /\ IsFiniteSet(Chats) /\ HighestRebuttals \in Nat /\ MaxTurns \in Nat
    /\ Caps # {} /\ Caps \subseteq 1..HighestRebuttals

VARIABLES
    talk,        \* the conversation: its status and its rebuttals
    maxRebuttals,\* of the store's bot configuration; 0 while the assistant is switched off
    chat,        \* per execution: where it stands and what it has read
    told,        \* alerts to the owner since the conversation was last reopened
    pushback,    \* rebuttals of the customer since an agent last replied
    handed,      \* has it been handed over since?
    mixed,       \* has a chat failed, or overwritten something it had not read?
    byHand,      \* has an agent set the status by hand?
    turns        \* messages so far

supportVars == <<talk, maxRebuttals, chat, told, pushback, handed, mixed, byHand, turns>>

TalkStatus == {"OPEN", "ESCALATED", "RESOLVED"}
Quiet == [at |-> "idle"]
Chatting == [at : {"answer", "save", "alert"}, saw : TalkStatus, base : Nat, counted : Nat,
             pushy : BOOLEAN, cap : Caps, escalates : BOOLEAN]

SupportTypeOK ==
    /\ talk \in [status : TalkStatus, rebuttals : Nat]
    /\ maxRebuttals \in Caps \cup {0}
    /\ chat \in [Chats -> {Quiet} \cup Chatting]
    /\ told \in Nat /\ pushback \in Nat /\ turns \in Nat
    /\ handed \in BOOLEAN /\ mixed \in BOOLEAN /\ byHand \in BOOLEAN

SupportInit ==
    /\ talk = [status |-> "OPEN", rebuttals |-> 0]
    /\ maxRebuttals \in Caps
    /\ chat = [h \in Chats |-> Quiet]
    /\ told = 0 /\ pushback = 0 /\ turns = 0
    /\ handed = FALSE /\ mixed = FALSE /\ byHand = FALSE

Turn == turns < MaxTurns /\ turns' = turns + 1
----------------------------------------------------------------------------
(* chat(): the store's configuration and the conversation are read, and the
   customer's message stored; `pushy` is what looksLikeRebuttal says of it. *)
CountOf(pushy) == talk.rebuttals + (IF pushy THEN 1 ELSE 0)

CustomerWrites(h, pushy) ==
    /\ chat[h] = Quiet /\ maxRebuttals > 0 /\ Turn
    /\ chat' = [chat EXCEPT ![h] =
                  [at |-> "answer", saw |-> talk.status, base |-> talk.rebuttals,
                   counted |-> CountOf(pushy), pushy |-> pushy, cap |-> maxRebuttals,
                   escalates |-> FALSE]]
    /\ pushback' = pushback + (IF pushy THEN 1 ELSE 0)
    /\ UNCHANGED <<talk, maxRebuttals, told, handed, mixed, byHand>>

(* At the cap it is handed over; otherwise the assistant answers, and may hand it
   over on its own. *)
BeyondCap(c) == c.pushy /\ c.counted > c.cap /\ c.saw # "ESCALATED"
AtCap(c) == c.pushy /\ c.counted >= c.cap /\ c.saw # "ESCALATED"

Answer(h, e) ==
    /\ chat[h].at = "answer"
    /\ AtCap(chat[h]) => e
    /\ chat' = [chat EXCEPT ![h].at = "save", ![h].escalates = e]
    /\ UNCHANGED <<talk, maxRebuttals, told, pushback, handed, mixed, byHand, turns>>

(* "Alert the store owner the first time a conversation escalates." *)
FirstTime(c) == c.escalates /\ c.saw # "ESCALATED"

SaveTalk(h) ==
    LET c == chat[h] IN
    /\ c.at = "save"
    /\ talk' = [status |-> IF c.escalates THEN "ESCALATED" ELSE talk.status, rebuttals |-> c.counted]
    /\ handed' = (handed \/ c.escalates)
    /\ mixed' = (mixed \/ talk.rebuttals # c.base \/ talk.status # c.saw)
    /\ chat' = [chat EXCEPT ![h] = IF FirstTime(c) THEN [c EXCEPT !.at = "alert"] ELSE Quiet]
    /\ UNCHANGED <<maxRebuttals, told, pushback, byHand, turns>>

AlertOfTalk(h) ==
    /\ chat[h].at = "alert"
    /\ told' = told + 1
    /\ chat' = [chat EXCEPT ![h] = Quiet]
    /\ UNCHANGED <<talk, maxRebuttals, pushback, handed, mixed, byHand, turns>>
(* The assistant throws, or a write fails: the rest is not done. *)
ChatFails(h) ==
    /\ chat[h] # Quiet
    /\ chat' = [chat EXCEPT ![h] = Quiet]
    /\ mixed' = (mixed \/ chat[h].pushy \/ chat[h].at = "alert")
    /\ UNCHANGED <<talk, maxRebuttals, told, pushback, handed, byHand, turns>>
----------------------------------------------------------------------------
(* reply(): the conversation is open again, and the count starts over. *)
AgentReplies ==
    /\ Turn
    /\ talk' = [status |-> "OPEN", rebuttals |-> 0]
    /\ told' = 0 /\ pushback' = 0 /\ handed' = FALSE
    /\ mixed' = (mixed \/ \E h \in Chats : chat[h] # Quiet)
    /\ UNCHANGED <<maxRebuttals, chat, byHand>>

(* setStatus(): any status. *)
SetTalkStatus(s) ==
    /\ s # talk.status /\ Turn
    /\ talk' = [talk EXCEPT !.status = s]
    /\ told' = IF talk.status = "ESCALATED" THEN 0 ELSE told
    /\ byHand' = TRUE
    /\ UNCHANGED <<maxRebuttals, chat, pushback, handed, mixed>>

(* setConfig(). *)
SetMaxRebuttals(n) ==
    /\ n # maxRebuttals /\ Turn
    /\ maxRebuttals' = n
    /\ UNCHANGED <<talk, chat, told, pushback, handed, mixed, byHand>>
----------------------------------------------------------------------------
SupportNext ==
    \/ \E h \in Chats :
          \/ ChatFails(h) \/ SaveTalk(h) \/ AlertOfTalk(h)
          \/ \E b \in BOOLEAN : CustomerWrites(h, b) \/ Answer(h, b)
    \/ AgentReplies
    \/ \E s \in TalkStatus : SetTalkStatus(s)
    \/ \E n \in Caps \cup {0} : SetMaxRebuttals(n)

SupportSpec == SupportInit /\ [][SupportNext]_supportVars
----------------------------------------------------------------------------
(* An escalated conversation has been told to the owner since it was last open, or
   a chat is about to, unless a chat failed, or chats and agents got in each other's
   way. *)
EscalationIsTold ==
    talk.status = "ESCALATED" =>
       \/ told > 0 \/ mixed \/ byHand
       \/ \E h \in Chats : chat[h].at = "alert"

(* The owner is alerted once for an escalation, unless chats overlapped or an agent
   set the status by hand; then once for every chat under way before and after. *)
AlertsPerEscalation ==
    told <= IF mixed \/ byHand THEN 2 * Cardinality(Chats) ELSE 1

(* "Count customer pushback and auto-hand off at the cap": a customer who has said
   as often as the highest cap allows that it did not help has been handed over,
   unless chats overlapped or failed, or an agent set the status by hand. *)
HandOffAtCap ==
    (pushback >= HighestRebuttals /\ ~mixed /\ \A h \in Chats : chat[h] = Quiet) =>
       (handed \/ byHand)

(* A customer whom the assistant cannot help reaches a human: handed over at the
   cap, the owner told, and told once. *)
EscalationsReachPeople == EscalationIsTold /\ AlertsPerEscalation /\ HandOffAtCap
============================================================================
