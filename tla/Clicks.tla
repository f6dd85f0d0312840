------------------------------- MODULE Clicks --------------------------------
(***************************************************************************)
(* The redirect path: TrackingController.redirect and ClickService.record. *)
(* record makes three database calls, each awaited, with no transaction    *)
(* around them; each is one action here, together with the synchronous     *)
(* code around it, so requests and admin mutations interleave in between.  *)
(*                                                                         *)
(* A click id is a fresh UUID drawn by the request; it is represented by   *)
(* the request itself.  Abstracted: user agent, country, referrer, source. *)
(***************************************************************************)
EXTENDS Campaigns

CONSTANTS
    ClickReqs,      \* redirect requests, each served once
    IPs,            \* client addresses
    MaxTime,        \* bound: the clock stops here
    UniqueWindow    \* the 24 hours of the uniqueness check, in clock units

ASSUME ClickAssumption == MaxTime \in Nat /\ UniqueWindow \in Nat

VARIABLES
    now,        \* the clock the server and the database share
    clicks,     \* the Click table
    clickReq    \* where each redirect request is

clickVars == <<now, clicks, clickReq>>

ClickRows ==
    [clickId : ClickReqs, campaignId : CampaignIds, ip : IPs,
     isUnique : BOOLEAN, capBlocked : BOOLEAN, createdAt : Nat]

ClickStates ==
    [pc : {"new", "lost", "stored", "refused", "failed"}]
      \cup [pc : {"check"}, campaignId : CampaignIds, ip : IPs,
            capBlocked : BOOLEAN]
      \cup [pc : {"create"}, campaignId : CampaignIds, ip : IPs,
            capBlocked : BOOLEAN, isUnique : BOOLEAN]

ClickTypeOK ==
    /\ now \in Nat
    /\ clicks \subseteq ClickRows
    /\ clickReq \in [ClickReqs -> ClickStates]

ClickInit ==
    /\ now = 0
    /\ clicks = {}
    /\ clickReq = [r \in ClickReqs |-> [pc |-> "new"]]

-----------------------------------------------------------------------------
AcceptsTraffic(id) ==
    /\ id \in DOMAIN campaign
    /\ campaign[id].status \in {"ACTIVE", "PAUSED"}
    /\ campaign[id].endDate >= now

\* The limit alone decides, for TOTAL caps and for the others.
IsCapBlocked(capRows) == \E i \in DOMAIN capRows : capRows[i].capLimit <= 0

\* Faulty variant: only TOTAL caps close a campaign.
ReadCampaignTotalOnly(r, id, ip) ==
    /\ clickReq[r].pc = "new"
    /\ clickReq' = [clickReq EXCEPT ![r] =
         IF AcceptsTraffic(id)
         THEN [pc |-> "check", campaignId |-> id, ip |-> ip,
               capBlocked |-> \E i \in DOMAIN caps[id] :
                                 /\ caps[id][i].capType = "TOTAL"
                                 /\ caps[id][i].capLimit <= 0]
         ELSE [pc |-> "refused"]]
    /\ UNCHANGED <<now, clicks>>

\* findUnique on the slug, the three refusals, and isCapBlocked, which is a
\* function of the caps this query returned.
ReadCampaign(r, id, ip) ==
    /\ clickReq[r].pc = "new"
    /\ clickReq' = [clickReq EXCEPT ![r] =
         IF AcceptsTraffic(id)
         THEN [pc |-> "check", campaignId |-> id, ip |-> ip,
               capBlocked |-> IsCapBlocked(caps[id])]
         ELSE [pc |-> "refused"]]
    /\ UNCHANGED <<now, clicks>>

\* Faulty variant: the address is left out of the query.
PriorAnyIp(id, ip) ==
    {c \in clicks : c.campaignId = id /\ c.createdAt + UniqueWindow >= now}

\* createdAt >= now - UniqueWindow, without leaving the naturals.
PriorSameIp(id, ip) ==
    {c \in clicks : /\ c.campaignId = id
                    /\ c.ip = ip
                    /\ c.createdAt + UniqueWindow >= now}

\* Faulty variant: a repeat click is dropped and its request never answered.
CheckUniqueDroppingRepeats(r) ==
    /\ clickReq[r].pc = "check"
    /\ PriorSameIp(clickReq[r].campaignId, clickReq[r].ip) = {}
    /\ clickReq' = [clickReq EXCEPT ![r] =
         [pc |-> "create", campaignId |-> clickReq[r].campaignId,
          ip |-> clickReq[r].ip, capBlocked |-> clickReq[r].capBlocked,
          isUnique |-> TRUE]]
    /\ UNCHANGED <<now, clicks>>

CheckUnique(r) ==
    /\ clickReq[r].pc = "check"
    /\ clickReq' = [clickReq EXCEPT ![r] =
         [pc |-> "create", campaignId |-> clickReq[r].campaignId,
          ip |-> clickReq[r].ip, capBlocked |-> clickReq[r].capBlocked,
          isUnique |->
            PriorSameIp(clickReq[r].campaignId, clickReq[r].ip) = {}]]
    /\ UNCHANGED <<now, clicks>>

\* The insert commits; the answer is 302, or 500 when the connection drops
\* before the database's acknowledgement of the commit arrives.
CreateClick(r) ==
    /\ clickReq[r].pc = "create"
    /\ clicks' = clicks \cup
         {[clickId |-> r, campaignId |-> clickReq[r].campaignId,
           ip |-> clickReq[r].ip, isUnique |-> clickReq[r].isUnique,
           capBlocked |-> clickReq[r].capBlocked, createdAt |-> now]}
    /\ clickReq' = [clickReq EXCEPT ![r] = [pc |-> "stored"]]
    /\ UNCHANGED now

\* Any of the calls rejects with nothing stored: the controller logs it and
\* answers 500.
ClickFails(r) ==
    /\ clickReq[r].pc \in {"new", "check", "create"}
    /\ clickReq' = [clickReq EXCEPT ![r] = [pc |-> "failed"]]
    /\ UNCHANGED <<now, clicks>>

Tick == now < MaxTime /\ now' = now + 1 /\ UNCHANGED <<clicks, clickReq>>

ClickNext ==
    \/ \E r \in ClickReqs, id \in CampaignIds, ip \in IPs :
         ReadCampaign(r, id, ip)
    \/ \E r \in ClickReqs : CheckUnique(r) \/ CreateClick(r) \/ ClickFails(r)
    \/ Tick

\* What the server does for a request it has begun to serve.
ServeClick(r) == CheckUnique(r) \/ CreateClick(r)

ClickCrash ==
    /\ clickReq' = [r \in ClickReqs |->
         IF clickReq[r].pc \in {"check", "create"} THEN [pc |-> "lost"]
                                                   ELSE clickReq[r]]
    /\ UNCHANGED <<now, clicks>>

-----------------------------------------------------------------------------
SameVisitor(x, y) == x.campaignId = y.campaignId /\ x.ip = y.ip

\* A visitor is never lost from the unique count: whatever requests overlap,
\* some click among the earliest of an address on a campaign is unique
\* (record, the findFirst of line 73 against the create of line 87).
FirstClickIsUnique ==
    \A x \in clicks : \E y \in clicks :
        SameVisitor(x, y) /\ y.isUnique /\ y.createdAt <= x.createdAt

\* The flag that bars a click from converting says what its campaign's caps
\* say, however long the request held the caps it had read and whatever
\* mutations came in between (isCapBlocked against CampaignsService.update).
BlockFlagMatchesCaps ==
    \A x \in clicks : /\ x.campaignId \in DOMAIN caps
                      /\ x.capBlocked <=> IsCapBlocked(caps[x.campaignId])

\* What the comment on record promises: a unique click is the first of its
\* address on its campaign within the window, so two of them are more than a
\* window apart.
UniqueClicksAreApart ==
    \A x, y \in clicks :
        x # y /\ SameVisitor(x, y) /\ x.isUnique /\ y.isUnique
          => \/ x.createdAt > y.createdAt + UniqueWindow
             \/ y.createdAt > x.createdAt + UniqueWindow
==============================================================================
