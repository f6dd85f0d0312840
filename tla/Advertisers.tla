----------------------------- MODULE Advertisers -----------------------------
(***************************************************************************)
(* Advertisers and who may touch them and their campaigns: the mutations   *)
(* and the paged listing of AdvertisersResolver, and the ownership checks  *)
(* of CampaignsResolver.  What a mutation of a campaign then does is in    *)
(* Campaigns.  An advertiser is named by the request that creates it;      *)
(* abstracted are the columns that no check reads, and its user, whose row *)
(* is inserted in the same transaction.                                    *)
(***************************************************************************)
EXTENDS Accounts, Sequences

CONSTANTS
    Managed,        \* the advertisers at first, and the manager of each
    Seniority,      \* the same, oldest first
    CampaignOwner,  \* the user whose profile owns each campaign, for good
    Take            \* the size of a page

ASSUME AdvertiserAssumption ==
    /\ Managed \in [DOMAIN Managed -> Users \cup {Nobody}]
    /\ Seniority \in Seq(DOMAIN Managed)
    /\ \A a \in DOMAIN Managed : \E i \in DOMAIN Seniority : Seniority[i] = a
    /\ CampaignOwner \in [DOMAIN CampaignOwner -> Users]
    /\ Take \in Nat \ {0}
    /\ DOMAIN Managed \cap Reqs = {}

VARIABLES
    advertisers,
    directory       \* the advertisers, in the order they were created

advertiserVars == <<advertisers, directory>>

CampaignOps == {"campaign", "updateCampaign", "toggleCampaignStatus",
                "softDeleteCampaign"}
CampaignLists == {"campaigns", "campaignsCount"}
AdvertiserOps == {"createAdvertiser", "updateAdvertiser", "softDeleteAdvertiser",
                  "advertisers"} \cup CampaignOps \cup CampaignLists

AdvertiserIds == DOMAIN Managed \cup Reqs
AdvertiserRows == [manager : Users \cup {Nobody}, deleted : BOOLEAN]

AdvertisersTypeOK ==
    /\ DOMAIN advertisers \subseteq AdvertiserIds
    /\ advertisers \in [DOMAIN advertisers -> AdvertiserRows]
    /\ directory \in Seq(DOMAIN advertisers)

AdvertisersInit ==
    /\ advertisers =
         [a \in DOMAIN Managed |-> [manager |-> Managed[a], deleted |-> FALSE]]
    /\ directory = Seniority

-----------------------------------------------------------------------------
CreateAdvertiser(r, manager) ==
    /\ Called(r, "createAdvertiser")
    /\ \/ /\ advertisers' = Insert(advertisers, r,
               [manager |-> manager, deleted |-> FALSE])
          /\ directory' = Append(directory, r)
          /\ Reply(r)
       \/ Refuse(r, "conflict") /\ UNCHANGED advertiserVars

\* Faulty variant: a manager may take over any advertiser.
CanWriteRoleOnly(by, a) == by.role \in {"MANAGER", "ADMIN", "SUPER_ADMIN"}

\* assertCanWrite
CanWrite(by, a) ==
    \/ by.role \in {"ADMIN", "SUPER_ADMIN"}
    \/ by.role = "MANAGER" /\ advertisers[a].manager = by.user

\* updateAdvertiser reads the row, judges its manager, and writes in a later
\* call, which asks for the id alone.
FindAdvertiser(r, a) ==
    /\ Called(r, "updateAdvertiser")
    /\ \/ a \notin DOMAIN advertisers /\ Refuse(r, "notFound")
       \/ /\ a \in DOMAIN advertisers /\ ~CanWrite(req[r].by, a)
          /\ Refuse(r, "forbidden")
       \/ /\ a \in DOMAIN advertisers /\ CanWrite(req[r].by, a)
          /\ Go(r, "found", a)
    /\ UNCHANGED advertiserVars

\* The manager is replaced, disconnected or left as it is; a deleted row is
\* updated like any other, and an unknown manager fails.
UpdateAdvertiser(r, manager) ==
    /\ At(r, "found", "updateAdvertiser")
    /\ advertisers' = [advertisers EXCEPT ![kept[r]].manager = manager]
    /\ Reply(r)
    /\ UNCHANGED directory

\* softDelete; an unknown id fails, its error is not caught.
SoftDelete(r, a) ==
    /\ Called(r, "softDeleteAdvertiser")
    /\ IF a \in DOMAIN advertisers
       THEN advertisers' = [advertisers EXCEPT ![a].deleted = TRUE] /\ Reply(r)
       ELSE UNCHANGED advertisers /\ Fail(r)
    /\ UNCHANGED directory

\* Faulty variant: deleted rows are left out of a listing.
ListingWithoutDeleted ==
    SelectSeq(directory, LAMBDA a : ~advertisers[a].deleted)

\* findMany without a filter: deleted rows are in it.
Listing == directory

\* The rows of the page after the first "skip" ones, newest first.
Page(skip) ==
    {Listing[i] : i \in {i \in DOMAIN Listing :
        Len(Listing) - i >= skip /\ Len(Listing) - i < skip + Take}}

\* Faulty variant: the offset is ignored, so every page is the first one and a
\* client never comes to a page that is not full.
ListPageFromStart(r) ==
    /\ Called(r, "advertisers") \/ At(r, "found", "advertisers")
    /\ Go(r, IF Len(Listing) < Take THEN "reply" ELSE "found",
          [skip |-> 0,
           seen |-> Page(0),
           due |-> IF req[r].pc = "call" THEN DOMAIN advertisers
                                         ELSE kept[r].due])
    /\ UNCHANGED advertiserVars

\* A client walks through the listing, a page per request, until a page is not
\* full; it keeps the rows shown and the rows that were there at its start.
\* Later requests than the first are served in its state.
ListPage(r) ==
    /\ Called(r, "advertisers") \/ At(r, "found", "advertisers")
    /\ LET walk == IF req[r].pc = "call"
                   THEN [skip |-> 0, seen |-> {}, due |-> DOMAIN advertisers]
                   ELSE kept[r]
       IN  Go(r, IF Len(Listing) < walk.skip + Take THEN "reply" ELSE "found",
              [skip |-> walk.skip + Take,
               seen |-> walk.seen \cup Page(walk.skip),
               due |-> walk.due])
    /\ UNCHANGED advertiserVars

-----------------------------------------------------------------------------
CampaignCall(r) == req[r].by.op \in CampaignOps

FindCampaign(r, c) ==
    /\ req[r].pc = "call" /\ CampaignCall(r)
    /\ IF c \in DOMAIN CampaignOwner THEN Go(r, "found", c)
                                     ELSE Refuse(r, "notFound")
    /\ UNCHANGED advertiserVars

\* assertCanRead and assertCanWrite: staff, or the advertiser that owns it.
MayTouch(by, c) ==
    \/ by.role \in {"ADMIN", "SUPER_ADMIN"}
    \/ by.role \in StaffRoles /\ by.op = "campaign"
    \/ by.role = "ADVERTISER" /\ CampaignOwner[c] = by.user

CheckOwner(r) ==
    /\ req[r].pc = "found" /\ CampaignCall(r)
    /\ IF MayTouch(req[r].by, kept[r]) THEN Reply(r) ELSE Refuse(r, "forbidden")
    /\ UNCHANGED advertiserVars

\* The listing and its count: staff choose between all campaigns and their own,
\* anyone else has the own ones; only the listing refuses a user without a
\* profile.
ListCampaigns(r, my) ==
    /\ req[r].pc = "call" /\ req[r].by.op \in CampaignLists
    /\ LET by == req[r].by
           own == {c \in DOMAIN CampaignOwner : CampaignOwner[c] = by.user}
       IN  \/ /\ by.role \in StaffRoles /\ ~my
              /\ Go(r, "reply", DOMAIN CampaignOwner)
           \/ /\ by.role \notin StaffRoles \/ my
              /\ \/ Go(r, "reply", own)
                 \/ own = {} /\ by.op = "campaigns" /\ Refuse(r, "forbidden")
    /\ UNCHANGED advertiserVars

ServeAdvertisers(r) ==
    \/ \E manager \in Users \cup {Nobody} :
         CreateAdvertiser(r, manager) \/ UpdateAdvertiser(r, manager)
    \/ \E a \in AdvertiserIds : FindAdvertiser(r, a) \/ SoftDelete(r, a)
    \/ ListPage(r)
    \/ \E c \in DOMAIN CampaignOwner \cup {Nobody} : FindCampaign(r, c)
    \/ CheckOwner(r)
    \/ \E my \in BOOLEAN : ListCampaigns(r, my)
===============================================================================
