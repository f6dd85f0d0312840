------------------------------ MODULE Campaigns ------------------------------
(***************************************************************************)
(* The Campaign and CampaignCap tables and the four mutations of           *)
(* CampaignsService that write them.  A table is a function whose domain   *)
(* is the set of stored keys.                                              *)
(*                                                                         *)
(* Abstracted: the descriptive columns, payouts, remarks and the start     *)
(* date (no decision reads a stored one; the create resolver wants it      *)
(* before the end date); the slug, which is unique and stands for the id;  *)
(* who may call a mutation.                                                *)
(***************************************************************************)
EXTENDS Naturals, Sequences

CONSTANTS
    CampaignIds,    \* primary keys a campaign may be created under
    Admins,         \* concurrent callers of toggleCampaignStatus
    InputStatuses,  \* the statuses the create and update inputs offer here
    Dates,          \* the end dates the inputs offer here
    CapPlans        \* the "caps" arrays the create input offers here

CampaignStatuses ==
    {"DRAFT", "PENDING_APPROVAL", "ACTIVE", "PAUSED", "REJECTED", "EXPIRED"}
CapTypes == {"DAILY", "WEEKLY", "MONTHLY", "TOTAL"}
CapInputs == [capType : CapTypes, capLimit : Nat]

ASSUME CampaignAssumption ==
    /\ InputStatuses \subseteq CampaignStatuses
    /\ Dates \subseteq Nat
    /\ CapPlans \subseteq Seq(CapInputs)

VARIABLES
    campaign,   \* the Campaign table
    caps,       \* for each campaign, its CampaignCap rows
    toggling    \* toggles that have read a status and not yet written one

campaignVars == <<campaign, caps, toggling>>

CampaignRows ==
    [status : CampaignStatuses, endDate : Dates, deleted : BOOLEAN]
CapRows == [capType : CapTypes, capLimit : Nat, currentCount : Nat]
Toggles ==
    [by : Admins, id : CampaignIds, next : {"ACTIVE", "PAUSED"}]

CampaignTypeOK ==
    /\ DOMAIN campaign \subseteq CampaignIds
    /\ campaign \in [DOMAIN campaign -> CampaignRows]
    /\ caps \in [DOMAIN campaign -> Seq(CapRows)]
    /\ toggling \subseteq Toggles

CampaignInit ==
    /\ campaign = << >>
    /\ caps = << >>
    /\ toggling = {}

-----------------------------------------------------------------------------
Insert(table, key, row) ==
    [k \in DOMAIN table \cup {key} |-> IF k = key THEN row ELSE table[k]]

NewCap(c) ==
    [capType |-> c.capType, capLimit |-> c.capLimit, currentCount |-> 0]

\* createCampaign: the row and its caps are inserted in one transaction.
CreateCampaign(id, status, endDate, plan) ==
    /\ id \notin DOMAIN campaign
    /\ campaign' = Insert(campaign, id,
         [status |-> status, endDate |-> endDate, deleted |-> FALSE])
    /\ caps' = Insert(caps, id, [i \in DOMAIN plan |-> NewCap(plan[i])])
    /\ UNCHANGED toggling

\* Faulty variant: an update replaces the caps by the ones it was sent, none.
UpdateCampaignReplacingCaps(id, status, endDate) ==
    /\ id \in DOMAIN campaign
    /\ campaign' = [campaign EXCEPT ![id].status = status,
                                    ![id].endDate = endDate]
    /\ caps' = [caps EXCEPT ![id] = << >>]
    /\ UNCHANGED toggling

\* updateCampaign: a field left out of the input keeps its value; caps sent
\* with an update are dropped.
UpdateCampaign(id, status, endDate) ==
    /\ id \in DOMAIN campaign
    /\ campaign' = [campaign EXCEPT ![id].status = status,
                                    ![id].endDate = endDate]
    /\ UNCHANGED <<caps, toggling>>

\* toggleStatus, first round trip: read the status and decide the next one.
ReadStatus(a, id) ==
    /\ id \in DOMAIN campaign
    /\ \A t \in toggling : t.by # a
    /\ toggling' = toggling \cup
         {[by |-> a, id |-> id,
           next |-> IF campaign[id].status = "ACTIVE" THEN "PAUSED"
                                                      ELSE "ACTIVE"]}
    /\ UNCHANGED <<campaign, caps>>

\* toggleStatus, second round trip: write what was decided.
WriteStatus(t) ==
    /\ campaign' = [campaign EXCEPT ![t.id].status = t.next]
    /\ toggling' = toggling \ {t}
    /\ UNCHANGED caps

\* Faulty variant: a status of its own, that the enum does not have.
SoftDeleteAsDeleted(id) ==
    /\ id \in DOMAIN campaign
    /\ campaign' = [campaign EXCEPT ![id].status = "DELETED",
                                    ![id].deleted = TRUE]
    /\ UNCHANGED <<caps, toggling>>

SoftDelete(id) ==
    /\ id \in DOMAIN campaign
    /\ campaign' = [campaign EXCEPT ![id].status = "EXPIRED",
                                    ![id].deleted = TRUE]
    /\ UNCHANGED <<caps, toggling>>

CampaignNext ==
    \/ \E id \in CampaignIds, status \in InputStatuses,
          endDate \in Dates, plan \in CapPlans :
            CreateCampaign(id, status, endDate, plan)
    \/ \E id \in DOMAIN campaign :
         \E status \in InputStatuses \cup {campaign[id].status},
            endDate \in Dates \cup {campaign[id].endDate} :
              UpdateCampaign(id, status, endDate)
    \/ \E a \in Admins, id \in CampaignIds : ReadStatus(a, id)
    \/ \E t \in toggling : WriteStatus(t)
    \/ \E id \in CampaignIds : SoftDelete(id)

\* What a restart of the server loses: the toggles it was serving.
CampaignCrash == toggling' = {} /\ UNCHANGED <<campaign, caps>>
==============================================================================
