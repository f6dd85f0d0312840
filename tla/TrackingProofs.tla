---------------------------- MODULE TrackingProofs ----------------------------
(***************************************************************************)
(* Proofs about Tracking, for every value of its constants.                *)
(***************************************************************************)
EXTENDS Tracking, FiniteSetTheorems, TLAPS

\* The caps a campaign is created with are well-formed rows.
LEMMA NewCapsType ==
    ASSUME NEW plan \in Seq(CapInputs)
    PROVE  [i \in DOMAIN plan |-> NewCap(plan[i])] \in Seq(CapRows)
<1>1. DOMAIN plan = 1..Len(plan) /\ Len(plan) \in Nat
  OBVIOUS
<1>2. ASSUME NEW c \in CapInputs
      PROVE  NewCap(c) \in CapRows
  BY DEF CapInputs, CapRows, NewCap
<1>3. \A i \in 1..Len(plan) : plan[i] \in CapInputs
  OBVIOUS
<1> QED BY <1>1, <1>2, <1>3

LEMMA CampaignTypeInductive ==
    ASSUME TypeOK, [CampaignNext]_campaignVars
    PROVE  CampaignTypeOK'
<1> USE DEF TypeOK, CampaignTypeOK, CampaignRows, Toggles
<1>1. ASSUME NEW id \in CampaignIds, NEW status \in InputStatuses,
             NEW endDate \in Dates, NEW plan \in CapPlans,
             CreateCampaign(id, status, endDate, plan)
      PROVE  CampaignTypeOK'
  <2>1. DOMAIN campaign' = DOMAIN campaign \cup {id}
    BY <1>1 DEF CreateCampaign, Insert
  <2>2. campaign' \in [DOMAIN campaign' -> CampaignRows]
    BY <1>1, <2>1, CampaignAssumption DEF CreateCampaign, Insert
  <2>3. [i \in DOMAIN plan |-> NewCap(plan[i])] \in Seq(CapRows)
    BY NewCapsType, CampaignAssumption
  <2>4. caps' \in [DOMAIN campaign' -> Seq(CapRows)]
    BY <1>1, <2>1, <2>3 DEF CreateCampaign, Insert
  <2> QED BY <1>1, <2>1, <2>2, <2>4 DEF CreateCampaign
<1>2. ASSUME NEW id \in DOMAIN campaign,
             NEW status \in InputStatuses \cup {campaign[id].status},
             NEW endDate \in Dates \cup {campaign[id].endDate},
             UpdateCampaign(id, status, endDate)
      PROVE  CampaignTypeOK'
  BY <1>2, CampaignAssumption DEF UpdateCampaign
<1>3. ASSUME NEW a \in Admins, NEW id \in CampaignIds, ReadStatus(a, id)
      PROVE  CampaignTypeOK'
  BY <1>3 DEF ReadStatus
<1>4. ASSUME NEW t \in toggling, WriteStatus(t)
      PROVE  CampaignTypeOK'
  BY <1>4 DEF WriteStatus, CampaignStatuses
<1>5. ASSUME NEW id \in CampaignIds, SoftDelete(id)
      PROVE  CampaignTypeOK'
  BY <1>5 DEF SoftDelete, CampaignStatuses
<1>6. CASE UNCHANGED campaignVars
  BY <1>6 DEF campaignVars
<1> QED BY <1>1, <1>2, <1>3, <1>4, <1>5, <1>6 DEF CampaignNext

LEMMA ClickTypeInductive ==
    ASSUME TypeOK, [ClickNext]_clickVars
    PROVE  ClickTypeOK'
<1> USE DEF TypeOK, CampaignTypeOK, ClickTypeOK, ClickRows, ClickStates
<1>1. ASSUME NEW r \in ClickReqs, NEW id \in CampaignIds, NEW ip \in IPs,
             ReadCampaign(r, id, ip)
      PROVE  ClickTypeOK'
  <2>1. IsCapBlocked(caps[id]) \in BOOLEAN
    BY DEF IsCapBlocked
  <2> QED BY <1>1, <2>1 DEF ReadCampaign
<1>2. ASSUME NEW r \in ClickReqs, CheckUnique(r)
      PROVE  ClickTypeOK'
  <2>1. clickReq[r] \in [pc : {"check"}, campaignId : CampaignIds, ip : IPs,
                         capBlocked : BOOLEAN]
    BY <1>2 DEF CheckUnique
  <2> QED BY <1>2, <2>1 DEF CheckUnique
<1>3. ASSUME NEW r \in ClickReqs, CreateClick(r)
      PROVE  ClickTypeOK'
  <2>1. clickReq[r] \in [pc : {"create"}, campaignId : CampaignIds, ip : IPs,
                         capBlocked : BOOLEAN, isUnique : BOOLEAN]
    BY <1>3 DEF CreateClick
  <2> QED BY <1>3, <2>1 DEF CreateClick
<1>4. ASSUME NEW r \in ClickReqs, ClickFails(r)
      PROVE  ClickTypeOK'
  BY <1>4 DEF ClickFails
<1>5. CASE Tick
  BY <1>5 DEF Tick
<1>6. CASE UNCHANGED clickVars
  BY <1>6 DEF clickVars
<1> QED BY <1>1, <1>2, <1>3, <1>4, <1>5, <1>6 DEF ClickNext

\* Counting a conversion keeps the cap rows well formed.
LEMMA CountConversionType ==
    ASSUME TypeOK, NEW id \in CampaignIds, CountConversion(id)
    PROVE  caps' \in [DOMAIN campaign -> Seq(CapRows)]
<1> DEFINE Counted(cap) == IF cap.capType = "TOTAL" THEN cap
                           ELSE [cap EXCEPT !.currentCount = @ + 1]
<1>1. ASSUME NEW cap \in CapRows
      PROVE  Counted(cap) \in CapRows
  BY DEF CapRows
<1>2. ASSUME NEW rows \in Seq(CapRows)
      PROVE  [i \in DOMAIN rows |-> Counted(rows[i])] \in Seq(CapRows)
  <2>1. DOMAIN rows = 1..Len(rows) /\ Len(rows) \in Nat
    OBVIOUS
  <2>2. \A i \in 1..Len(rows) : rows[i] \in CapRows
    OBVIOUS
  <2> QED BY <1>1, <2>1, <2>2
<1>3. caps \in [DOMAIN campaign -> Seq(CapRows)]
  BY DEF TypeOK, CampaignTypeOK
<1>4. caps' = [caps EXCEPT ![id] =
                 [i \in DOMAIN caps[id] |-> Counted(caps[id][i])]]
  BY DEF CountConversion
<1> HIDE DEF Counted
<1> QED BY <1>2, <1>3, <1>4

LEMMA PostbackTypeInductive ==
    ASSUME TypeOK, PostbackNext, UNCHANGED <<campaign, toggling>>
    PROVE  CampaignTypeOK' /\ PostbackTypeOK'
<1> USE DEF TypeOK, CampaignTypeOK, PostbackTypeOK, PostbackStates, stored
<1>1. ASSUME NEW p \in PostReqs, NEW signed \in BOOLEAN,
             NEW txn \in TxnIds \cup {Absent},
             NEW clickId \in ClickReqs \cup {Absent},
             RejectMessage(p, signed, txn, clickId)
      PROVE  CampaignTypeOK' /\ PostbackTypeOK'
  BY <1>1 DEF RejectMessage, Refuse, Refusals
<1>2. ASSUME NEW p \in PostReqs, NEW m \in Messages, ReadClick(p, m)
      PROVE  CampaignTypeOK' /\ PostbackTypeOK'
  <2>1. \/ postReq' = [postReq EXCEPT ![p] = [pc |-> "find", msg |-> m]]
        \/ \E reason \in Refusals : Refuse(p, reason)
    BY <1>2 DEF ReadClick, Refusals
  <2>2. UNCHANGED stored
    BY <1>2 DEF ReadClick
  <2> QED BY <2>1, <2>2 DEF Refuse
<1>3. ASSUME NEW p \in PostReqs, FindExisting(p)
      PROVE  CampaignTypeOK' /\ PostbackTypeOK'
  <2>1. postReq[p] \in [pc : {"find", "create"}, msg : Messages]
    BY <1>3 DEF FindExisting
  <2>2. \/ postReq' = [postReq EXCEPT ![p].pc = "create"]
        \/ \E id \in PostReqs : Answer(p, "ok", id)
    BY <1>3 DEF FindExisting, ConversionOf, ConversionRows
  <2>3. UNCHANGED stored
    BY <1>3 DEF FindExisting
  <2> QED BY <2>1, <2>2, <2>3 DEF Answer
<1>4. ASSUME NEW p \in PostReqs, CommitConversion(p)
      PROVE  CampaignTypeOK' /\ PostbackTypeOK'
  <2>1. postReq[p] \in [pc : {"find", "create"}, msg : Messages]
    BY <1>4 DEF CommitConversion
  <2>2. postReq[p].msg.campaignId \in CampaignIds
    BY <2>1 DEF Messages
  <2>3. caps' \in [DOMAIN campaign -> Seq(CapRows)]
    BY <1>4, <2>2, CountConversionType DEF CommitConversion
  <2>4. conversions' \subseteq ConversionRows /\ postbackLog' \subseteq LogRows
    BY <1>4, <2>1 DEF CommitConversion, Messages, ConversionRows, LogRows
  <2>5. postReq' \in [PostReqs -> PostbackStates]
    BY <1>4, <2>1 DEF CommitConversion, Answer
  <2> QED BY <2>3, <2>4, <2>5
<1>5. ASSUME NEW p \in PostReqs, ConflictOnTransactionId(p)
      PROVE  CampaignTypeOK' /\ PostbackTypeOK'
  BY <1>5 DEF ConflictOnTransactionId
<1>6. ASSUME NEW p \in PostReqs, SendReply(p)
      PROVE  CampaignTypeOK' /\ PostbackTypeOK'
  <2>1. postReq[p] \in [pc : {"reply", "ok"}, msg : Messages,
                        conversionId : PostReqs]
    BY <1>6 DEF SendReply
  <2> QED BY <1>6, <2>1 DEF SendReply, Answer
<1>7. ASSUME NEW p \in PostReqs, PostbackFails(p)
      PROVE  CampaignTypeOK' /\ PostbackTypeOK'
  BY <1>7 DEF PostbackFails
<1> QED BY <1>1, <1>2, <1>3, <1>4, <1>5, <1>6, <1>7
        DEF PostbackNext, ServePostback

\* Every variable keeps its type, in particular every cap row and every
\* request in flight, through every interleaving and restart.
THEOREM TypeCorrect == Spec => []TypeOK
<1>1. Init => TypeOK
  BY DEF Init, CampaignInit, ClickInit, PostbackInit, TypeOK, CampaignTypeOK,
         ClickTypeOK, PostbackTypeOK, ClickStates, PostbackStates
<1>2. TypeOK /\ [Next]_vars => TypeOK'
  <2> SUFFICES ASSUME TypeOK, [Next]_vars PROVE TypeOK'
    OBVIOUS
  <2>1. CASE CampaignNext /\ UNCHANGED <<clickVars, postbackVars>>
    BY <2>1, CampaignTypeInductive
       DEF TypeOK, ClickTypeOK, PostbackTypeOK, clickVars, postbackVars
  <2>2. CASE ClickNext /\ UNCHANGED <<campaignVars, postbackVars>>
    BY <2>2, ClickTypeInductive
       DEF TypeOK, CampaignTypeOK, PostbackTypeOK, campaignVars, postbackVars
  <2>3. CASE PostbackNext /\ UNCHANGED <<campaign, toggling, clickVars>>
    BY <2>3, PostbackTypeInductive DEF TypeOK, ClickTypeOK, clickVars
  <2>4. CASE Crash
    <3>1. CampaignTypeOK'
      BY <2>4 DEF Crash, CampaignCrash, TypeOK, CampaignTypeOK
    <3>2. ClickTypeOK'
      BY <2>4 DEF Crash, ClickCrash, TypeOK, ClickTypeOK, ClickStates
    <3>3. PostbackTypeOK'
      <4>1. ASSUME NEW p \in PostReqs
            PROVE  postReq'[p] \in PostbackStates
        BY <2>4 DEF Crash, PostbackCrash, TypeOK, PostbackTypeOK, PostbackStates
      <4>2. postReq' = [p \in PostReqs |-> postReq'[p]]
        BY <2>4 DEF Crash, PostbackCrash
      <4>3. postReq' \in [PostReqs -> PostbackStates]
        BY <4>1, <4>2
      <4>4. UNCHANGED <<conversions, postbackLog>>
        BY <2>4 DEF Crash, PostbackCrash, stored
      <4> QED BY <4>3, <4>4 DEF TypeOK, PostbackTypeOK
    <3> QED BY <3>1, <3>2, <3>3 DEF TypeOK
  <2>5. CASE UNCHANGED vars
    BY <2>5 DEF vars, campaignVars, clickVars, postbackVars, TypeOK,
                CampaignTypeOK, ClickTypeOK, PostbackTypeOK
  <2> QED BY <2>1, <2>2, <2>3, <2>4, <2>5 DEF Next
<1> QED BY <1>1, <1>2, PTL DEF Spec

-----------------------------------------------------------------------------
LEMMA CapsStepHolds ==
    ASSUME TypeOK, [Next]_vars
    PROVE  CapsStep
<1> USE DEF CapsStep
<1>0. DOMAIN caps = DOMAIN campaign
  BY DEF TypeOK, CampaignTypeOK
<1>1. ASSUME NEW id \in CampaignIds, NEW status \in InputStatuses,
             NEW endDate \in Dates, NEW plan \in CapPlans,
             CreateCampaign(id, status, endDate, plan)
      PROVE  CapsStep
  BY <1>0, <1>1 DEF CreateCampaign, Insert
<1>2. ASSUME NEW p \in PostReqs, CommitConversion(p)
      PROVE  CapsStep
  <2> DEFINE Counted(cap) == IF cap.capType = "TOTAL" THEN cap
                             ELSE [cap EXCEPT !.currentCount = @ + 1]
             m == postReq[p].msg
             new == [id |-> p, campaignId |-> m.campaignId,
                     clickId |-> m.clickId, txn |-> m.txn]
  <2>1. new \notin conversions /\ conversions' = conversions \cup {new}
    BY <1>2 DEF CommitConversion, ConversionOf
  <2>2. caps' = [caps EXCEPT ![m.campaignId] =
                   [i \in DOMAIN caps[m.campaignId] |->
                      Counted(caps[m.campaignId][i])]]
    BY <1>2 DEF CommitConversion, CountConversion
  <2>3. ASSUME NEW id \in DOMAIN caps, id = m.campaignId,
               NEW i \in DOMAIN caps[id]
        PROVE  /\ Counted(caps[id][i]).capType = caps[id][i].capType
               /\ Counted(caps[id][i]).capLimit = caps[id][i].capLimit
    <3>1. caps[id][i] \in CapRows
      BY <1>0 DEF TypeOK, CampaignTypeOK
    <3> QED BY <3>1 DEF CapRows
  <2> HIDE DEF Counted
  <2> QED BY <2>1, <2>2, <2>3
<1>3. CASE UNCHANGED caps
  BY <1>3
<1> QED
  BY <1>1, <1>2, <1>3
     DEF Next, CampaignNext, ClickNext, PostbackNext, ServePostback, Crash,
         CampaignCrash, UpdateCampaign, ReadStatus, WriteStatus, SoftDelete,
         RejectMessage, ReadClick, FindExisting, ConflictOnTransactionId,
         SendReply, PostbackFails, stored, vars, campaignVars

\* The caps a campaign was created with keep their types and limits for ever,
\* and nothing but a stored conversion moves their counters: the update
\* mutation drops the caps it is sent, and no other statement writes them.
THEOREM CapsFixed == Spec => CapsOnlyCountConversions
<1>1. TypeOK /\ [Next]_vars => [CapsStep]_vars
  BY CapsStepHolds
<1> QED BY <1>1, TypeCorrect, PTL DEF Spec, CapsOnlyCountConversions

LEMMA BlockingIsStable ==
    ASSUME CapsStep, NEW id \in DOMAIN caps
    PROVE  id \in DOMAIN caps' /\ (IsCapBlocked(caps'[id]) <=> IsCapBlocked(caps[id]))
BY DEF CapsStep, IsCapBlocked

-----------------------------------------------------------------------------
(***************************************************************************)
(* The inductive invariant behind the facts a request carries: what it     *)
(* has read, what the rows it wrote say, and that a conversion row is      *)
(* attributed to a click that may convert.                                 *)
(***************************************************************************)
Carried == InFlightFactsHold /\ BlockFlagMatchesCaps /\ ConversionMatchesClick

LEMMA CarriedByClickStep ==
    ASSUME TypeOK, Carried, ClickNext, UNCHANGED <<campaignVars, postbackVars>>
    PROVE  Carried'
<1> USE DEF Carried, InFlightFactsHold, BlockFlagMatchesCaps,
            ConversionMatchesClick, campaignVars, postbackVars
<1>0. /\ DOMAIN caps = DOMAIN campaign
      /\ clickReq \in [ClickReqs -> ClickStates]
  BY DEF TypeOK, CampaignTypeOK, ClickTypeOK
<1>1. ASSUME NEW r \in ClickReqs, NEW id \in CampaignIds, NEW ip \in IPs,
             ReadCampaign(r, id, ip)
      PROVE  Carried'
  BY <1>0, <1>1 DEF ReadCampaign, AcceptsTraffic
<1>2. ASSUME NEW r \in ClickReqs, CheckUnique(r)
      PROVE  Carried'
  BY <1>0, <1>2 DEF CheckUnique
<1>3. ASSUME NEW r \in ClickReqs, CreateClick(r)
      PROVE  Carried'
  BY <1>0, <1>3 DEF CreateClick
<1>4. ASSUME NEW r \in ClickReqs, ClickFails(r)
      PROVE  Carried'
  BY <1>0, <1>4 DEF ClickFails
<1>5. CASE Tick
  BY <1>5 DEF Tick
<1> QED BY <1>1, <1>2, <1>3, <1>4, <1>5 DEF ClickNext

LEMMA CarriedByCapsStep ==
    ASSUME TypeOK, Carried, CapsStep, UNCHANGED <<clickVars, postbackVars>>
    PROVE  Carried'
BY BlockingIsStable
   DEF Carried, InFlightFactsHold, BlockFlagMatchesCaps, ConversionMatchesClick,
       clickVars, postbackVars

\* A stored click that lets a message convert.
Judged(m) == \E c \in clicks : /\ c.clickId = m.clickId
                               /\ c.campaignId = m.campaignId
                               /\ ~c.capBlocked

LEMMA JudgedByPostbackStep ==
    ASSUME TypeOK, Carried, PostbackNext, UNCHANGED clickVars,
           NEW q \in PostReqs, postReq'[q].pc \in {"find", "create"}
    PROVE  Judged(postReq'[q].msg)
<1>1. /\ postReq \in [PostReqs -> PostbackStates]
      /\ \A p \in PostReqs : postReq[p].pc \in {"find", "create"}
                               => Judged(postReq[p].msg)
  BY DEF TypeOK, PostbackTypeOK, Carried, InFlightFactsHold, Judged
<1>2. ASSUME NEW p \in PostReqs, NEW m \in Messages, ReadClick(p, m)
      PROVE  Judged(postReq'[q].msg)
  <2>1. \/ Judged(m) /\ postReq' = [postReq EXCEPT ![p] = [pc |-> "find", msg |-> m]]
        \/ \E reason \in Refusals : Refuse(p, reason)
    BY <1>2 DEF ReadClick, ClickOf, Refusals, Judged
  <2> QED BY <1>1, <2>1 DEF Refuse
<1>3. ASSUME NEW p \in PostReqs, FindExisting(p)
      PROVE  Judged(postReq'[q].msg)
  <2>1. \/ postReq' = [postReq EXCEPT ![p].pc = "create"]
        \/ \E id : Answer(p, "ok", id)
    BY <1>3 DEF FindExisting
  <2>2. postReq[p] \in [pc : {"find"}, msg : Messages]
    BY <1>1, <1>3 DEF FindExisting, PostbackStates
  <2>3. Judged(postReq[p].msg)
    BY <1>1, <2>2
  <2>4. CASE q = p
    BY <1>1, <2>1, <2>2, <2>3, <2>4 DEF Answer
  <2>5. CASE q # p
    BY <1>1, <2>1, <2>5 DEF Answer
  <2> QED BY <2>4, <2>5
<1>4. ASSUME NEW p \in PostReqs,
             \/ CommitConversion(p) \/ SendReply(p)
      PROVE  Judged(postReq'[q].msg)
  BY <1>1, <1>4 DEF CommitConversion, SendReply, Answer
<1>5. ASSUME NEW p \in PostReqs,
             ConflictOnTransactionId(p) \/ PostbackFails(p)
      PROVE  Judged(postReq'[q].msg)
  BY <1>1, <1>5 DEF ConflictOnTransactionId, PostbackFails
<1>6. ASSUME NEW p \in PostReqs, NEW signed \in BOOLEAN,
             NEW txn \in TxnIds \cup {Absent},
             NEW clickId \in ClickReqs \cup {Absent},
             RejectMessage(p, signed, txn, clickId)
      PROVE  Judged(postReq'[q].msg)
  BY <1>1, <1>6 DEF RejectMessage, Refuse
<1> QED BY <1>2, <1>3, <1>4, <1>5, <1>6 DEF PostbackNext, ServePostback

LEMMA CarriedByPostbackStep ==
    ASSUME TypeOK, Carried, CapsStep, PostbackNext, UNCHANGED clickVars
    PROVE  Carried'
<1>1. clicks' = clicks /\ clickReq' = clickReq
  BY DEF clickVars
<1>2. BlockFlagMatchesCaps'
  BY <1>1, BlockingIsStable DEF Carried, BlockFlagMatchesCaps
<1>3. InFlightFactsHold'
  BY <1>1, BlockingIsStable, JudgedByPostbackStep
     DEF Carried, InFlightFactsHold, Judged
<1>4. ConversionMatchesClick'
  <2>1. ASSUME NEW p \in PostReqs, CommitConversion(p)
        PROVE  ConversionMatchesClick'
    BY <1>1, <2>1
       DEF CommitConversion, Carried, InFlightFactsHold, ConversionMatchesClick
  <2>2. CASE UNCHANGED conversions
    BY <1>1, <2>2 DEF Carried, ConversionMatchesClick
  <2> QED
    BY <2>1, <2>2
       DEF PostbackNext, ServePostback, RejectMessage, ReadClick, FindExisting,
           ConflictOnTransactionId, SendReply, PostbackFails, stored
<1> QED BY <1>2, <1>3, <1>4 DEF Carried

LEMMA CarriedInvariant == Spec => []Carried
<1>1. Init => Carried
  BY DEF Init, CampaignInit, ClickInit, PostbackInit, Carried,
         InFlightFactsHold, BlockFlagMatchesCaps, ConversionMatchesClick
<1>2. TypeOK /\ Carried /\ [Next]_vars => Carried'
  <2> SUFFICES ASSUME TypeOK, Carried, [Next]_vars PROVE Carried'
    OBVIOUS
  <2>0. CapsStep
    BY CapsStepHolds
  <2>1. CASE CampaignNext /\ UNCHANGED <<clickVars, postbackVars>>
    BY <2>0, <2>1, CarriedByCapsStep
  <2>2. CASE ClickNext /\ UNCHANGED <<campaignVars, postbackVars>>
    BY <2>2, CarriedByClickStep
  <2>3. CASE PostbackNext /\ UNCHANGED <<campaign, toggling, clickVars>>
    BY <2>0, <2>3, CarriedByPostbackStep
  <2>4. CASE Crash
    BY <2>4 DEF Crash, CampaignCrash, ClickCrash, PostbackCrash, stored,
                Carried, InFlightFactsHold, BlockFlagMatchesCaps,
                ConversionMatchesClick
  <2>5. CASE UNCHANGED vars
    BY <2>0, <2>5, CarriedByCapsStep DEF vars
  <2> QED BY <2>1, <2>2, <2>3, <2>4, <2>5 DEF Next
<1> QED BY <1>1, <1>2, TypeCorrect, PTL DEF Spec

\* A redirect or a postback never acts on something it read that has stopped
\* being true in between: there is no lock, but nothing it relies on changes.
THEOREM FactsStayTrue == Spec => []InFlightFactsHold
BY CarriedInvariant, PTL DEF Carried

\* The flag on a stored click says what the caps of its campaign say.
THEOREM BlockFlagTrue == Spec => []BlockFlagMatchesCaps
BY CarriedInvariant, PTL DEF Carried

\* Every stored conversion is attributed to a stored, unblocked click of its
\* own campaign.
THEOREM Attribution == Spec => []ConversionMatchesClick
BY CarriedInvariant, PTL DEF Carried

\* A campaign that was created closed by a cap has no conversion, although no
\* postback reads a cap: the flag of its clicks is enough.
THEOREM ClosedNeverConverts == Spec => []ClosedCampaignNeverConverts
<1>1. Carried => ClosedCampaignNeverConverts
  BY DEF Carried, BlockFlagMatchesCaps, ConversionMatchesClick,
         ClosedCampaignNeverConverts, ConversionsOf
<1> QED BY <1>1, CarriedInvariant, PTL

-----------------------------------------------------------------------------
(***************************************************************************)
(* The ledger part: a conversion id belongs to the postback that drew it,  *)
(* which is past its insert for good, so the next insert is under a new    *)
(* id and adds one to the count of its campaign.                           *)
(***************************************************************************)
InserterIsPastInsert ==
    \A v \in conversions :
        postReq[v.id].pc \in {"reply", "ok", "error", "lost"}

Booked ==
    /\ InserterIsPastInsert
    /\ OneConversionPerTxn
    /\ AckedConversionIsStored
    /\ IsFiniteSet(conversions)

LEMMA BookedByCommit ==
    ASSUME TypeOK, Booked, NEW p \in PostReqs, CommitConversion(p)
    PROVE  Booked'
<1> DEFINE m == postReq[p].msg
           new == [id |-> p, campaignId |-> m.campaignId,
                   clickId |-> m.clickId, txn |-> m.txn]
<1>1. /\ postReq[p] \in [pc : {"create"}, msg : Messages]
      /\ postReq \in [PostReqs -> PostbackStates]
      /\ conversions \subseteq ConversionRows
  BY DEF TypeOK, PostbackTypeOK, PostbackStates, CommitConversion
<1>2. /\ conversions' = conversions \cup {new}
      /\ \A v \in conversions : v.txn # m.txn
      /\ postReq' = [postReq EXCEPT ![p] =
                        [pc |-> "reply", msg |-> m, conversionId |-> p]]
  BY DEF CommitConversion, ConversionOf, Answer
<1>3. InserterIsPastInsert'
  BY <1>1, <1>2 DEF Booked, InserterIsPastInsert, ConversionRows
<1>4. OneConversionPerTxn'
  BY <1>2 DEF Booked, OneConversionPerTxn
<1>5. AckedConversionIsStored'
  <2> SUFFICES ASSUME NEW q \in PostReqs, postReq'[q].pc \in {"reply", "ok"}
               PROVE  \E v \in conversions' : /\ v.id = postReq'[q].conversionId
                                              /\ v.txn = postReq'[q].msg.txn
    BY DEF AckedConversionIsStored
  <2>1. CASE q = p
    <3>1. postReq'[q].conversionId = p /\ postReq'[q].msg = m
      BY <1>1, <1>2, <2>1
    <3>2. new \in conversions' /\ new.id = p /\ new.txn = m.txn
      BY <1>2
    <3> QED BY <3>1, <3>2
  <2>2. CASE q # p
    <3>1. postReq'[q] = postReq[q]
      BY <1>1, <1>2, <2>2
    <3> QED BY <1>2, <3>1 DEF Booked, AckedConversionIsStored
  <2> QED BY <2>1, <2>2
<1>6. IsFiniteSet(conversions)'
  BY <1>2, FS_AddElement DEF Booked
<1> QED BY <1>3, <1>4, <1>5, <1>6 DEF Booked

LEMMA BookedByOtherStep ==
    ASSUME TypeOK, Booked, UNCHANGED conversions, NEW p \in PostReqs,
           \/ \E m \in Messages : ReadClick(p, m)
           \/ \E signed \in BOOLEAN, txn \in TxnIds \cup {Absent},
                 clickId \in ClickReqs \cup {Absent} :
                   RejectMessage(p, signed, txn, clickId)
           \/ ConflictOnTransactionId(p)
           \/ PostbackFails(p)
           \/ FindExisting(p)
           \/ SendReply(p)
    PROVE  Booked'
<1>1. /\ postReq \in [PostReqs -> PostbackStates]
      /\ conversions \subseteq ConversionRows
  BY DEF TypeOK, PostbackTypeOK
<1> USE DEF Booked, InserterIsPastInsert, OneConversionPerTxn,
            AckedConversionIsStored, ConversionRows
<1>2. CASE \E m \in Messages : ReadClick(p, m)
  <2>1. /\ postReq[p].pc = "new"
        /\ \/ \E m \in Messages :
                postReq' = [postReq EXCEPT ![p] = [pc |-> "find", msg |-> m]]
           \/ \E reason \in Refusals : Refuse(p, reason)
    BY <1>2 DEF ReadClick, Refusals
  <2> QED BY <1>1, <2>1 DEF Refuse
<1>3. CASE \E signed \in BOOLEAN, txn \in TxnIds \cup {Absent},
             clickId \in ClickReqs \cup {Absent} :
               RejectMessage(p, signed, txn, clickId)
  <2>1. postReq[p].pc = "new" /\ \E reason \in Refusals : Refuse(p, reason)
    BY <1>3 DEF RejectMessage, Refusals
  <2> QED BY <1>1, <2>1 DEF Refuse
<1>4. CASE ConflictOnTransactionId(p) \/ PostbackFails(p)
  BY <1>1, <1>4 DEF ConflictOnTransactionId, PostbackFails
<1>5. CASE FindExisting(p)
  <2>1. postReq[p] \in [pc : {"find"}, msg : Messages]
    BY <1>1, <1>5 DEF FindExisting, PostbackStates
  <2>2. CASE postReq' = [postReq EXCEPT ![p].pc = "create"]
    BY <1>1, <2>1, <2>2
  <2>3. CASE \E c \in ConversionOf(postReq[p].msg.txn) : Answer(p, "ok", c.id)
    BY <1>1, <2>1, <2>3 DEF Answer, ConversionOf
  <2> QED BY <1>5, <2>2, <2>3 DEF FindExisting
<1>6. CASE SendReply(p)
  BY <1>1, <1>6 DEF SendReply, Answer
<1> QED BY <1>2, <1>3, <1>4, <1>5, <1>6

LEMMA BookedInvariant == Spec => []Booked
<1>1. Init => Booked
  BY FS_EmptySet
     DEF Init, PostbackInit, Booked, InserterIsPastInsert, OneConversionPerTxn,
         AckedConversionIsStored
<1>2. TypeOK /\ Booked /\ [Next]_vars => Booked'
  <2> SUFFICES ASSUME TypeOK, Booked, [Next]_vars PROVE Booked'
    OBVIOUS
  <2>1. CASE PostbackNext
    <3>1. ASSUME NEW p \in PostReqs, CommitConversion(p)
          PROVE  Booked'
      BY <3>1, BookedByCommit
    <3>2. ASSUME NEW p \in PostReqs,
                 \/ \E m \in Messages : ReadClick(p, m)
                 \/ \E signed \in BOOLEAN, txn \in TxnIds \cup {Absent},
                       clickId \in ClickReqs \cup {Absent} :
                         RejectMessage(p, signed, txn, clickId)
                 \/ ConflictOnTransactionId(p)
                 \/ PostbackFails(p)
                 \/ FindExisting(p)
                 \/ SendReply(p)
          PROVE  Booked'
      <4>1. UNCHANGED conversions
        BY <3>2 DEF ReadClick, RejectMessage, ConflictOnTransactionId,
                    PostbackFails, FindExisting, SendReply, stored
      <4> QED BY <3>2, <4>1, BookedByOtherStep
    <3> QED BY <2>1, <3>1, <3>2 DEF PostbackNext, ServePostback
  <2>2. CASE UNCHANGED postbackVars
    BY <2>2 DEF postbackVars, Booked, InserterIsPastInsert,
                OneConversionPerTxn, AckedConversionIsStored
  <2>3. CASE Crash
    <3>1. conversions \subseteq ConversionRows
      BY DEF TypeOK, PostbackTypeOK
    <3>2. /\ conversions' = conversions
          /\ postReq' = [p \in PostReqs |->
               IF postReq[p].pc \in {"find", "create", "reply"}
               THEN [pc |-> "lost"] ELSE postReq[p]]
      BY <2>3 DEF Crash, PostbackCrash, stored
    <3> QED BY <3>1, <3>2 DEF Booked, InserterIsPastInsert, ConversionRows,
                 OneConversionPerTxn, AckedConversionIsStored
  <2> QED BY <2>1, <2>2, <2>3 DEF Next, vars
<1> QED BY <1>1, <1>2, TypeCorrect, PTL DEF Spec

\* However often and however concurrently a postback is sent, at most one
\* conversion is stored for its transaction id.
THEOREM MintedOnce == Spec => []OneConversionPerTxn
BY BookedInvariant, PTL DEF Booked

\* An acknowledgement names a stored conversion of the transaction it answers.
THEOREM AcknowledgedIsStored == Spec => []AckedConversionIsStored
BY BookedInvariant, PTL DEF Booked

\* Replays that are acknowledged are all told the same conversion, whoever
\* stored it and however far apart they come (the comment on ingest: "replays
\* return the same id").
THEOREM ReplaysAgree ==
    Spec => [](\A p, q \in PostReqs :
                 /\ postReq[p].pc = "ok" /\ postReq[q].pc = "ok"
                 /\ postReq[p].msg.txn = postReq[q].msg.txn
                 => postReq[p].conversionId = postReq[q].conversionId)
<1>1. Booked => \A p, q \in PostReqs :
                  /\ postReq[p].pc = "ok" /\ postReq[q].pc = "ok"
                  /\ postReq[p].msg.txn = postReq[q].msg.txn
                  => postReq[p].conversionId = postReq[q].conversionId
  BY DEF Booked, AckedConversionIsStored, OneConversionPerTxn
<1> QED BY <1>1, BookedInvariant, PTL

-----------------------------------------------------------------------------
\* A new conversion adds one to the count of its campaign and leaves the
\* counts of the others alone.
LEMMA OneMoreConversion ==
    ASSUME NEW C, IsFiniteSet(C), NEW v, v \notin C, NEW id
    PROVE  /\ Cardinality({c \in C : c.campaignId = id}) \in Nat
           /\ Cardinality({c \in C \cup {v} : c.campaignId = id}) =
                IF v.campaignId = id
                THEN Cardinality({c \in C : c.campaignId = id}) + 1
                ELSE Cardinality({c \in C : c.campaignId = id})
<1> DEFINE D == {c \in C : c.campaignId = id}
<1>1. IsFiniteSet(D) /\ Cardinality(D) \in Nat
  BY FS_Subset, FS_CardinalityType
<1>2. CASE v.campaignId = id
  <2>1. {c \in C \cup {v} : c.campaignId = id} = D \cup {v}
    BY <1>2
  <2>2. Cardinality(D \cup {v}) = Cardinality(D) + 1
    BY <1>1, FS_AddElement
  <2> QED BY <1>1, <1>2, <2>1, <2>2
<1>3. CASE v.campaignId # id
  <2>1. {c \in C \cup {v} : c.campaignId = id} = D
    BY <1>3
  <2> QED BY <1>1, <1>3, <2>1
<1> QED BY <1>2, <1>3

LEMMA CountedByCommit ==
    ASSUME TypeOK, Booked, CapCountsMatchConversions, NEW p \in PostReqs,
           CommitConversion(p)
    PROVE  CapCountsMatchConversions'
<1> DEFINE m == postReq[p].msg
           new == [id |-> p, campaignId |-> m.campaignId,
                   clickId |-> m.clickId, txn |-> m.txn]
<1>1. /\ conversions' = conversions \cup {new}
      /\ new \notin conversions
      /\ CountConversion(m.campaignId)
  BY DEF CommitConversion, ConversionOf
<1> SUFFICES ASSUME NEW id \in DOMAIN caps', NEW i \in DOMAIN caps'[id]
             PROVE  caps'[id][i].currentCount =
                      IF caps'[id][i].capType = "TOTAL" THEN 0
                      ELSE Cardinality(ConversionsOf(id)')
  BY DEF CapCountsMatchConversions
<1>2. id \in DOMAIN caps /\ i \in DOMAIN caps[id]
  BY <1>1 DEF CountConversion
<1>3. caps[id][i] \in CapRows
  BY <1>2 DEF TypeOK, CampaignTypeOK
<1>4. caps[id][i].currentCount = IF caps[id][i].capType = "TOTAL" THEN 0
                                 ELSE Cardinality(ConversionsOf(id))
  BY <1>2 DEF CapCountsMatchConversions
<1>5. Cardinality(ConversionsOf(id)') =
        IF m.campaignId = id THEN Cardinality(ConversionsOf(id)) + 1
                             ELSE Cardinality(ConversionsOf(id))
  <2>1. IsFiniteSet(conversions) /\ new.campaignId = m.campaignId
    BY DEF Booked
  <2>2. ConversionsOf(id)' = {c \in conversions \cup {new} : c.campaignId = id}
    BY <1>1 DEF ConversionsOf
  <2>3. Cardinality({c \in conversions \cup {new} : c.campaignId = id}) =
          IF new.campaignId = id
          THEN Cardinality({c \in conversions : c.campaignId = id}) + 1
          ELSE Cardinality({c \in conversions : c.campaignId = id})
    <3> HIDE DEF new
    <3>1. IsFiniteSet(conversions) /\ new \notin conversions
      BY <1>1, <2>1
    <3> QED BY ONLY <3>1, OneMoreConversion
  <2> QED BY <2>1, <2>2, <2>3 DEF ConversionsOf
<1>6. CASE m.campaignId = id
  <2>1. caps'[id][i] = IF caps[id][i].capType = "TOTAL" THEN caps[id][i]
                       ELSE [caps[id][i] EXCEPT !.currentCount = @ + 1]
    BY <1>1, <1>2, <1>6 DEF CountConversion
  <2> QED BY <1>3, <1>4, <1>5, <1>6, <2>1 DEF CapRows
<1>7. CASE m.campaignId # id
  <2>1. caps'[id] = caps[id]
    BY <1>1, <1>2, <1>7 DEF CountConversion
  <2> QED BY <1>4, <1>5, <1>7, <2>1
<1> QED BY <1>6, <1>7

\* The counters of the caps equal the stored conversions, for every number
\* of campaigns, caps, clicks and postbacks.
THEOREM CountsMatch == Spec => []CapCountsMatchConversions
<1>1. Init => CapCountsMatchConversions
  BY DEF Init, CampaignInit, CapCountsMatchConversions
<1>2. TypeOK /\ Carried /\ Booked /\ CapCountsMatchConversions /\ [Next]_vars
        => CapCountsMatchConversions'
  <2> SUFFICES ASSUME TypeOK, Carried, Booked, CapCountsMatchConversions,
                      [Next]_vars
               PROVE  CapCountsMatchConversions'
    OBVIOUS
  <2>1. ASSUME NEW p \in PostReqs, CommitConversion(p)
        PROVE  CapCountsMatchConversions'
    BY <2>1, CountedByCommit
  <2>2. ASSUME NEW id \in CampaignIds, NEW status \in InputStatuses,
               NEW endDate \in Dates, NEW plan \in CapPlans,
               CreateCampaign(id, status, endDate, plan),
               UNCHANGED conversions
        PROVE  CapCountsMatchConversions'
    <3>1. DOMAIN caps = DOMAIN campaign
      BY DEF TypeOK, CampaignTypeOK
    <3>2. ConversionsOf(id) = {}
      BY <2>2, <3>1 DEF CreateCampaign, Carried, ConversionMatchesClick,
                        BlockFlagMatchesCaps, ConversionsOf
    <3>3. Cardinality(ConversionsOf(id)') = 0
      BY <2>2, <3>2, FS_EmptySet DEF ConversionsOf
    <3>4. caps'[id] = [i \in DOMAIN plan |-> NewCap(plan[i])]
      BY <2>2 DEF CreateCampaign, Insert
    <3>5. /\ DOMAIN caps' = DOMAIN caps \cup {id}
          /\ \A c \in DOMAIN caps : c # id /\ caps'[c] = caps[c]
      BY <2>2, <3>1 DEF CreateCampaign, Insert
    <3>6. \A i \in DOMAIN caps'[id] : caps'[id][i].currentCount = 0
      BY <3>4 DEF NewCap
    <3>7. \A c : ConversionsOf(c)' = ConversionsOf(c)
      BY <2>2 DEF ConversionsOf
    <3> SUFFICES ASSUME NEW c \in DOMAIN caps', NEW i \in DOMAIN caps'[c]
                 PROVE  caps'[c][i].currentCount =
                          IF caps'[c][i].capType = "TOTAL" THEN 0
                          ELSE Cardinality(ConversionsOf(c)')
      BY DEF CapCountsMatchConversions
    <3>8. CASE c = id
      BY <3>3, <3>6, <3>8
    <3>9. CASE c # id
      BY <3>5, <3>7, <3>9 DEF CapCountsMatchConversions
    <3> QED BY <3>8, <3>9
  <2>3. CASE UNCHANGED <<caps, conversions>>
    BY <2>3 DEF CapCountsMatchConversions, ConversionsOf
  <2> QED
    BY <2>1, <2>2, <2>3
       DEF Next, CampaignNext, ClickNext, PostbackNext, ServePostback, Crash,
           CampaignCrash, PostbackCrash, UpdateCampaign, ReadStatus,
           WriteStatus, SoftDelete, RejectMessage, ReadClick, FindExisting,
           ConflictOnTransactionId, SendReply, PostbackFails, stored, vars,
           campaignVars, postbackVars
<1> QED BY <1>1, <1>2, TypeCorrect, CarriedInvariant, BookedInvariant, PTL
        DEF Spec

-----------------------------------------------------------------------------
LEMMA CommitBooks ==
    ASSUME TypeOK, Booked, NEW p \in PostReqs, CommitConversion(p)
    PROVE  Ledger!Next
<1> DEFINE m == postReq[p].msg
           e == [id |-> p, txn |-> m.txn]
<1>1. /\ postReq[p] \in [pc : {"create"}, msg : Messages]
      /\ postReq \in [PostReqs -> PostbackStates]
      /\ conversions \subseteq ConversionRows
  BY DEF TypeOK, PostbackTypeOK, PostbackStates, CommitConversion
<1>2. /\ conversions' = conversions \cup
           {[id |-> p, campaignId |-> m.campaignId, clickId |-> m.clickId,
             txn |-> m.txn]}
      /\ \A v \in conversions : v.txn # m.txn
      /\ postReq' = [postReq EXCEPT ![p] =
                        [pc |-> "reply", msg |-> m, conversionId |-> p]]
  BY DEF CommitConversion, ConversionOf, Answer
<1>3. e \in Ledger!Entry
  BY <1>1 DEF Ledger!Entry, Messages
<1>4. \A f \in LedgerEntries : f.txn # e.txn /\ f.id # e.id
  BY <1>1, <1>2 DEF LedgerEntries, Booked, InserterIsPastInsert
<1>5. LedgerEntries' = LedgerEntries \cup {e}
  <2> DEFINE new == [id |-> p, campaignId |-> m.campaignId,
                     clickId |-> m.clickId, txn |-> m.txn]
  <2>1. conversions' = conversions \cup {new} /\ new.id = p /\ new.txn = m.txn
    BY <1>2
  <2> HIDE DEF new, m
  <2> QED BY <2>1 DEF LedgerEntries
<1>6. LedgerTold' = LedgerTold
  BY <1>1, <1>2 DEF LedgerTold
<1> QED BY <1>3, <1>4, <1>5, <1>6 DEF Ledger!Next, Ledger!Book

LEMMA AnswerTells ==
    ASSUME TypeOK, Booked, NEW p \in PostReqs, postReq[p].pc # "ok",
           NEW v \in conversions, v.txn = postReq[p].msg.txn,
           Answer(p, "ok", v.id), UNCHANGED conversions
    PROVE  Ledger!Next
<1> DEFINE e == [id |-> v.id, txn |-> v.txn]
<1>1. postReq \in [PostReqs -> PostbackStates]
  BY DEF TypeOK, PostbackTypeOK
<1>2. e \in LedgerEntries
  BY DEF LedgerEntries
<1>3. LedgerEntries' = LedgerEntries
  BY DEF LedgerEntries
<1>4. LedgerTold[p] = Absent
  BY DEF LedgerTold
<1>5. LedgerTold' = [LedgerTold EXCEPT ![p] = e]
  BY <1>1 DEF LedgerTold, Answer
<1> QED BY <1>2, <1>3, <1>4, <1>5 DEF Ledger!Next, Ledger!Tell

LEMMA OtherStepsStutter ==
    ASSUME TypeOK, UNCHANGED conversions,
           NEW p \in PostReqs, postReq[p].pc # "ok",
           NEW s, s.pc # "ok", postReq' = [postReq EXCEPT ![p] = s]
    PROVE  UNCHANGED <<LedgerEntries, LedgerTold>>
<1>1. postReq \in [PostReqs -> PostbackStates]
  BY DEF TypeOK, PostbackTypeOK
<1>2. LedgerEntries' = LedgerEntries
  BY DEF LedgerEntries
<1>3. LedgerTold' = LedgerTold
  BY <1>1 DEF LedgerTold
<1> QED BY <1>2, <1>3

LEMMA StepImplementsLedger ==
    ASSUME TypeOK, Booked, [Next]_vars
    PROVE  Ledger!Next \/ UNCHANGED <<LedgerEntries, LedgerTold>>
<1>0. postReq \in [PostReqs -> PostbackStates]
  BY DEF TypeOK, PostbackTypeOK
<1>1. ASSUME NEW p \in PostReqs, CommitConversion(p)
      PROVE  Ledger!Next
  BY <1>1, CommitBooks
<1>2. ASSUME NEW p \in PostReqs, FindExisting(p)
      PROVE  Ledger!Next \/ UNCHANGED <<LedgerEntries, LedgerTold>>
  <2>1. /\ postReq[p] \in [pc : {"find"}, msg : Messages]
        /\ UNCHANGED conversions
    BY <1>0, <1>2 DEF FindExisting, PostbackStates, stored
  <2>2. CASE \E v \in ConversionOf(postReq[p].msg.txn) : Answer(p, "ok", v.id)
    BY <2>1, <2>2, AnswerTells DEF ConversionOf
  <2>3. CASE postReq' = [postReq EXCEPT ![p].pc = "create"]
    <3> DEFINE s == [postReq[p] EXCEPT !.pc = "create"]
    <3>1. postReq' = [postReq EXCEPT ![p] = s] /\ s.pc # "ok"
      BY <2>1, <2>3
    <3> HIDE DEF s
    <3> QED BY <2>1, <3>1, OtherStepsStutter
  <2> QED BY <1>2, <2>2, <2>3 DEF FindExisting
<1>3. ASSUME NEW p \in PostReqs, SendReply(p)
      PROVE  Ledger!Next
  <2>1. /\ postReq[p].pc = "reply"
        /\ Answer(p, "ok", postReq[p].conversionId)
        /\ UNCHANGED conversions
    BY <1>3 DEF SendReply, stored
  <2>2. PICK v \in conversions : /\ v.id = postReq[p].conversionId
                                 /\ v.txn = postReq[p].msg.txn
    BY <2>1 DEF Booked, AckedConversionIsStored
  <2> QED BY <2>1, <2>2, AnswerTells
<1>4. ASSUME NEW p \in PostReqs,
             \/ \E m \in Messages : ReadClick(p, m)
             \/ \E signed \in BOOLEAN, txn \in TxnIds \cup {Absent},
                   clickId \in ClickReqs \cup {Absent} :
                     RejectMessage(p, signed, txn, clickId)
             \/ ConflictOnTransactionId(p)
             \/ PostbackFails(p)
      PROVE  UNCHANGED <<LedgerEntries, LedgerTold>>
  <2>1. /\ postReq[p].pc # "ok"
        /\ UNCHANGED conversions
        /\ \E s : s.pc # "ok" /\ postReq' = [postReq EXCEPT ![p] = s]
    BY <1>4 DEF ReadClick, RejectMessage, ConflictOnTransactionId,
                PostbackFails, Refuse, stored
  <2> QED BY <2>1, OtherStepsStutter
<1>5. CASE UNCHANGED postbackVars
  BY <1>5 DEF postbackVars, LedgerEntries, LedgerTold
<1>6. CASE Crash
  BY <1>0, <1>6 DEF Crash, PostbackCrash, stored, LedgerEntries, LedgerTold
<1> QED BY <1>1, <1>2, <1>3, <1>4, <1>5, <1>6
        DEF Next, PostbackNext, ServePostback, vars

\* The whole system, seen through its conversions and its acknowledgements,
\* is the ledger that books each transaction once and never changes its word.
THEOREM LedgerImplemented == Spec => ImplementsLedger
<1>1. Init => Ledger!Init
  BY DEF Init, PostbackInit, Ledger!Init, LedgerEntries, LedgerTold
<1>2. TypeOK /\ Booked /\ [Next]_vars
        => Ledger!Next \/ UNCHANGED <<LedgerEntries, LedgerTold>>
  BY StepImplementsLedger
<1> QED BY <1>1, <1>2, TypeCorrect, BookedInvariant, PTL
        DEF Spec, ImplementsLedger, Ledger!Spec

\* What a ledger keeps: an entry for each postback that was told something,
\* and no two entries with an id or a transaction in common.
LedgerKept ==
    /\ \A p \in PostReqs : LedgerTold[p] = Absent \/ LedgerTold[p] \in LedgerEntries
    /\ \A e, f \in LedgerEntries : e.txn = f.txn \/ e.id = f.id => e = f

LedgerOnlyGrows ==
    /\ LedgerEntries \subseteq LedgerEntries'
    /\ \A p \in PostReqs : LedgerTold[p] = Absent \/ LedgerTold'[p] = LedgerTold[p]

LEMMA LedgerStep ==
    ASSUME LedgerKept, [Ledger!Next]_<<LedgerEntries, LedgerTold>>
    PROVE  LedgerKept' /\ LedgerOnlyGrows
<1>0. DOMAIN LedgerTold = PostReqs /\ DOMAIN LedgerTold' = PostReqs
  BY DEF LedgerTold
<1>1. ASSUME NEW e \in Ledger!Entry, Ledger!Book(e)
      PROVE  LedgerKept' /\ LedgerOnlyGrows
  BY <1>1 DEF Ledger!Book, LedgerKept, LedgerOnlyGrows
<1>2. ASSUME NEW p \in PostReqs, NEW e \in LedgerEntries, Ledger!Tell(p, e)
      PROVE  LedgerKept' /\ LedgerOnlyGrows
  <2>1. LedgerEntries' = LedgerEntries /\ LedgerTold[p] = Absent
    BY <1>2 DEF Ledger!Tell
  <2>2. ASSUME NEW q \in PostReqs
        PROVE  LedgerTold'[q] = IF q = p THEN e ELSE LedgerTold[q]
    BY <1>0, <1>2 DEF Ledger!Tell
  <2> QED BY <2>1, <2>2 DEF LedgerKept, LedgerOnlyGrows
<1>3. CASE UNCHANGED <<LedgerEntries, LedgerTold>>
  BY <1>3 DEF LedgerKept, LedgerOnlyGrows
<1> QED BY <1>1, <1>2, <1>3 DEF Ledger!Next

\* What follows from being a ledger alone: a network that was told the id of a
\* conversion can rely on it for good.  No later postback, restart or race
\* removes the entry, books its transaction again, or changes what was told.
THEOREM WordIsKept ==
    ImplementsLedger => []LedgerKept /\ [][LedgerOnlyGrows]_<<LedgerEntries, LedgerTold>>
<1>1. Ledger!Init => LedgerKept
  BY DEF Ledger!Init, LedgerKept
<1>2. LedgerKept /\ [Ledger!Next]_<<LedgerEntries, LedgerTold>>
        => LedgerKept' /\ [LedgerOnlyGrows]_<<LedgerEntries, LedgerTold>>
  BY LedgerStep
<1> QED BY <1>1, <1>2, PTL DEF ImplementsLedger, Ledger!Spec

-----------------------------------------------------------------------------
(***************************************************************************)
(* Unique visitors.  A click found a prior one when it is to be a repeat,  *)
(* and the earliest click of a visitor found none.                         *)
(***************************************************************************)
UniqueBefore(x, t) ==
    \E y \in clicks : SameVisitor(x, y) /\ y.isUnique /\ y.createdAt <= t

Visited ==
    /\ \A x \in clicks : x.createdAt <= now
    /\ FirstClickIsUnique
    /\ \A r \in ClickReqs :
         clickReq[r].pc = "create" /\ ~clickReq[r].isUnique
           => UniqueBefore(clickReq[r], now)

LEMMA VisitedByClickStep ==
    ASSUME TypeOK, Visited, ClickNext
    PROVE  Visited'
<1>1. /\ now \in Nat
      /\ clicks \subseteq ClickRows
      /\ clickReq \in [ClickReqs -> ClickStates]
  BY DEF TypeOK, ClickTypeOK
<1> USE DEF Visited, FirstClickIsUnique, UniqueBefore, SameVisitor
<1>2. ASSUME NEW r \in ClickReqs, NEW id \in CampaignIds, NEW ip \in IPs,
             ReadCampaign(r, id, ip)
      PROVE  Visited'
  BY <1>1, <1>2 DEF ReadCampaign
<1>3. ASSUME NEW r \in ClickReqs, CheckUnique(r)
      PROVE  Visited'
  <2>1. clickReq[r] \in [pc : {"check"}, campaignId : CampaignIds, ip : IPs,
                         capBlocked : BOOLEAN]
    BY <1>1, <1>3 DEF CheckUnique, ClickStates
  <2>2. ASSUME NEW x \in PriorSameIp(clickReq[r].campaignId, clickReq[r].ip)
        PROVE  UniqueBefore(clickReq[r], now)
    <3>1. x \in clicks /\ SameVisitor(clickReq[r], x) /\ x.createdAt <= now
      BY DEF PriorSameIp
    <3>2. PICK y \in clicks :
            SameVisitor(x, y) /\ y.isUnique /\ y.createdAt <= x.createdAt
      BY <3>1
    <3>3. x.createdAt \in Nat /\ y.createdAt \in Nat
      BY <1>1, <3>1, <3>2 DEF ClickRows
    <3> QED BY <1>1, <3>1, <3>2, <3>3
  <2> QED BY <1>1, <1>3, <2>1, <2>2 DEF CheckUnique
<1>4. ASSUME NEW r \in ClickReqs, CreateClick(r)
      PROVE  Visited'
  <2> DEFINE new == [clickId |-> r, campaignId |-> clickReq[r].campaignId,
                     ip |-> clickReq[r].ip, isUnique |-> clickReq[r].isUnique,
                     capBlocked |-> clickReq[r].capBlocked, createdAt |-> now]
  <2>1. /\ clicks' = clicks \cup {new}
        /\ clickReq' = [clickReq EXCEPT ![r] = [pc |-> "stored"]]
        /\ now' = now
    BY <1>4 DEF CreateClick
  <2>2. new.isUnique \/ UniqueBefore(new, now)
    BY <1>4 DEF CreateClick
  <2>3. FirstClickIsUnique'
    <3>1. new.createdAt = now /\ now <= now
      BY <1>1
    <3>2. \E y \in clicks' :
            SameVisitor(new, y) /\ y.isUnique /\ y.createdAt <= new.createdAt
      <4>1. CASE new.isUnique
        <5> HIDE DEF new
        <5> QED BY <2>1, <3>1, <4>1
      <4>2. CASE UniqueBefore(new, now)
        <5> HIDE DEF new
        <5> QED BY <2>1, <3>1, <4>2
      <4> QED BY <2>2, <4>1, <4>2
    <3> QED BY <2>1, <3>2
  <2>4. \A x \in clicks' : x.createdAt <= now'
    BY <1>1, <2>1
  <2>5. \A q \in ClickReqs :
          clickReq'[q].pc = "create" /\ ~clickReq'[q].isUnique
            => UniqueBefore(clickReq[q], now)' /\ clickReq'[q] = clickReq[q]
    BY <1>1, <2>1
  <2> QED BY <2>3, <2>4, <2>5
<1>5. ASSUME NEW r \in ClickReqs, ClickFails(r)
      PROVE  Visited'
  BY <1>1, <1>5 DEF ClickFails
<1>6. CASE Tick
  <2>1. /\ now' = now + 1 /\ clicks' = clicks /\ clickReq' = clickReq
        /\ \A x \in clicks : x.createdAt \in Nat
    BY <1>1, <1>6 DEF Tick, ClickRows
  <2> QED BY <1>1, <2>1
<1> QED BY <1>2, <1>3, <1>4, <1>5, <1>6 DEF ClickNext

\* However redirects overlap, a visitor of a campaign is never lost from the
\* unique count: a click as early as any other of its address is unique.
THEOREM VisitorsAreCounted == Spec => []FirstClickIsUnique
<1>1. Init => Visited
  BY DEF Init, ClickInit, Visited, FirstClickIsUnique
<1>2. TypeOK /\ Visited /\ [Next]_vars => Visited'
  <2> SUFFICES ASSUME TypeOK, Visited, [Next]_vars PROVE Visited'
    OBVIOUS
  <2>1. CASE ClickNext
    BY <2>1, VisitedByClickStep
  <2>2. CASE UNCHANGED clickVars
    BY <2>2 DEF clickVars, Visited, FirstClickIsUnique, UniqueBefore, SameVisitor
  <2>3. CASE Crash
    <3>1. /\ UNCHANGED <<now, clicks>>
          /\ \A r \in ClickReqs :
               clickReq'[r].pc = "create" => FALSE
      BY <2>3 DEF Crash, ClickCrash
    <3> QED BY <3>1 DEF Visited, FirstClickIsUnique, UniqueBefore, SameVisitor
  <2> QED BY <2>1, <2>2, <2>3 DEF Next, vars
<1>3. Visited => FirstClickIsUnique
  BY DEF Visited
<1> QED BY <1>1, <1>2, <1>3, TypeCorrect, PTL DEF Spec

-----------------------------------------------------------------------------
(***************************************************************************)
(* What a step does to a request: it takes it nearer to its end.  This is  *)
(* the part of ClicksEnd and PostbacksEnd that is no matter of fairness.   *)
(***************************************************************************)
ClickRank(state) ==
    IF state.pc = "new" THEN 3
    ELSE IF state.pc = "check" THEN 2
    ELSE IF state.pc = "create" THEN 1 ELSE 0

PostRank(state) ==
    IF state.pc = "new" THEN 4
    ELSE IF state.pc = "find" THEN 3
    ELSE IF state.pc = "create" THEN 2
    ELSE IF state.pc = "reply" THEN 1 ELSE 0

RequestStep ==
    /\ \A r \in ClickReqs : \/ clickReq'[r] = clickReq[r]
                           \/ ClickRank(clickReq'[r]) < ClickRank(clickReq[r])
    /\ \A p \in PostReqs : \/ postReq'[p] = postReq[p]
                          \/ PostRank(postReq'[p]) < PostRank(postReq[p])

LEMMA ClickStepAdvances ==
    ASSUME TypeOK, ClickNext, NEW q \in ClickReqs
    PROVE  \/ clickReq'[q] = clickReq[q]
           \/ ClickRank(clickReq'[q]) < ClickRank(clickReq[q])
<1> DEFINE Goal == \/ clickReq'[q] = clickReq[q]
                   \/ ClickRank(clickReq'[q]) < ClickRank(clickReq[q])
<1>1. clickReq \in [ClickReqs -> ClickStates]
  BY DEF TypeOK, ClickTypeOK
<1>2. ASSUME NEW r \in ClickReqs, NEW id \in CampaignIds, NEW ip \in IPs,
             ReadCampaign(r, id, ip)
      PROVE  Goal
  BY <1>1, <1>2 DEF ReadCampaign, ClickRank
<1>3. ASSUME NEW r \in ClickReqs, CheckUnique(r) \/ CreateClick(r) \/ ClickFails(r)
      PROVE  Goal
  BY <1>1, <1>3 DEF CheckUnique, CreateClick, ClickFails, ClickRank
<1> QED BY <1>2, <1>3 DEF ClickNext, Tick

LEMMA PostbackStepAdvances ==
    ASSUME TypeOK, PostbackNext, NEW q \in PostReqs
    PROVE  \/ postReq'[q] = postReq[q]
           \/ PostRank(postReq'[q]) < PostRank(postReq[q])
<1> DEFINE Goal == \/ postReq'[q] = postReq[q]
                   \/ PostRank(postReq'[q]) < PostRank(postReq[q])
<1>1. postReq \in [PostReqs -> PostbackStates]
  BY DEF TypeOK, PostbackTypeOK
<1>2. ASSUME NEW p \in PostReqs, NEW signed \in BOOLEAN,
             NEW txn \in TxnIds \cup {Absent},
             NEW clickId \in ClickReqs \cup {Absent},
             RejectMessage(p, signed, txn, clickId)
      PROVE  Goal
  BY <1>1, <1>2 DEF RejectMessage, Refuse, PostRank
<1>3. ASSUME NEW p \in PostReqs, NEW m \in Messages, ReadClick(p, m)
      PROVE  Goal
  <2>1. /\ postReq[p].pc = "new"
        /\ \/ postReq' = [postReq EXCEPT ![p] = [pc |-> "find", msg |-> m]]
           \/ \E reason \in Refusals : Refuse(p, reason)
    BY <1>3 DEF ReadClick, Refusals
  <2> QED BY <1>1, <2>1 DEF Refuse, PostRank
<1>4. ASSUME NEW p \in PostReqs, FindExisting(p)
      PROVE  Goal
  <2>1. postReq[p] \in [pc : {"find"}, msg : Messages]
    BY <1>1, <1>4 DEF FindExisting, PostbackStates
  <2>2. CASE postReq' = [postReq EXCEPT ![p].pc = "create"]
    BY <1>1, <2>1, <2>2 DEF PostRank
  <2>3. CASE \E id : Answer(p, "ok", id)
    BY <1>1, <2>1, <2>3 DEF Answer, PostRank
  <2> QED BY <1>4, <2>2, <2>3 DEF FindExisting
<1>5. ASSUME NEW p \in PostReqs, CommitConversion(p) \/ SendReply(p)
      PROVE  Goal
  BY <1>1, <1>5 DEF CommitConversion, SendReply, Answer, PostRank
<1>6. ASSUME NEW p \in PostReqs, ConflictOnTransactionId(p) \/ PostbackFails(p)
      PROVE  Goal
  BY <1>1, <1>6 DEF ConflictOnTransactionId, PostbackFails, PostRank
<1> QED BY <1>2, <1>3, <1>4, <1>5, <1>6 DEF PostbackNext, ServePostback

\* No handler loops or tries again: a redirect takes at most three steps and a
\* postback at most four, whatever the others do, so with the fairness of the
\* event loop each of them ends, and what has ended stays as it is.
THEOREM RequestsOnlyAdvance == Spec => [][RequestStep]_vars
<1>1. TypeOK /\ [Next]_vars => [RequestStep]_vars
  <2> SUFFICES ASSUME TypeOK, Next PROVE RequestStep
    BY DEF vars
  <2>1. CASE ClickNext /\ UNCHANGED <<campaignVars, postbackVars>>
    BY <2>1, ClickStepAdvances DEF RequestStep, postbackVars
  <2>2. CASE PostbackNext /\ UNCHANGED <<campaign, toggling, clickVars>>
    BY <2>2, PostbackStepAdvances DEF RequestStep, clickVars
  <2>3. CASE CampaignNext /\ UNCHANGED <<clickVars, postbackVars>>
    BY <2>3 DEF RequestStep, clickVars, postbackVars
  <2>4. CASE Crash
    BY <2>4 DEF Crash, ClickCrash, PostbackCrash, RequestStep, ClickRank, PostRank
  <2> QED BY <2>1, <2>2, <2>3, <2>4 DEF Next
<1> QED BY <1>1, TypeCorrect, PTL DEF Spec
==============================================================================
