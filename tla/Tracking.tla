------------------------------- MODULE Tracking -------------------------------
(***************************************************************************)
(* The tracking core: campaign mutations, redirects and postbacks served   *)
(* by one server over one database, in any interleaving of their database  *)
(* calls, with restarts of the server in between.                          *)
(***************************************************************************)
EXTENDS Postbacks

vars == <<campaignVars, clickVars, postbackVars>>

Init == CampaignInit /\ ClickInit /\ PostbackInit

\* A restart: every request in flight is lost, every committed row is kept.
Crash == CampaignCrash /\ ClickCrash /\ PostbackCrash

Next ==
    \/ CampaignNext /\ UNCHANGED <<clickVars, postbackVars>>
    \/ ClickNext /\ UNCHANGED <<campaignVars, postbackVars>>
    \/ PostbackNext /\ UNCHANGED <<campaign, toggling, clickVars>>
    \/ Crash

Spec == Init /\ [][Next]_vars

\* A handler that awaits a database call resumes: a promise settles, with a
\* result or with a rejection. Nothing makes a request arrive or time pass.
Fairness ==
    /\ \A r \in ClickReqs : WF_vars(ServeClick(r) /\ UNCHANGED <<campaignVars, postbackVars>>)
    /\ \A p \in PostReqs :
         WF_vars(ServePostback(p) /\ UNCHANGED <<campaign, toggling, clickVars>>)

FairSpec == Spec /\ Fairness

TypeOK == CampaignTypeOK /\ ClickTypeOK /\ PostbackTypeOK

-----------------------------------------------------------------------------
ConversionsOf(id) == {c \in conversions : c.campaignId = id}

\* The denormalised counters tell the truth: whatever transactions commit,
\* roll back or race, each cap that is not TOTAL has counted exactly the
\* stored conversions of its campaign, and a TOTAL cap none
\* (postback.service.ts 112-143).
CapCountsMatchConversions ==
    \A id \in DOMAIN caps : \A i \in DOMAIN caps[id] :
        caps[id][i].currentCount =
            IF caps[id][i].capType = "TOTAL" THEN 0
                                             ELSE Cardinality(ConversionsOf(id))

\* Sending the same postback twice, at once or across a restart, never mints
\* two conversions (the comment on ingest, lines 51-52).
OneConversionPerTxn ==
    \A x, y \in conversions : x.txn = y.txn => x = y

\* Every conversion hangs on a stored click of the same campaign that no cap
\* blocked, although the click was read two awaits before the insert.
ConversionMatchesClick ==
    \A v \in conversions :
        \E c \in clicks : /\ c.clickId = v.clickId
                          /\ c.campaignId = v.campaignId
                          /\ ~c.capBlocked

\* A campaign created with a cap whose limit is zero never converts, through
\* the flag its clicks carry: no postback looks at the caps themselves.
ClosedCampaignNeverConverts ==
    \A id \in DOMAIN caps : IsCapBlocked(caps[id]) => ConversionsOf(id) = {}

\* A postback is acknowledged with an id only when a committed conversion of
\* its transaction has that id, also when another postback stored it and also
\* when the restart of the server lost the answer of that other one.
AckedConversionIsStored ==
    \A p \in PostReqs : postReq[p].pc \in {"reply", "ok"} =>
        \E v \in conversions : /\ v.id = postReq[p].conversionId
                               /\ v.txn = postReq[p].msg.txn

\* What a handler has read and goes on using stays true until it acts: the
\* block flag a redirect computed is still what the caps say, and the click a
\* postback judged is still there, on the same campaign and not blocked.
InFlightFactsHold ==
    /\ \A r \in ClickReqs : clickReq[r].pc \in {"check", "create"} =>
         /\ clickReq[r].campaignId \in DOMAIN caps
         /\ clickReq[r].capBlocked <=> IsCapBlocked(caps[clickReq[r].campaignId])
    /\ \A p \in PostReqs : postReq[p].pc \in {"find", "create"} =>
         \E c \in clicks : /\ c.clickId = postReq[p].msg.clickId
                           /\ c.campaignId = postReq[p].msg.campaignId
                           /\ ~c.capBlocked

\* What a step may do to the caps of a stored campaign.
CapsStep ==
    \A id \in DOMAIN caps :
        /\ id \in DOMAIN caps'
        /\ \/ caps'[id] = caps[id]
           \/ /\ conversions' # conversions
              /\ DOMAIN caps'[id] = DOMAIN caps[id]
              /\ \A i \in DOMAIN caps[id] :
                   /\ caps'[id][i].capType = caps[id][i].capType
                   /\ caps'[id][i].capLimit = caps[id][i].capLimit

\* No step removes the caps of a stored campaign, retypes or resizes them, and
\* only a step that stores or replaces a conversion changes what they count
\* (campaigns.service.ts 97-126, 187-210).
CapsOnlyCountConversions == [][CapsStep]_vars

-----------------------------------------------------------------------------
\* The endpoint as the ledger it promises to be.
LedgerEntries == {[id |-> v.id, txn |-> v.txn] : v \in conversions}

LedgerTold ==
    [p \in PostReqs |->
       IF postReq[p].pc = "ok"
       THEN [id |-> postReq[p].conversionId, txn |-> postReq[p].msg.txn]
       ELSE Absent]

Ledger == INSTANCE ConversionLedger WITH
    Postbacks <- PostReqs, Txns <- TxnIds, Untold <- Absent,
    entries <- LedgerEntries, told <- LedgerTold

\* The postback path implements ConversionLedger: a transaction is booked
\* once, bookings are never changed, and every acknowledgement names the
\* booking of the transaction it was sent for.
ImplementsLedger == Ledger!Spec

\* Every redirect the server begins to serve ends: redirected, refused,
\* failed, or lost with the server.
ClicksEnd ==
    \A r \in ClickReqs :
        clickReq[r].pc # "new"
            ~> clickReq[r].pc \in {"stored", "refused", "failed", "lost"}

\* Every postback the server begins to serve ends, the ones that lose the
\* race for a transaction id included.
PostbacksEnd ==
    \A p \in PostReqs :
        postReq[p].pc # "new"
            ~> postReq[p].pc \in {"ok", "refused", "error", "lost"}

-----------------------------------------------------------------------------
\* What the comments on ingest say of replays ("idempotent - replays return
\* the same id", "INSERT-then-on-P2002-conflict-return-existing"): losing the
\* race for a transaction id is never answered with an error.
ReplayIsAnswered ==
    \A p \in PostReqs :
        ~(postReq[p].pc = "error" /\ postReq[p].on = "conflict")

\* What the comments on record and isCapBlocked say of the caps: the block
\* flag compares each counter that is not TOTAL with its limit.
BlockFlagComparesCounts ==
    [][\A r \in ClickReqs :
         clickReq[r].pc = "new" /\ clickReq'[r].pc = "check" =>
            LET capRows == caps[clickReq'[r].campaignId] IN
            clickReq'[r].capBlocked =
              \E i \in DOMAIN capRows :
                 IF capRows[i].capType = "TOTAL" THEN capRows[i].capLimit <= 0
                 ELSE capRows[i].currentCount >= capRows[i].capLimit
      ]_vars
==============================================================================
