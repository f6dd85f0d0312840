------------------------------ MODULE Postbacks ------------------------------
(***************************************************************************)
(* The conversion path: PostbackController.ingest and                      *)
(* PostbackService.ingest.  The service awaits a read of the click, a read *)
(* of the conversion, and one transaction of three statements; each is an  *)
(* action.  The transaction is one step: Postgres shows its statements     *)
(* together, an increment is relative and locks the cap row, and an insert *)
(* that meets an open one with the same unique key waits for its outcome.  *)
(*                                                                         *)
(* A conversion id is a fresh UUID; it is represented by the postback that *)
(* inserts the row.  Abstracted: amounts, goal, affiliate (an unknown one  *)
(* is one of the ways the transaction fails).                              *)
(***************************************************************************)
EXTENDS Clicks, FiniteSets

CONSTANTS
    PostReqs,       \* postbacks received, replays included, each served once
    TxnIds,         \* txn_id values of the affiliate networks
    Absent,         \* a form field that was not sent
    MaxClickAge     \* MAX_CLICK_AGE_HOURS, in clock units

ASSUME PostbackAssumption ==
    /\ MaxClickAge \in Nat
    /\ Absent \notin TxnIds \cup ClickReqs

VARIABLES
    conversions,    \* the Conversion table
    postbackLog,    \* the AdvertiserPostbackLog table
    postReq         \* where each postback is

postbackVars == <<conversions, postbackLog, postReq>>

\* The tables the transaction of a postback writes.
stored == <<conversions, postbackLog, caps>>

\* What the service holds of a postback that passed the first checks.
Messages == [campaignId : CampaignIds, clickId : ClickReqs, txn : TxnIds]

ConversionRows ==
    [id : PostReqs, campaignId : CampaignIds, clickId : ClickReqs,
     txn : TxnIds]

LogRows == [id : PostReqs, txn : TxnIds]

Refusals == {"invalid_signature", "missing_txn_id", "click_not_found",
             "campaign_mismatch", "cap_blocked", "click_too_old"}

PostbackStates ==
    [pc : {"new", "lost"}]
      \cup [pc : {"find", "create"}, msg : Messages]
      \cup [pc : {"reply", "ok"}, msg : Messages, conversionId : PostReqs]
      \cup [pc : {"refused"}, reason : Refusals]
      \cup [pc : {"error"}, on : {"conflict", "failure"}]

PostbackTypeOK ==
    /\ conversions \subseteq ConversionRows
    /\ postbackLog \subseteq LogRows
    /\ postReq \in [PostReqs -> PostbackStates]

PostbackInit ==
    /\ conversions = {}
    /\ postbackLog = {}
    /\ postReq = [p \in PostReqs |-> [pc |-> "new"]]

-----------------------------------------------------------------------------
ClickOf(id) == {c \in clicks : c.clickId = id}
ConversionOf(txn) == {c \in conversions : c.txn = txn}
TooOld(c) == now > c.createdAt + MaxClickAge

Refuse(p, reason) ==
    postReq' = [postReq EXCEPT ![p] = [pc |-> "refused", reason |-> reason]]

\* The checks that need no database: a missing secret is refused as a bad
\* signature is, and a missing click_id as an unknown one is.
RejectMessage(p, signed, txn, clickId) ==
    /\ postReq[p].pc = "new"
    /\ \/ ~signed /\ Refuse(p, "invalid_signature")
       \/ signed /\ txn = Absent /\ Refuse(p, "missing_txn_id")
       \/ /\ signed /\ txn # Absent /\ clickId = Absent
          /\ Refuse(p, "click_not_found")
    /\ UNCHANGED stored

\* Faulty variant: the campaign of the click is not compared.
ReadClickOfAnyCampaign(p, m) ==
    /\ postReq[p].pc = "new"
    /\ \E c \in ClickOf(m.clickId) :
         /\ ~c.capBlocked /\ ~TooOld(c)
         /\ postReq' = [postReq EXCEPT ![p] = [pc |-> "find", msg |-> m]]
    /\ UNCHANGED stored

\* Faulty variant: the block flag of the click is not looked at.
ReadClickIgnoringBlock(p, m) ==
    /\ postReq[p].pc = "new"
    /\ \E c \in ClickOf(m.clickId) :
         /\ c.campaignId = m.campaignId /\ ~TooOld(c)
         /\ postReq' = [postReq EXCEPT ![p] = [pc |-> "find", msg |-> m]]
    /\ UNCHANGED stored

\* The click is read and judged once; nothing reads it again.
ReadClick(p, m) ==
    /\ postReq[p].pc = "new"
    /\ \/ ClickOf(m.clickId) = {} /\ Refuse(p, "click_not_found")
       \/ \E c \in ClickOf(m.clickId) :
            \/ c.campaignId # m.campaignId /\ Refuse(p, "campaign_mismatch")
            \/ /\ c.campaignId = m.campaignId
               /\ c.capBlocked
               /\ Refuse(p, "cap_blocked")
            \/ /\ c.campaignId = m.campaignId /\ ~c.capBlocked
               /\ TooOld(c)
               /\ Refuse(p, "click_too_old")
            \/ /\ c.campaignId = m.campaignId /\ ~c.capBlocked /\ ~TooOld(c)
               /\ postReq' = [postReq EXCEPT ![p] = [pc |-> "find", msg |-> m]]
    /\ UNCHANGED stored

Answer(p, pc, id) ==
    postReq' = [postReq EXCEPT ![p] =
                  [pc |-> pc, msg |-> postReq[p].msg, conversionId |-> id]]

\* Faulty variant: the conversion is looked up by the click, not by txn_id.
FindExistingByClick(p) ==
    LET found == {c \in conversions : c.clickId = postReq[p].msg.clickId} IN
    /\ postReq[p].pc = "find"
    /\ \/ found = {} /\ postReq' = [postReq EXCEPT ![p].pc = "create"]
       \/ \E c \in found : Answer(p, "ok", c.id)
    /\ UNCHANGED stored

\* findUnique on the transaction id: a replay is answered with the stored id.
FindExisting(p) ==
    /\ postReq[p].pc = "find"
    /\ \/ /\ ConversionOf(postReq[p].msg.txn) = {}
          /\ postReq' = [postReq EXCEPT ![p].pc = "create"]
       \/ \E c \in ConversionOf(postReq[p].msg.txn) : Answer(p, "ok", c.id)
    /\ UNCHANGED stored

\* Faulty variant: TOTAL caps are counted too.
CountOnEveryCap(id) ==
    caps' = [caps EXCEPT ![id] = [i \in DOMAIN caps[id] |->
               [caps[id][i] EXCEPT !.currentCount = @ + 1]]]

\* campaignCap.updateMany: every cap of the campaign that is not TOTAL.
CountConversion(id) ==
    caps' = [caps EXCEPT ![id] = [i \in DOMAIN caps[id] |->
               IF caps[id][i].capType = "TOTAL" THEN caps[id][i]
               ELSE [caps[id][i] EXCEPT !.currentCount = @ + 1]]]

\* Faulty variant: transactionId is not unique in the schema.
CommitWithoutUniqueIndex(p) ==
    LET m == postReq[p].msg IN
    /\ postReq[p].pc = "create"
    /\ conversions' = conversions \cup
         {[id |-> p, campaignId |-> m.campaignId, clickId |-> m.clickId,
           txn |-> m.txn]}
    /\ CountConversion(m.campaignId)
    /\ postbackLog' = postbackLog \cup {[id |-> p, txn |-> m.txn]}
    /\ Answer(p, "reply", p)

\* Faulty variant: the row of the transaction id is replaced by a new one.
CommitByReplacing(p) ==
    LET m == postReq[p].msg IN
    /\ postReq[p].pc = "create"
    /\ conversions' = (conversions \ ConversionOf(m.txn)) \cup
         {[id |-> p, campaignId |-> m.campaignId, clickId |-> m.clickId,
           txn |-> m.txn]}
    /\ CountConversion(m.campaignId)
    /\ postbackLog' = postbackLog \cup {[id |-> p, txn |-> m.txn]}
    /\ Answer(p, "reply", p)

\* The transaction commits. The unique index admits the insert only while no
\* committed conversion has the transaction id.
CommitConversion(p) ==
    LET m == postReq[p].msg IN
    /\ postReq[p].pc = "create"
    /\ ConversionOf(m.txn) = {}
    /\ conversions' = conversions \cup
         {[id |-> p, campaignId |-> m.campaignId, clickId |-> m.clickId,
           txn |-> m.txn]}
    /\ CountConversion(m.campaignId)
    /\ postbackLog' = postbackLog \cup {[id |-> p, txn |-> m.txn]}
    /\ Answer(p, "reply", p)

\* Faulty variant: the insert is tried again for as long as it conflicts.
RetryOnConflict(p) ==
    /\ postReq[p].pc = "create"
    /\ ConversionOf(postReq[p].msg.txn) # {}
    /\ UNCHANGED <<postReq, conversions, postbackLog, caps>>

\* The unique index rejects the insert: the transaction rolls back and the
\* P2002 error leaves ingest uncaught.
ConflictOnTransactionId(p) ==
    /\ postReq[p].pc = "create"
    /\ ConversionOf(postReq[p].msg.txn) # {}
    /\ postReq' = [postReq EXCEPT ![p] =
         [pc |-> "error", on |-> "conflict"]]
    /\ UNCHANGED stored

\* A database call fails, for want of a connection, of time or of the
\* affiliate the message names, and the error is uncaught. Nothing is stored,
\* unless what failed is the acknowledgement of a commit ("reply").
PostbackFails(p) ==
    /\ postReq[p].pc \in {"new", "find", "create", "reply"}
    /\ postReq' = [postReq EXCEPT ![p] = [pc |-> "error", on |-> "failure"]]
    /\ UNCHANGED stored

SendReply(p) ==
    /\ postReq[p].pc = "reply"
    /\ Answer(p, "ok", postReq[p].conversionId)
    /\ UNCHANGED stored

\* What the server does for a postback it has begun to serve.
ServePostback(p) ==
    \/ FindExisting(p)
    \/ CommitConversion(p)
    \/ ConflictOnTransactionId(p)
    \/ SendReply(p)

PostbackNext ==
    \/ \E p \in PostReqs, signed \in BOOLEAN, txn \in TxnIds \cup {Absent},
          clickId \in ClickReqs \cup {Absent} :
            RejectMessage(p, signed, txn, clickId)
    \/ \E p \in PostReqs, m \in Messages : ReadClick(p, m)
    \/ \E p \in PostReqs : ServePostback(p) \/ PostbackFails(p)

PostbackCrash ==
    /\ postReq' = [p \in PostReqs |->
         IF postReq[p].pc \in {"find", "create", "reply"}
         THEN [pc |-> "lost"] ELSE postReq[p]]
    /\ UNCHANGED stored
==============================================================================
