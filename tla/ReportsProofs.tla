---------------------------- MODULE ReportsProofs ----------------------------
(***************************************************************************)
(* Proofs about Reports, for every value of the constants: what the joins  *)
(* return follows from how the rows of Tracking hang together, so most of  *)
(* the work is one more inductive invariant on the tables.                 *)
(***************************************************************************)
EXTENDS Reports, TrackingProofs

(***************************************************************************)
(* Rows are keyed: a click id belongs to the request that drew it, which   *)
(* stored its click and is done, and the log of postbacks holds the line   *)
(* of each conversion and nothing else.                                    *)
(***************************************************************************)
ClickerIsDone == \A c \in clicks : clickReq[c.clickId].pc = "stored"

OneRowPerClickId == \A x, y \in clicks : x.clickId = y.clickId => x = y

LogIsLedger == postbackLog = LedgerEntries

Keyed ==
    /\ ClickerIsDone
    /\ OneRowPerClickId
    /\ IsFiniteSet(clicks)
    /\ LogIsLedger

LEMMA KeyedByClickStep ==
    ASSUME TypeOK, Keyed, ClickNext, UNCHANGED postbackVars
    PROVE  Keyed'
<1> USE DEF ClickerIsDone, OneRowPerClickId
<1>0. /\ clicks \subseteq ClickRows
      /\ clickReq \in [ClickReqs -> ClickStates]
  BY DEF TypeOK, ClickTypeOK
<1>1. \A c \in clicks : c.clickId \in ClickReqs
  BY <1>0 DEF ClickRows
<1>2. LogIsLedger'
  BY DEF Keyed, LogIsLedger, LedgerEntries, postbackVars
<1>3. ASSUME NEW r \in ClickReqs, CreateClick(r)
      PROVE  Keyed'
  <2> DEFINE new == [clickId |-> r, campaignId |-> clickReq[r].campaignId,
                     ip |-> clickReq[r].ip, isUnique |-> clickReq[r].isUnique,
                     capBlocked |-> clickReq[r].capBlocked, createdAt |-> now]
  <2>1. /\ clicks' = clicks \cup {new}
        /\ clickReq' = [clickReq EXCEPT ![r] = [pc |-> "stored"]]
        /\ new.clickId = r
    BY <1>3 DEF CreateClick
  <2>2. \A c \in clicks : c.clickId # r
    BY <1>3 DEF Keyed, CreateClick
  <2> HIDE DEF new
  <2>3. ClickerIsDone'
    BY <1>0, <1>1, <2>1, <2>2 DEF Keyed
  <2>4. OneRowPerClickId'
    BY <2>1, <2>2 DEF Keyed
  <2>5. IsFiniteSet(clicks')
    BY <2>1, FS_AddElement DEF Keyed
  <2> QED BY <1>2, <2>3, <2>4, <2>5 DEF Keyed
<1>4. ASSUME NEW r \in ClickReqs, NEW s, clickReq[r].pc # "stored",
             clickReq' = [clickReq EXCEPT ![r] = s], clicks' = clicks
      PROVE  Keyed'
  BY <1>0, <1>1, <1>2, <1>4 DEF Keyed
<1>5. CASE Tick
  BY <1>2, <1>5 DEF Tick, Keyed
<1> QED BY <1>3, <1>4, <1>5
        DEF ClickNext, ReadCampaign, CheckUnique, ClickFails

LEMMA KeyedByCommit ==
    ASSUME TypeOK, Keyed, NEW p \in PostReqs, CommitConversion(p),
           UNCHANGED clickVars
    PROVE  Keyed'
<1> DEFINE m == postReq[p].msg
           new == [id |-> p, campaignId |-> m.campaignId,
                   clickId |-> m.clickId, txn |-> m.txn]
           e == [id |-> p, txn |-> m.txn]
<1>1. /\ conversions' = conversions \cup {new} /\ new.id = p /\ new.txn = m.txn
      /\ postbackLog' = postbackLog \cup {e}
  BY DEF CommitConversion
<1>2. LedgerEntries' = LedgerEntries \cup {e}
  <2> HIDE DEF new, m
  <2> QED BY <1>1 DEF LedgerEntries
<1>3. LogIsLedger'
  BY <1>1, <1>2 DEF Keyed, LogIsLedger
<1> QED BY <1>3 DEF Keyed, ClickerIsDone, OneRowPerClickId, clickVars

LEMMA KeyedInvariant == Spec => []Keyed
<1>1. Init => Keyed
  BY FS_EmptySet
     DEF Init, ClickInit, PostbackInit, Keyed, ClickerIsDone, OneRowPerClickId,
         LogIsLedger, LedgerEntries
<1>2. TypeOK /\ Keyed /\ [Next]_vars => Keyed'
  <2> SUFFICES ASSUME TypeOK, Keyed, [Next]_vars PROVE Keyed'
    OBVIOUS
  <2>1. CASE ClickNext /\ UNCHANGED <<campaignVars, postbackVars>>
    BY <2>1, KeyedByClickStep
  <2>2. CASE PostbackNext /\ UNCHANGED <<campaign, toggling, clickVars>>
    <3>1. ASSUME NEW p \in PostReqs, CommitConversion(p)
          PROVE  Keyed'
      BY <2>2, <3>1, KeyedByCommit
    <3>2. CASE UNCHANGED stored
      BY <2>2, <3>2 DEF stored, Keyed, ClickerIsDone, OneRowPerClickId,
                        LogIsLedger, LedgerEntries, clickVars
    <3> QED
      BY <2>2, <3>1, <3>2
         DEF PostbackNext, ServePostback, RejectMessage, ReadClick,
             FindExisting, ConflictOnTransactionId, SendReply, PostbackFails
  <2>3. CASE UNCHANGED <<clickVars, postbackVars>>
    BY <2>3 DEF clickVars, postbackVars, Keyed, ClickerIsDone,
                OneRowPerClickId, LogIsLedger, LedgerEntries
  <2>4. CASE Crash
    <3>1. /\ clicks \subseteq ClickRows
          /\ clickReq \in [ClickReqs -> ClickStates]
      BY DEF TypeOK, ClickTypeOK
    <3>2. /\ UNCHANGED <<clicks, conversions, postbackLog>>
          /\ \A r \in ClickReqs : clickReq[r].pc = "stored"
                                    => clickReq'[r] = clickReq[r]
      BY <2>4 DEF Crash, ClickCrash, PostbackCrash, stored
    <3>3. \A c \in clicks : c.clickId \in ClickReqs
      BY <3>1 DEF ClickRows
    <3> QED BY <3>2, <3>3 DEF Keyed, ClickerIsDone, OneRowPerClickId,
                              LogIsLedger, LedgerEntries
  <2> QED BY <2>1, <2>2, <2>3, <2>4 DEF Next, vars
<1> QED BY <1>1, <1>2, TypeCorrect, PTL DEF Spec

-----------------------------------------------------------------------------
(***************************************************************************)
(* What the joins and the counts return, for any tables.                   *)
(***************************************************************************)
LEMMA OrNullType ==
    ASSUME NEW rows
    PROVE  /\ rows \subseteq OrNull(rows)
           /\ OrNull(rows) # {}
           /\ OrNull(rows) \subseteq rows \cup {Absent}
           /\ IsFiniteSet(rows) => IsFiniteSet(OrNull(rows))
BY FS_Singleton DEF OrNull

\* A set of pairs has as many first components as it has pairs when the
\* second component of each is determined by the first.
LEMMA OneLineEach ==
    ASSUME NEW S, IsFiniteSet(S), NEW f, DOMAIN f = S
    PROVE  Cardinality({<<v, f[v]>> : v \in S}) = Cardinality(S)
<1> DEFINE T == {<<v, f[v]>> : v \in S}
           g == [v \in S |-> <<v, f[v]>>]
<1>1. g \in Bijection(S, T)
  BY DEF Bijection, Injection, Surjection, IsInjective
<1> QED BY <1>1, FS_Bijection DEF ExistsBijection

\* Every row that some line shows is counted by the lines.
LEMMA LinesCover ==
    ASSUME NEW lines, IsFiniteSet(lines), NEW rows,
           NEW show, show \in [lines -> rows],
           \A v \in rows : \E l \in lines : show[l] = v
    PROVE  /\ Cardinality(lines) \in Nat
           /\ Cardinality(rows) \in Nat
           /\ Cardinality(rows) <= Cardinality(lines)
<1>1. show \in Surjection(lines, rows)
  BY DEF Surjection
<1> QED BY <1>1, FS_Surjection, FS_CardinalityType

\* The tables a report reads.
LEMMA ReportTables ==
    ASSUME TypeOK, Booked, Keyed, Carried
    PROVE  /\ IsFiniteSet(clicks) /\ clicks \subseteq ClickRows
           /\ IsFiniteSet(conversions) /\ conversions \subseteq ConversionRows
           /\ Absent \notin clicks /\ Absent \notin conversions
           /\ \A v \in conversions :
                /\ v.campaignId \in DOMAIN campaign
                /\ \E c \in clicks : /\ c.campaignId = v.campaignId
                                     /\ ClickOf(v.clickId) = {c}
<1>1. /\ clicks \subseteq ClickRows
      /\ conversions \subseteq ConversionRows
      /\ DOMAIN caps = DOMAIN campaign
  BY DEF TypeOK, ClickTypeOK, PostbackTypeOK, CampaignTypeOK
<1>2. ASSUME NEW v \in conversions
      PROVE  /\ v.campaignId \in DOMAIN campaign
             /\ \E c \in clicks : /\ c.campaignId = v.campaignId
                                  /\ ClickOf(v.clickId) = {c}
  <2>1. PICK c \in clicks : c.clickId = v.clickId /\ c.campaignId = v.campaignId
    BY DEF Carried, ConversionMatchesClick
  <2>2. ClickOf(v.clickId) = {c}
    BY <2>1 DEF Keyed, OneRowPerClickId, ClickOf
  <2> QED BY <1>1, <2>1, <2>2 DEF Carried, BlockFlagMatchesCaps
<1> QED BY <1>1, <1>2, ReportsAssumption DEF Booked, Keyed

-----------------------------------------------------------------------------
\* The click a conversion came from.
SourceClick == [v \in conversions |-> CHOOSE c \in clicks : ClickOf(v.clickId) = {c}]

LEMMA SourceClickType ==
    ASSUME TypeOK, Booked, Keyed, Carried, NEW v \in conversions
    PROVE  /\ SourceClick[v] \in clicks
           /\ ClickOf(v.clickId) = {SourceClick[v]}
           /\ SourceClick[v].clickId = v.clickId
           /\ SourceClick[v].campaignId = v.campaignId
<1>1. PICK c \in clicks : /\ c.campaignId = v.campaignId
                          /\ ClickOf(v.clickId) = {c}
  BY ReportTables
<1>2. SourceClick[v] = c
  BY <1>1 DEF SourceClick
<1> QED BY <1>1, <1>2 DEF ClickOf

LEMMA ConversionReportLines ==
    ASSUME TypeOK, Booked, Keyed, Carried, NEW range \in Ranges
    PROVE  ConversionReport(range) =
             {<<v, SourceClick[v]>> : v \in range.conversions}
<1>0. range.conversions \subseteq conversions
  BY DEF Ranges
<1>1. ConversionsIn(DOMAIN campaign, range) = range.conversions
  BY <1>0, ReportTables DEF ConversionsIn
<1>2. ASSUME NEW v \in range.conversions
      PROVE  {v} \X OrNull(ClickOf(v.clickId)) = {<<v, SourceClick[v]>>}
  BY <1>0, SourceClickType DEF OrNull
<1> QED BY <1>1, <1>2 DEF ConversionReport

LEMMA AffiliateCounts ==
    ASSUME TypeOK, Booked, Keyed, Carried,
           NEW range \in Ranges, NEW own \in SUBSET conversions
    PROVE  AffiliateReport(own, range) =
             [clicks |-> Cardinality({c \in range.clicks :
                           \E v \in own \cap range.conversions :
                             v.clickId = c.clickId}),
              conversions |-> Cardinality(own \cap range.conversions)]
<1> DEFINE mine == own \cap range.conversions
           found(v) == OrNull(ClickOf(v.clickId) \cap range.clicks)
           lines == UNION {{v} \X found(v) : v \in mine}
           f == [v \in mine |-> IF SourceClick[v] \in range.clicks
                                THEN SourceClick[v] ELSE Absent]
           seen == {c \in range.clicks : \E v \in mine : v.clickId = c.clickId}
<1>0. /\ range.clicks \subseteq clicks /\ mine \subseteq conversions
      /\ IsFiniteSet(mine) /\ Absent \notin range.clicks
  BY ReportTables, FS_Subset DEF Ranges
<1>1. \A v \in mine : {v} \X found(v) = {<<v, f[v]>>}
  <2> TAKE v \in mine
  <2>1. ClickOf(v.clickId) = {SourceClick[v]}
    BY <1>0, SourceClickType
  <2>2. found(v) = {f[v]}
    BY <2>1 DEF OrNull
  <2> HIDE DEF f, found
  <2> QED BY <2>2
<1>2. lines = {<<v, f[v]>> : v \in mine}
  <2> HIDE DEF mine, f, found
  <2> QED BY <1>1
<1>3. Cardinality(lines) = Cardinality(mine)
  <2>1. DOMAIN f = mine
    OBVIOUS
  <2> HIDE DEF lines, f, mine
  <2> QED BY <1>0, <1>2, <2>1, OneLineEach
<1>4. \A v \in mine, c \in range.clicks :
        v.clickId = c.clickId <=> SourceClick[v] = c
  <2> TAKE v \in mine, c \in range.clicks
  <2>1. SourceClick[v] \in clicks /\ SourceClick[v].clickId = v.clickId
    BY <1>0, SourceClickType
  <2> QED BY <1>0, <2>1 DEF Keyed, OneRowPerClickId
<1>5. {l[2] : l \in lines} = {f[v] : v \in mine}
  <2> HIDE DEF lines, f, mine
  <2>1. \A v \in mine : <<v, f[v]>> \in lines /\ <<v, f[v]>>[2] = f[v]
    BY <1>2
  <2>2. \A l \in lines : \E v \in mine : l[2] = f[v]
    BY <1>2
  <2>3. \A v \in mine : \E l \in lines : l[2] = f[v]
    BY <2>1
  <2> QED BY <2>2, <2>3
<1>6. {f[v] : v \in mine} \ {Absent} = seen
  <2> HIDE DEF mine
  <2> QED BY <1>0, <1>4
<1> QED BY <1>3, <1>5, <1>6 DEF AffiliateReport

\* The conversion report, the log of postbacks and the report that pays an
\* affiliate show each conversion of any range exactly once, beside the one
\* click it came from, for every number of campaigns, clicks and conversions.
THEOREM ConversionsAreShownOnce == Spec => []ReportsShowEachConversionOnce
<1>1. TypeOK /\ Booked /\ Keyed /\ Carried => ReportsShowEachConversionOnce
  <2> SUFFICES ASSUME TypeOK, Booked, Keyed, Carried
               PROVE  ReportsShowEachConversionOnce
    OBVIOUS
  <2>1. ASSUME NEW range \in Ranges
        PROVE  /\ Cardinality(ConversionReport(range)) = Cardinality(range.conversions)
               /\ \A l \in ConversionReport(range) :
                    /\ l[1] \in range.conversions
                    /\ l[2] # Absent /\ l[2].campaignId = l[1].campaignId
    <3>1. range.conversions \subseteq conversions
      BY DEF Ranges
    <3>2. ASSUME NEW v \in range.conversions
          PROVE  SourceClick[v] # Absent /\ SourceClick[v].campaignId = v.campaignId
      BY <3>1, SourceClickType, ReportTables
    <3>3. \A l \in ConversionReport(range) :
            /\ l[1] \in range.conversions
            /\ l[2] # Absent /\ l[2].campaignId = l[1].campaignId
      BY <3>2, ConversionReportLines
    <3> DEFINE f == [v \in range.conversions |-> SourceClick[v]]
    <3>4. ConversionReport(range) = {<<v, f[v]>> : v \in range.conversions}
      BY ConversionReportLines
    <3>5. IsFiniteSet(range.conversions) /\ DOMAIN f = range.conversions
      BY <3>1, ReportTables, FS_Subset
    <3> HIDE DEF f
    <3> QED BY <3>3, <3>4, <3>5, OneLineEach
  <2>2. AdvertiserPostbackLogs = {v.txn : v \in conversions}
    <3>1. \A l \in LedgerEntries : \E v \in conversions : l.txn = v.txn
      BY DEF LedgerEntries
    <3>2. ASSUME NEW v \in conversions
          PROVE  \E l \in LedgerEntries : l.txn = v.txn
      <4>1. [id |-> v.id, txn |-> v.txn] \in LedgerEntries
        BY DEF LedgerEntries
      <4> QED BY <4>1
    <3> QED BY <3>1, <3>2 DEF AdvertiserPostbackLogs, Keyed, LogIsLedger
  <2> QED BY <2>1, <2>2, AffiliateCounts DEF ReportsShowEachConversionOnce
<1> QED BY <1>1, TypeCorrect, BookedInvariant, KeyedInvariant,
           CarriedInvariant, PTL

-----------------------------------------------------------------------------
\* How often a LEFT JOIN repeats a row of its left side.
Times(rows) == IF rows = {} THEN 1 ELSE Cardinality(rows)

LEMMA OrNullCount ==
    ASSUME NEW rows, IsFiniteSet(rows)
    PROVE  /\ Cardinality(OrNull(rows)) = Times(rows)
           /\ Times(rows) \in Nat /\ Times(rows) >= 1
<1>1. Cardinality(rows) \in Nat /\ (Cardinality(rows) = 0 <=> rows = {})
  BY FS_CardinalityType, FS_EmptySet
<1>2. Cardinality({Absent}) = 1
  BY FS_Singleton
<1> QED BY <1>1, <1>2 DEF OrNull, Times

\* The rows of some campaigns that a report joins.
LEMMA CampaignRowsFinite ==
    ASSUME TypeOK, Booked, Keyed, Carried, NEW range \in Ranges, NEW ids
    PROVE  /\ IsFiniteSet(ClicksIn(ids, range)) /\ Absent \notin ClicksIn(ids, range)
           /\ IsFiniteSet(ConversionsIn(ids, range))
           /\ Absent \notin ConversionsIn(ids, range)
<1>1. /\ ClicksIn(ids, range) \subseteq clicks
      /\ ConversionsIn(ids, range) \subseteq conversions
  BY DEF ClicksIn, ConversionsIn, Ranges
<1> QED BY <1>1, ReportTables, FS_Subset

\* The two counts of a campaign: each row of the range times the rows it meets
\* on the other side of the join.
LEMMA JoinedCounts ==
    ASSUME TypeOK, Booked, Keyed, Carried, NEW range \in Ranges, NEW id
    PROVE  /\ CountClicks(Joined(id, range)) =
                Cardinality(ClicksIn({id}, range)) * Times(ConversionsIn({id}, range))
           /\ CountConversions(Joined(id, range)) =
                Times(ClicksIn({id}, range)) * Cardinality(ConversionsIn({id}, range))
<1> DEFINE C == ClicksIn({id}, range)
           V == ConversionsIn({id}, range)
<1>1. /\ IsFiniteSet(C) /\ Absent \notin C
      /\ IsFiniteSet(V) /\ Absent \notin V
      /\ Joined(id, range) = OrNull(C) \X OrNull(V)
  BY CampaignRowsFinite DEF Joined
<1> HIDE DEF C, V
<1>2. {l \in Joined(id, range) : l[1] # Absent} = C \X OrNull(V)
  BY <1>1 DEF OrNull
<1>3. {l \in Joined(id, range) : l[2] # Absent} = OrNull(C) \X V
  BY <1>1 DEF OrNull
<1>4. /\ Cardinality(C \X OrNull(V)) = Cardinality(C) * Times(V)
      /\ Cardinality(OrNull(C) \X V) = Times(C) * Cardinality(V)
  <2>1. /\ IsFiniteSet(OrNull(C)) /\ Cardinality(OrNull(C)) = Times(C)
        /\ IsFiniteSet(OrNull(V)) /\ Cardinality(OrNull(V)) = Times(V)
    BY <1>1, OrNullType, OrNullCount
  <2> QED BY <1>1, <2>1, FS_Product
<1> QED BY <1>2, <1>3, <1>4 DEF CountClicks, CountConversions, C, V

\* What the report of an offer really counts: each click of the range once for
\* every conversion of the campaign in it and each conversion once for every
\* click, so the numbers are the stored ones only while there is at most one
\* row on the other side; of a campaign that was not created in the range it
\* counts nothing (admin-reports.service.ts, the two LEFT JOINs and the WHERE
\* of the offer report).
THEOREM OfferReportFansOut ==
    Spec => [](\A range \in Ranges, created \in SUBSET DOMAIN campaign :
                 OfferReport(created, range) =
                   [id \in created |->
                     [clicks |-> Cardinality(ClicksIn({id}, range))
                                   * Times(ConversionsIn({id}, range)),
                      conversions |-> Times(ClicksIn({id}, range))
                                   * Cardinality(ConversionsIn({id}, range))]])
<1>1. TypeOK /\ Booked /\ Keyed /\ Carried
        => (\A range \in Ranges, created \in SUBSET DOMAIN campaign :
              OfferReport(created, range) =
                [id \in created |->
                  [clicks |-> Cardinality(ClicksIn({id}, range))
                                * Times(ConversionsIn({id}, range)),
                   conversions |-> Times(ClicksIn({id}, range))
                                * Cardinality(ConversionsIn({id}, range))]])
  BY JoinedCounts DEF OfferReport, Counted
<1> QED BY <1>1, TypeCorrect, BookedInvariant, KeyedInvariant,
           CarriedInvariant, PTL

-----------------------------------------------------------------------------
\* Lines that show every one of some rows, and nothing else, cover them.
LEMMA LinesCoverRows ==
    ASSUME NEW lines, IsFiniteSet(lines), NEW rows,
           NEW show, show \in [lines -> rows],
           \A x \in rows : \E l \in lines : show[l] = x
    PROVE  Covers(Cardinality(lines), rows)
<1>1. rows = {} => Cardinality(lines) = 0
  <2>1. rows = {} => lines = {}
    OBVIOUS
  <2> QED BY <2>1, FS_EmptySet
<1> QED BY <1>1, LinesCover DEF Covers

LEMMA ClicksCovered ==
    ASSUME NEW lines, IsFiniteSet(lines), NEW C, Absent \notin C,
           \A l \in lines : l[1] \in C \cup {Absent},
           \A c \in C : \E l \in lines : l[1] = c
    PROVE  Covers(CountClicks(lines), C)
<1> DEFINE counted == {l \in lines : l[1] # Absent}
           show == [l \in counted |-> l[1]]
<1>1. IsFiniteSet(counted)
  BY FS_Subset
<1>2. /\ show \in [counted -> C]
      /\ \A c \in C : \E l \in counted : show[l] = c
  OBVIOUS
<1>3. CountClicks(lines) = Cardinality(counted)
  BY DEF CountClicks
<1> HIDE DEF counted, show
<1> QED BY <1>1, <1>2, <1>3, LinesCoverRows

LEMMA ConversionsCovered ==
    ASSUME NEW lines, IsFiniteSet(lines), NEW V, Absent \notin V,
           \A l \in lines : l[2] \in V \cup {Absent},
           \A v \in V : \E l \in lines : l[2] = v
    PROVE  Covers(CountConversions(lines), V)
<1> DEFINE counted == {l \in lines : l[2] # Absent}
           show == [l \in counted |-> l[2]]
<1>1. IsFiniteSet(counted)
  BY FS_Subset
<1>2. /\ show \in [counted -> V]
      /\ \A v \in V : \E l \in counted : show[l] = v
  OBVIOUS
<1>3. CountConversions(lines) = Cardinality(counted)
  BY DEF CountConversions
<1> HIDE DEF counted, show
<1> QED BY <1>1, <1>2, <1>3, LinesCoverRows

\* The lines of a report on several campaigns show the rows of the range that
\* are theirs, and each of them.
LEMMA JoinedTogether ==
    ASSUME TypeOK, Booked, Keyed, Carried, NEW range \in Ranges, NEW ids
    PROVE  LET lines == UNION {Joined(id, range) : id \in ids} IN
           /\ IsFiniteSet(lines)
           /\ \A l \in lines : /\ l[1] \in ClicksIn(ids, range) \cup {Absent}
                               /\ l[2] \in ConversionsIn(ids, range) \cup {Absent}
           /\ \A c \in ClicksIn(ids, range) : \E l \in lines : l[1] = c
           /\ \A v \in ConversionsIn(ids, range) : \E l \in lines : l[2] = v
<1> DEFINE lines == UNION {Joined(id, range) : id \in ids}
           C == ClicksIn(ids, range) \cup {Absent}
           V == ConversionsIn(ids, range) \cup {Absent}
<1>1. IsFiniteSet(C) /\ IsFiniteSet(V)
  BY CampaignRowsFinite, FS_AddElement
<1>2. IsFiniteSet(C \X V)
  BY <1>1, FS_Product
<1>3. ASSUME NEW id \in ids
      PROVE  Joined(id, range) \subseteq C \X V
  <2>1. /\ ClicksIn({id}, range) \subseteq ClicksIn(ids, range)
        /\ ConversionsIn({id}, range) \subseteq ConversionsIn(ids, range)
    BY DEF ClicksIn, ConversionsIn
  <2>2. /\ OrNull(ClicksIn({id}, range)) \subseteq C
        /\ OrNull(ConversionsIn({id}, range)) \subseteq V
    BY <2>1, OrNullType
  <2> QED BY <2>2 DEF Joined
<1>4. lines \subseteq C \X V
  <2> HIDE DEF C, V
  <2> QED BY <1>3
<1>5. \A l \in lines : l[1] \in C /\ l[2] \in V
  <2> HIDE DEF lines, C, V
  <2> QED BY <1>4
<1>6. ASSUME NEW v \in ConversionsIn(ids, range)
      PROVE  \E l \in lines : l[2] = v
  <2>1. v.campaignId \in ids /\ v \in OrNull(ConversionsIn({v.campaignId}, range))
    BY OrNullType DEF ConversionsIn
  <2>2. PICK c : c \in OrNull(ClicksIn({v.campaignId}, range))
    BY OrNullType
  <2>3. <<c, v>> \in Joined(v.campaignId, range) /\ <<c, v>>[2] = v
    BY <2>1, <2>2 DEF Joined
  <2> QED BY <2>1, <2>3
<1>7. ASSUME NEW c \in ClicksIn(ids, range)
      PROVE  \E l \in lines : l[1] = c
  <2>1. c.campaignId \in ids /\ c \in OrNull(ClicksIn({c.campaignId}, range))
    BY OrNullType DEF ClicksIn
  <2>2. PICK v : v \in OrNull(ConversionsIn({c.campaignId}, range))
    BY OrNullType
  <2>3. <<c, v>> \in Joined(c.campaignId, range) /\ <<c, v>>[1] = c
    BY <2>1, <2>2 DEF Joined
  <2> QED BY <2>1, <2>3
<1>8. IsFiniteSet(lines)
  <2> HIDE DEF lines, C, V
  <2> QED BY <1>2, <1>4, FS_Subset
<1> QED BY <1>5, <1>6, <1>7, <1>8

LEMMA CountedCovers ==
    ASSUME TypeOK, Booked, Keyed, Carried, NEW range \in Ranges, NEW ids
    PROVE  LET counts == Counted(UNION {Joined(id, range) : id \in ids}) IN
           /\ Covers(counts.clicks, ClicksIn(ids, range))
           /\ Covers(counts.conversions, ConversionsIn(ids, range))
<1> DEFINE lines == UNION {Joined(id, range) : id \in ids}
           C == ClicksIn(ids, range)
           V == ConversionsIn(ids, range)
<1>1. /\ IsFiniteSet(lines)
      /\ \A l \in lines : l[1] \in C \cup {Absent} /\ l[2] \in V \cup {Absent}
      /\ \A c \in C : \E l \in lines : l[1] = c
      /\ \A v \in V : \E l \in lines : l[2] = v
  BY JoinedTogether
<1>2. Absent \notin C /\ Absent \notin V
  BY CampaignRowsFinite
<1> HIDE DEF lines, C, V
<1>3. Covers(CountClicks(lines), C) /\ Covers(CountConversions(lines), V)
  BY <1>1, <1>2, ClicksCovered, ConversionsCovered
<1> QED BY <1>3 DEF Counted, lines, C, V

LEMMA OverviewCovers ==
    ASSUME TypeOK, Booked, Keyed, Carried, NEW range \in Ranges, NEW ids
    PROVE  LET overview == OverviewStats(ids, range) IN
           /\ Covers(overview.totalClicks, ClicksIn(ids, range))
           /\ Covers(overview.uniqueClicks, {c \in ClicksIn(ids, range) : c.isUnique})
           /\ Covers(overview.conversions, ConversionsIn(ids, range))
<1> DEFINE lines == UNION {Joined(id, range) : id \in ids}
           first == {l \in lines : l[1] # Absent /\ l[1].isUnique}
           C == ClicksIn(ids, range)
           U == {c \in C : c.isUnique}
<1>1. /\ IsFiniteSet(lines)
      /\ \A l \in lines : l[1] \in C \cup {Absent}
      /\ \A c \in C : \E l \in lines : l[1] = c
  BY JoinedTogether
<1>2. Absent \notin C
  BY CampaignRowsFinite
<1>3. /\ IsFiniteSet(first) /\ Absent \notin U
      /\ \A l \in first : l[1] \in U \cup {Absent}
      /\ \A c \in U : \E l \in first : l[1] = c
  <2> HIDE DEF lines, C
  <2> QED BY <1>1, <1>2, FS_Subset
<1>4. Covers(CountClicks(first), U)
  <2> HIDE DEF first, U
  <2> QED BY <1>3, ClicksCovered
<1>5. /\ Covers(CountClicks(lines), C)
      /\ Covers(CountConversions(lines), ConversionsIn(ids, range))
  BY CountedCovers DEF Counted
<1> QED BY <1>4, <1>5 DEF OverviewStats

\* A report that joins clicks with conversions counts each click and each
\* conversion of its campaigns and its range, some many times, and none that is
\* not there, for every number of campaigns, clicks and conversions.
THEOREM RangesAreCovered == Spec => []ReportsCoverTheirRange
<1>1. TypeOK /\ Booked /\ Keyed /\ Carried => ReportsCoverTheirRange
  <2> SUFFICES ASSUME TypeOK, Booked, Keyed, Carried,
                      NEW range \in Ranges, NEW ids \in SUBSET DOMAIN campaign
               PROVE
        LET seen == ClicksIn(ids, range)
            sold == ConversionsIn(ids, range)
            advertiser == AdvertiserReport(ids, range)
            overview == OverviewStats(ids, range)
        IN  /\ \A id \in ids :
                 \A line \in {OfferReport(ids, range)[id], TopCampaigns(ids, range)[id]} :
                   /\ Covers(line.clicks, ClicksIn({id}, range))
                   /\ Covers(line.conversions, ConversionsIn({id}, range))
            /\ Covers(advertiser.clicks, seen)
            /\ Covers(advertiser.conversions, sold)
            /\ Covers(overview.totalClicks, seen)
            /\ Covers(overview.uniqueClicks, {c \in seen : c.isUnique})
            /\ Covers(overview.conversions, sold)
    BY DEF ReportsCoverTheirRange
  <2>1. ASSUME NEW id \in ids
        PROVE  \A line \in {OfferReport(ids, range)[id], TopCampaigns(ids, range)[id]} :
                 /\ Covers(line.clicks, ClicksIn({id}, range))
                 /\ Covers(line.conversions, ConversionsIn({id}, range))
    <3>1. UNION {Joined(x, range) : x \in {id}} = Joined(id, range)
      OBVIOUS
    <3>2. /\ Covers(Counted(Joined(id, range)).clicks, ClicksIn({id}, range))
          /\ Covers(Counted(Joined(id, range)).conversions, ConversionsIn({id}, range))
      BY <3>1, CountedCovers
    <3> QED BY <3>2 DEF OfferReport, TopCampaigns
  <2>2. /\ Covers(AdvertiserReport(ids, range).clicks, ClicksIn(ids, range))
        /\ Covers(AdvertiserReport(ids, range).conversions, ConversionsIn(ids, range))
    BY CountedCovers DEF AdvertiserReport
  <2> QED BY <2>1, <2>2, OverviewCovers
<1> QED BY <1>1, TypeCorrect, BookedInvariant, KeyedInvariant,
           CarriedInvariant, PTL

-----------------------------------------------------------------------------
\* The last page begins below the total when the total counts every line.
LEMMA TotalReachesAll ==
    ASSUME NEW lines, NEW total \in Nat, Cardinality(lines) \in Nat,
           Cardinality(lines) <= total
    PROVE  AllReached(lines, total)
<1> SUFFICES ASSUME NEW pageSize \in 1..Cardinality(lines),
                    NEW i \in 0..(Cardinality(lines) - 1)
             PROVE  Reached(i, pageSize, total)
  BY DEF AllReached
<1>1. pageSize \in Nat /\ pageSize > 0 /\ i \in Nat /\ i < total
  OBVIOUS
<1>2. i % pageSize \in 0..(pageSize - 1)
  BY <1>1
<1> QED BY <1>1, <1>2 DEF Reached

\* With pages of one line the last line is missed when there are more lines
\* than the total, and more than one.
LEMMA TotalEndsTooSoon ==
    ASSUME NEW lines, NEW total \in Nat \ {0}, Cardinality(lines) \in Nat,
           total < Cardinality(lines)
    PROVE  ~AllReached(lines, total)
<1> DEFINE i == Cardinality(lines) - 1
<1>1. 1 \in 1..Cardinality(lines) /\ i \in 0..(Cardinality(lines) - 1)
  OBVIOUS
<1>2. i % 1 = 0
  OBVIOUS
<1>3. ~Reached(i, 1, total)
  BY <1>2 DEF Reached
<1> QED BY <1>1, <1>3 DEF AllReached

\* The conversions a line of the click log may show beside a click.
Beside(c) == OrNull({v \in conversions : v.clickId = c.clickId})

LEMMA ClickLogLines ==
    ASSUME TypeOK, Booked, Keyed, Carried, NEW range \in Ranges
    PROVE  /\ ClickLog(range) = UNION {{c} \X Beside(c) : c \in range.clicks}
           /\ IsFiniteSet(ClickLog(range))
           /\ IsFiniteSet(range.clicks)
<1>0. range.clicks \subseteq clicks
  BY DEF Ranges
<1>1. \A c \in range.clicks : c.campaignId \in DOMAIN campaign
  BY <1>0 DEF Carried, BlockFlagMatchesCaps, TypeOK, CampaignTypeOK
<1>2. ClicksIn(DOMAIN campaign, range) = range.clicks
  BY <1>1 DEF ClicksIn
<1>3. ClickLog(range) = UNION {{c} \X Beside(c) : c \in range.clicks}
  BY <1>2 DEF ClickLog, Beside
<1>4. IsFiniteSet(range.clicks) /\ IsFiniteSet(conversions \cup {Absent})
  BY <1>0, ReportTables, FS_Subset, FS_AddElement
<1>5. IsFiniteSet(range.clicks \X (conversions \cup {Absent}))
  BY <1>4, FS_Product
<1>6. \A c \in range.clicks : Beside(c) \subseteq conversions \cup {Absent}
  BY DEF Beside, OrNull
<1>7. ClickLog(range) \subseteq range.clicks \X (conversions \cup {Absent})
  BY <1>3, <1>6
<1> QED BY <1>3, <1>4, <1>5, <1>7, FS_Subset

LEMMA ClickLogShowsClick ==
    ASSUME TypeOK, Booked, Keyed, Carried, NEW range \in Ranges,
           NEW c \in range.clicks
    PROVE  /\ \E l \in ClickLog(range) : l[1] = c
           /\ \A l \in ClickLog(range) : l[1] = c =>
                (l[2] # Absent <=> \E v \in conversions : v.clickId = c.clickId)
<1>1. PICK v : v \in Beside(c)
  BY OrNullType DEF Beside
<1>2. <<c, v>> \in ClickLog(range) /\ <<c, v>>[1] = c
  BY <1>1, ClickLogLines
<1>3. ASSUME NEW l \in ClickLog(range), l[1] = c
      PROVE  l[2] # Absent <=> \E w \in conversions : w.clickId = c.clickId
  <2>1. l[2] \in Beside(c)
    BY <1>3, ClickLogLines
  <2>2. Absent \notin conversions
    BY ReportTables
  <2> QED BY <2>1, <2>2 DEF Beside, OrNull
<1> QED BY <1>2, <1>3

\* The total of the click log leads to its end exactly when no click of the
\* range has converted twice.
LEMMA ClickLogTotal ==
    ASSUME TypeOK, Booked, Keyed, Carried, NEW range \in Ranges
    PROVE  AllReached(ClickLog(range), Cardinality(range.clicks)) <=>
             \A v, w \in conversions :
               v # w /\ v.clickId = w.clickId =>
                 \A c \in range.clicks : c.clickId # v.clickId
<1> DEFINE h == [c \in range.clicks |-> CHOOSE v : v \in Beside(c)]
           T == {<<c, h[c]>> : c \in range.clicks}
           L == ClickLog(range)
           n == Cardinality(range.clicks)
<1>1. /\ L = UNION {{c} \X Beside(c) : c \in range.clicks}
      /\ IsFiniteSet(L) /\ IsFiniteSet(range.clicks)
  BY ClickLogLines
<1>2. \A c \in range.clicks : h[c] \in Beside(c)
  BY OrNullType DEF Beside
<1>3. DOMAIN h = range.clicks
  OBVIOUS
<1> HIDE DEF h, L
<1>4. T \subseteq L
  BY <1>1, <1>2
<1>5. Cardinality(T) = n /\ n \in Nat /\ Cardinality(L) \in Nat
  BY <1>1, <1>3, OneLineEach, FS_CardinalityType
<1>6. ASSUME \A v, w \in conversions :
               v # w /\ v.clickId = w.clickId =>
                 \A c \in range.clicks : c.clickId # v.clickId
      PROVE  AllReached(L, n)
  <2>1. \A c \in range.clicks : \A v \in Beside(c) : v = h[c]
    <3> TAKE c \in range.clicks
    <3>1. \A v, w \in conversions : v.clickId = c.clickId /\ w.clickId = c.clickId => v = w
      BY <1>6
    <3> QED BY <1>2, <3>1 DEF Beside, OrNull
  <2>2. L = T
    BY <1>1, <1>4, <2>1
  <2> QED BY <1>5, <2>2, TotalReachesAll
<1>7. ASSUME NEW v \in conversions, NEW w \in conversions,
             v # w, v.clickId = w.clickId,
             NEW c \in range.clicks, c.clickId = v.clickId
      PROVE  ~AllReached(L, n)
  <2>1. v \in Beside(c) /\ w \in Beside(c)
    BY <1>7 DEF Beside, OrNull
  <2>2. <<c, v>> \in L /\ <<c, w>> \in L
    BY <1>1, <2>1
  <2>3. ~(<<c, v>> \in T /\ <<c, w>> \in T)
    BY <1>7
  <2>4. T # L
    BY <2>2, <2>3
  <2> HIDE DEF T, n
  <2>5. Cardinality(T) <= Cardinality(L) /\ Cardinality(T) # Cardinality(L)
    BY <1>1, <1>4, <2>4, FS_Subset
  <2>6. n # 0
    BY <1>1, FS_EmptySet DEF n
  <2>7. n \in Nat \ {0} /\ n < Cardinality(L)
    BY <1>5, <2>5, <2>6
  <2> QED BY <1>5, <2>7, TotalEndsTooSoon
<1> HIDE DEF n
<1>8. AllReached(L, n) <=> \A v, w \in conversions :
               v # w /\ v.clickId = w.clickId =>
                 \A c \in range.clicks : c.clickId # v.clickId
  BY <1>6, <1>7
<1> QED BY <1>8 DEF L, n

\* Following the cursor of the service leads to every line of the conversion
\* report; through the click log it does so for pages of every size exactly
\* when no click of the range has converted twice.
THEOREM PagesEnd == Spec => []PagesEndWithTheReport
<1>1. TypeOK /\ Booked /\ Keyed /\ Carried => PagesEndWithTheReport
  <2> SUFFICES ASSUME TypeOK, Booked, Keyed, Carried, NEW range \in Ranges
               PROVE
        /\ AllReached(ConversionReport(range), Cardinality(range.conversions))
        /\ \A c \in range.clicks :
             /\ \E l \in ClickLog(range) : l[1] = c
             /\ \A l \in ClickLog(range) : l[1] = c =>
                  (l[2] # Absent <=> \E v \in conversions : v.clickId = c.clickId)
        /\ AllReached(ClickLog(range), Cardinality(range.clicks)) <=>
             \A v, w \in conversions :
               v # w /\ v.clickId = w.clickId =>
                 \A c \in range.clicks : c.clickId # v.clickId
    BY DEF PagesEndWithTheReport
  <2>1. AllReached(ConversionReport(range), Cardinality(range.conversions))
    <3> DEFINE f == [v \in range.conversions |-> SourceClick[v]]
    <3>1. ConversionReport(range) = {<<v, f[v]>> : v \in range.conversions}
      BY ConversionReportLines
    <3>2. IsFiniteSet(range.conversions) /\ DOMAIN f = range.conversions
      BY ReportTables, FS_Subset DEF Ranges
    <3> HIDE DEF f
    <3>3. /\ Cardinality(ConversionReport(range)) = Cardinality(range.conversions)
          /\ Cardinality(range.conversions) \in Nat
      BY <3>1, <3>2, OneLineEach, FS_CardinalityType
    <3> QED BY <3>3, TotalReachesAll
  <2> QED BY <2>1, ClickLogShowsClick, ClickLogTotal
<1> QED BY <1>1, TypeCorrect, BookedInvariant, KeyedInvariant,
           CarriedInvariant, PTL
==============================================================================
