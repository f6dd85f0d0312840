------------------------------- MODULE Reports -------------------------------
(***************************************************************************)
(* The reports on clicks and conversions, as the queries of                *)
(* AdminReportsService, OverviewService and TopCampaignsService compute    *)
(* them from the tables of Tracking at any moment.  Abstracted: amounts,   *)
(* the order of the lines and their layout.                                *)
(***************************************************************************)
EXTENDS Tracking

\* NULL is not a row.
ASSUME ReportsAssumption == Absent \notin ClickRows \cup ConversionRows

\* A range of dates is known by the rows that were created in it; which ones
\* is left open, so a click may lie in the range and its conversion outside.
Ranges == [clicks : SUBSET clicks, conversions : SUBSET conversions]

\* The rows a LEFT JOIN finds for a row of its left side.
OrNull(rows) == IF rows = {} THEN {Absent} ELSE rows

ClicksIn(ids, range) == {c \in range.clicks : c.campaignId \in ids}
ConversionsIn(ids, range) == {v \in range.conversions : v.campaignId \in ids}

\* Faulty variant: campaigns without a conversion are left out.
JoinedInner(id, range) == ClicksIn({id}, range) \X ConversionsIn({id}, range)

\* A campaign with its clicks and, independently of them, its conversions:
\* every click meets every conversion of the campaign.
Joined(id, range) ==
    OrNull(ClicksIn({id}, range)) \X OrNull(ConversionsIn({id}, range))

CountClicks(lines) == Cardinality({l \in lines : l[1] # Absent})
CountConversions(lines) == Cardinality({l \in lines : l[2] # Absent})

Counted(lines) ==
    [clicks |-> CountClicks(lines), conversions |-> CountConversions(lines)]

\* The offer report is about the campaigns created in the range: an older one
\* has no line, whatever happened to it in the range.
OfferReport(created, range) == [id \in created |-> Counted(Joined(id, range))]

\* The campaigns with most revenue, at most "limit" of them: any set may be.
\* The rate that is shown follows from the counts.
TopCampaigns(best, range) == [id \in best |-> Counted(Joined(id, range))]

\* An advertiser has any set of campaigns.
AdvertiserReport(ids, range) == Counted(UNION {Joined(id, range) : id \in ids})

OverviewStats(ids, range) ==
    LET lines == UNION {Joined(id, range) : id \in ids} IN
    [totalClicks |-> CountClicks(lines),
     uniqueClicks |-> CountClicks({l \in lines : l[1] # Absent /\ l[1].isUnique}),
     conversions |-> CountConversions(lines)]

\* Faulty variant: the click is looked for by the campaign.
ConversionReportByCampaign(range) ==
    UNION {{v} \X OrNull(ClicksIn({v.campaignId}, range)) : v \in range.conversions}

\* A line for each conversion of a campaign that is stored, with its click,
\* whenever that was.
ConversionReport(range) ==
    UNION {{v} \X OrNull(ClickOf(v.clickId)) :
             v \in ConversionsIn(DOMAIN campaign, range)}

\* Some conversions are those of an affiliate; distinct clicks are counted,
\* those in the range.
AffiliateReport(own, range) ==
    LET lines == UNION {{v} \X OrNull(ClickOf(v.clickId) \cap range.clicks) :
                          v \in own \cap range.conversions}
    IN  [clicks |-> Cardinality({l[2] : l \in lines} \ {Absent}),
         conversions |-> Cardinality(lines)]

\* Faulty variant: a click without a conversion has no line.
ClickLogInner(range) ==
    {l \in ClicksIn(DOMAIN campaign, range) \X conversions :
       l[2].clickId = l[1].clickId}

\* A click with several conversions has a line for each of them, whenever
\* they were.
ClickLog(range) ==
    UNION {{c} \X OrNull({v \in conversions : v.clickId = c.clickId}) :
             c \in ClicksIn(DOMAIN campaign, range)}

AdvertiserPostbackLogs == {l.txn : l \in postbackLog}

\* Faulty variant: the total is taken for the number of the last line.
ReachedShort(i, pageSize, total) ==
    LET offset == i - (i % pageSize) IN offset = 0 \/ offset < total - 1

\* paginatedReport: from page to page nextCursor leads as long as the offset is
\* below the total, which is counted by itself. Does it lead to the line at i,
\* counted from 0?
Reached(i, pageSize, total) ==
    LET offset == i - (i % pageSize) IN offset = 0 \/ offset < total

\* A page as large as the report shows it all.
AllReached(lines, total) ==
    \A pageSize \in 1..Cardinality(lines) :
        \A i \in 0..(Cardinality(lines) - 1) : Reached(i, pageSize, total)

-----------------------------------------------------------------------------
\* The reports that pay people agree at any moment, with each other and with
\* the tables: of the conversions of a range each has one line in the
\* conversion report, beside the click it came from, and counts once for its
\* affiliate, whose clicks are the ones of the range that converted; each one
\* stored has one line in the log of postbacks.
ReportsShowEachConversionOnce ==
    /\ AdvertiserPostbackLogs = {v.txn : v \in conversions}
    /\ \A range \in Ranges :
         LET report == ConversionReport(range) IN
         /\ Cardinality(report) = Cardinality(range.conversions)
         /\ \A l \in report : /\ l[1] \in range.conversions
                              /\ l[2] # Absent /\ l[2].campaignId = l[1].campaignId
         /\ \A own \in SUBSET conversions :
              LET mine == own \cap range.conversions IN
              AffiliateReport(own, range) =
                [clicks |-> Cardinality({c \in range.clicks :
                              \E v \in mine : v.clickId = c.clickId}),
                 conversions |-> Cardinality(mine)]

\* A count leaves none of the rows out, and counts nothing when there is none.
Covers(count, rows) ==
    count >= Cardinality(rows) /\ (rows = {} => count = 0)

\* The reports that join clicks with conversions may count a row many times,
\* but for the campaigns they are about, whichever these are, every count
\* covers the rows of the range and is zero where there is none.
ReportsCoverTheirRange ==
    \A range \in Ranges, ids \in SUBSET DOMAIN campaign :
        LET seen == ClicksIn(ids, range)
            sold == ConversionsIn(ids, range)
            advertiser == AdvertiserReport(ids, range)
            overview == OverviewStats(ids, range)
        IN  /\ \A id \in ids :
                 \A line \in {OfferReport(ids, range)[id], TopCampaigns(ids, range)[id]} :
                   /\ Covers(line.clicks, ClicksIn({id}, range))
                   /\ Covers(line.conversions, ConversionsIn({id}, range))
            /\ Covers(advertiser.clicks, seen)
            /\ Covers(advertiser.conversions, sold)
            /\ Covers(overview.totalClicks, seen)
            /\ Covers(overview.uniqueClicks, {c \in seen : c.isUnique})
            /\ Covers(overview.conversions, sold)

\* A client that follows the cursors of the service through a report comes to
\* every line of the conversion report. Through the click log it does so for
\* every size of page if and only if no click of the range has converted twice:
\* the total counts clicks, but there is a line for each conversion.
PagesEndWithTheReport ==
    \A range \in Ranges :
        /\ AllReached(ConversionReport(range), Cardinality(range.conversions))
        /\ \A c \in range.clicks :
             /\ \E l \in ClickLog(range) : l[1] = c
             /\ \A l \in ClickLog(range) : l[1] = c =>
                  (l[2] # Absent <=> \E v \in conversions : v.clickId = c.clickId)
        /\ AllReached(ClickLog(range), Cardinality(range.clicks)) <=>
             \A v, w \in conversions :
               v # w /\ v.clickId = w.clickId =>
                 \A c \in range.clicks : c.clickId # v.clickId
===============================================================================
