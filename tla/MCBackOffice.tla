----------------------------- MODULE MCBackOffice -----------------------------
EXTENDS BackOffice, TLC

CONSTANTS r1, r2, r3, root, manager, affiliate

Account(role) == [role |-> role, active |-> TRUE]

MCRoster ==
    root       :> Account("SUPER_ADMIN") @@
    manager    :> Account("MANAGER") @@
    affiliate  :> Account("AFFILIATE")

MCManaged == "a1" :> manager @@ "a2" :> Nobody @@ "a3" :> Nobody
MCSeniority == <<"a1", "a2", "a3">>
MCCampaignOwner == "c1" :> affiliate @@ "c2" :> manager
MCPosted == "n1" :> Everyone
MCStatusInputs == {"OPEN", "CLOSED"}
MCStored == {<<"setting", "k">>, <<"affiliate", "k">>}

-----------------------------------------------------------------------------
Everybody == {root, manager, affiliate}

\* What the first, the second and the third request may ask for.
Load(first, second, third) == r1 :> first @@ r2 :> second @@ r3 :> third
None == {}

RoleChange == {<<"changeUserRole", root>>}

\* A role or an account that changes while another request is served.
RoleLoads ==
    {Load(RoleChange, {op} \X Everybody, None) :
        op \in {"deleteFaq", "deleteSetting", "updateAdvertiser", "campaign",
                "updateCampaign", "campaigns", "payments", "supportTickets"}}
      \cup {Load(RoleChange, {"setUserActive", "changeUserRole"} \X {root, manager},
                 None),
            Load({<<"createRolePermission", root>>},
                 {"createRolePermission", "deleteRolePermission"} \X {root}, None)}

\* Two requests of the same user, or of two, mark what a third creates.
Marking(users_) ==
    {"markNotificationRead", "markAllNotificationsRead"} \X users_

NoticeLoads ==
    {Load({<<"createNotification", root>>}, Marking({affiliate}),
          Marking({affiliate, manager})),
     Load({<<"createNotification", root>>},
          {"notificationCount", "notifications"} \X {affiliate},
          Marking({affiliate}))}

TicketLoads ==
    {Load({<<"createSupportTicket", affiliate>>},
          {<<"updateSupportTicket", manager>>}, third) :
        third \in {RoleChange, {<<"updateSupportTicket", manager>>},
                   {<<"mySupportTickets", affiliate>>,
                    <<"supportTickets", manager>>}}}

PayoutLoads ==
    {Load({<<"createAffiliatePayment", root>>},
          {<<"updatePaymentStatus", manager>>},
          {<<"updatePaymentStatus", manager>>} \cup ({"payments"} \X Everybody)),
     Load({"paymentTerms"} \X Everybody, RoleChange, None)}

AdvertiserLoads ==
    {Load({<<"advertisers", manager>>},
          {"createAdvertiser", "softDeleteAdvertiser"} \X {root},
          {"createAdvertiser", "softDeleteAdvertiser"} \X {root}),
     Load({<<"updateAdvertiser", manager>>}, {"updateAdvertiser"} \X Everybody,
          None)}

RegistryLoads ==
    {Load(t.creates \X {root}, (t.creates \cup t.updates) \X {manager},
          t.deletes \X {root, manager}) : t \in RegistryTables}

QueryLoads ==
    {Load((Elsewhere \cup CampaignOps \cup CampaignLists)
            \X (Everybody \cup {Nobody}), None, None)}

MCTraffic == RoleLoads \cup NoticeLoads \cup TicketLoads \cup PayoutLoads
               \cup AdvertiserLoads \cup RegistryLoads \cup QueryLoads
===============================================================================
