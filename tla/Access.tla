-------------------------------- MODULE Access --------------------------------
(***************************************************************************)
(* Who may call what: the decorators of every resolver and controller as   *)
(* one gate per operation, and RolesGuard.canActivate, which judges them.  *)
(***************************************************************************)
EXTENDS Naturals

StaffRoles == {"STAFF", "MANAGER", "ADMIN", "SUPER_ADMIN"}
Roles == StaffRoles \cup {"ADVERTISER", "AFFILIATE"}

ROLE_RANK ==
    [role \in Roles |->
       CASE role = "AFFILIATE"  -> 1 [] role = "ADVERTISER" -> 2
         [] role = "STAFF"      -> 3 [] role = "MANAGER"    -> 4
         [] role = "ADMIN"      -> 5 [] OTHER               -> 6]

\* A gate holds the metadata of a handler; "again" says that the handler also
\* has the authentication guard of its own, which runs after the global ones.
SignedIn == [public |-> FALSE, exact |-> {}, ranked |-> {},
             permissions |-> {}, again |-> FALSE]
Public == [SignedIn EXCEPT !.public = TRUE]
RolesExact(roles) == [SignedIn EXCEPT !.exact = roles]
Ranked(roles) == [SignedIn EXCEPT !.ranked = roles]
Again(gate) == [gate EXCEPT !.again = TRUE]

Staff == RolesExact(StaffRoles)
SuperAdmin == RolesExact({"SUPER_ADMIN"})

Gated(gate, ops) == {[op |-> op, gate |-> gate] : op \in ops}

-----------------------------------------------------------------------------
UsersResolver ==
    Gated(Again(Ranked(StaffRoles)), {"users"})
      \cup Gated(Again(Ranked({"SUPER_ADMIN", "ADMIN"})), {"setUserActive"})
      \cup Gated(Again(SuperAdmin), {"changeUserRole"})

AdvertisersResolver ==
    Gated(Ranked(StaffRoles), {"advertisers", "advertisersCount", "advertiser"})
      \cup Gated(RolesExact({"ADVERTISER", "SUPER_ADMIN", "ADMIN", "MANAGER"}),
                 {"myAdvertiserProfile"})
      \cup Gated(Ranked({"SUPER_ADMIN", "ADMIN", "MANAGER"}),
                 {"createAdvertiser", "updateAdvertiser"})
      \cup Gated(Ranked({"SUPER_ADMIN", "ADMIN"}), {"softDeleteAdvertiser"})

CampaignsResolver ==
    Gated(Ranked(StaffRoles \cup {"ADVERTISER"}),
          {"campaigns", "campaignsCount", "campaign"})
      \cup Gated(RolesExact({"ADVERTISER"}), {"createCampaign"})
      \cup Gated(RolesExact({"ADVERTISER", "ADMIN", "SUPER_ADMIN"}),
                 {"updateCampaign", "toggleCampaignStatus", "softDeleteCampaign"})

CampaignOptionsResolver == Gated(Public, {"campaignOptions"})

SettingsResolver ==
    Gated(Again(Staff), {"settings", "setting", "upsertSetting"})
      \cup Gated(Again(SuperAdmin), {"deleteSetting"})

SignupQuestionsResolver ==
    Gated(Public, {"signupQuestions", "signupQuestion"})
      \cup Gated(Again(Staff), {"createSignupQuestion", "updateSignupQuestion"})
      \cup Gated(Again(SuperAdmin), {"deleteSignupQuestion"})

FaqsResolver ==
    Gated(Public, {"faqs", "faq"})
      \cup Gated(Again(Staff), {"createFaq", "updateFaq"})
      \cup Gated(Again(SuperAdmin), {"deleteFaq"})

FilesController ==
    Gated(RolesExact({"ADVERTISER", "SUPER_ADMIN", "ADMIN"}), {"upload"})
      \cup Gated(Public, {"serve"})

LoginLogsResolver ==
    Gated(Again(SignedIn), {"myLoginLogs"})
      \cup Gated(Again(Staff), {"loginLogs"})

SupportTicketsResolver ==
    Gated(Again(SignedIn), {"mySupportTickets", "createSupportTicket"})
      \cup Gated(Again(Staff), {"supportTickets", "updateSupportTicket"})

NotificationsResolver ==
    Gated(Again(SignedIn), {"notifications", "notificationCount",
                            "markNotificationRead", "markAllNotificationsRead"})
      \cup Gated(Again(Staff), {"createNotification"})

AffiliatesResolver ==
    Gated(Again(RolesExact({"AFFILIATE"})), {"myAffiliateProfile"})
      \cup Gated(Again(Staff), {"affiliate", "affiliates", "updateAffiliateStatus"})

AffiliateGroupsResolver ==
    Gated(Again(Staff), {"affiliateGroups", "affiliateGroup",
                         "createAffiliateGroup", "updateAffiliateGroup",
                         "addGroupMember", "removeGroupMember"})

AffiliatePaymentsResolver ==
    Gated(Again(SignedIn), {"paymentTerms", "payments"})
      \cup Gated(Again(Staff), {"createPaymentTerm", "updatePaymentTerm",
                                "createAffiliatePayment", "updatePaymentStatus"})

OffersResolver ==
    Gated(Again(SignedIn), {"offers", "offer"})
      \cup Gated(Again(Staff), {"createOffer", "updateOffer", "approveOffer"})

CrOptimizerResolver ==
    Gated(Again(SignedIn), {"crExperiments", "crExperiment"})
      \cup Gated(Again(Staff), {"createCrExperiment", "updateCrExperiment",
                                "deleteCrExperiment"})

ReferralProgramsResolver ==
    Gated(Again(SignedIn), {"referralByCode", "myReferrals", "myReferralStats"})
      \cup Gated(Again(Staff), {"createReferral"})

RolePermissionsResolver ==
    Gated(Again(SignedIn), {"rolePermissions", "rolePermissionsByRole"})
      \cup Gated(Again(SuperAdmin), {"createRolePermission",
                                     "deleteRolePermission"})

BillingResolver ==
    Gated(Public, {"plans", "plan"})
      \cup Gated(Again(SignedIn), {"mySubscription", "myInvoices",
                                   "myPaymentMethods", "createCheckoutSession",
                                   "createBillingPortalSession"})
      \cup Gated(Again(RolesExact({"SUPER_ADMIN", "ADMIN", "MANAGER"})),
                 {"createPlan", "updatePlan"})

AuthResolver ==
    Gated(Public, {"registerAffiliate", "signIn", "refreshSession", "logout"})
      \cup Gated(SignedIn, {"me"})

AdminReportsResolvers ==
    Gated(Again(Staff), {"offerReports", "affiliateReports", "advertiserReports",
                         "conversionReports", "clickLogReports", "fraudReports",
                         "affiliatePostbackLogs", "advertiserPostbackLogs"})

DashboardResolvers ==
    Gated(Again(RolesExact(StaffRoles \cup {"ADVERTISER"})),
          {"overviewStats", "topCampaigns", "performanceSeries"})

Handlers ==
    UNION {UsersResolver, AdvertisersResolver, CampaignsResolver,
           CampaignOptionsResolver, SettingsResolver, SignupQuestionsResolver,
           FaqsResolver, FilesController, LoginLogsResolver,
           SupportTicketsResolver, NotificationsResolver, AffiliatesResolver,
           AffiliateGroupsResolver, AffiliatePaymentsResolver, OffersResolver,
           CrOptimizerResolver, ReferralProgramsResolver,
           RolePermissionsResolver, BillingResolver, AuthResolver,
           AdminReportsResolvers, DashboardResolvers}

Operations == {h.op : h \in Handlers}

-----------------------------------------------------------------------------
\* meetsRank: the rank of the role reaches the smallest of the required ones.
MeetsRank(role, required) ==
    \E other \in required : ROLE_RANK[role] >= ROLE_RANK[other]

\* canActivate, for a user that is signed in: a rule on roles decides alone;
\* permissions count only for a handler that has none.
CanActivate(gate, role, granted) ==
    \/ gate.public
    \/ gate.exact \cup gate.ranked \cup gate.permissions = {}
    \/ role \in gate.exact
    \/ MeetsRank(role, gate.ranked)
    \/ /\ gate.exact \cup gate.ranked = {}
       /\ \E p \in gate.permissions : <<role, p>> \in granted

IsPublic(op) == \E h \in Handlers : h.op = op /\ h.gate.public
ChecksAgain(op) == \E h \in Handlers : h.op = op /\ h.gate.again
Permits(op, role, granted) ==
    \E h \in Handlers : h.op = op /\ CanActivate(h.gate, role, granted)
===============================================================================
