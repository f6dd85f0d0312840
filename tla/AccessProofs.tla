----------------------------- MODULE AccessProofs -----------------------------
(***************************************************************************)
(* What the gates of Access guarantee, for whatever role and whatever      *)
(* grants of permissions.                                                  *)
(***************************************************************************)
EXTENDS Access, TLAPS

Admins == {"SUPER_ADMIN", "ADMIN"}
Managers == {"SUPER_ADMIN", "ADMIN", "MANAGER"}

NeedsSuper == {"changeUserRole", "createRolePermission", "deleteRolePermission",
               "deleteFaq", "deleteSignupQuestion", "deleteSetting"}
NeedsAdmin == {"setUserActive", "softDeleteAdvertiser"}
NeedsManager == {"createAdvertiser", "updateAdvertiser"}
NeedsStaff ==
    {"createFaq", "updateFaq", "createSignupQuestion", "updateSignupQuestion",
     "createCrExperiment", "updateCrExperiment", "deleteCrExperiment",
     "createAffiliateGroup", "updateAffiliateGroup", "addGroupMember",
     "removeGroupMember", "createPaymentTerm", "updatePaymentTerm",
     "createAffiliatePayment", "updatePaymentStatus", "createReferral",
     "updateAffiliateStatus", "createNotification", "supportTickets",
     "updateSupportTicket"}
NeedsUser ==
    {"notifications", "notificationCount", "markNotificationRead",
     "markAllNotificationsRead", "mySupportTickets", "createSupportTicket",
     "payments", "paymentTerms"}

\* The gates that let in no one else than the name says.
SuperGates == {Again(SuperAdmin)}
AdminGates == {Ranked(Admins), Again(Ranked(Admins))}
ManagerGates == {Ranked(Managers)}
StaffGates == {Again(Staff)}

\* A handler is behind the gate its operation needs.
WellGated(h) ==
    /\ h.op \in NeedsSuper => h.gate \in SuperGates
    /\ h.op \in NeedsAdmin => h.gate \in AdminGates
    /\ h.op \in NeedsManager => h.gate \in ManagerGates
    /\ h.op \in NeedsStaff => h.gate \in StaffGates
    /\ h.op \in NeedsUser => h.gate = Again(SignedIn)

\* A handler of a group has the group's gate.
LEMMA GatedHandlers ==
    ASSUME NEW gate, NEW ops, NEW h \in Gated(gate, ops)
    PROVE  h.op \in ops /\ h.gate = gate
  BY DEF Gated

\* No handler of any resolver is behind a weaker gate than it needs.
LEMMA AllWellGated == \A h \in Handlers : WellGated(h)
<1> USE GatedHandlers DEF WellGated
<1> USE DEF NeedsSuper, NeedsAdmin, NeedsManager, NeedsStaff, NeedsUser
<1> USE DEF SuperGates, AdminGates, ManagerGates, StaffGates
<1>1. \A h \in UsersResolver : WellGated(h)
  BY DEF UsersResolver, Admins, Managers
<1>2. \A h \in AdvertisersResolver : WellGated(h)
  BY DEF AdvertisersResolver, Admins, Managers
<1>3. \A h \in CampaignsResolver : WellGated(h)
  BY DEF CampaignsResolver
<1>4. \A h \in CampaignOptionsResolver : WellGated(h)
  BY DEF CampaignOptionsResolver
<1>5. \A h \in SettingsResolver : WellGated(h)
  BY DEF SettingsResolver
<1>6. \A h \in SignupQuestionsResolver : WellGated(h)
  BY DEF SignupQuestionsResolver
<1>7. \A h \in FaqsResolver : WellGated(h)
  BY DEF FaqsResolver
<1>8. \A h \in FilesController : WellGated(h)
  BY DEF FilesController
<1>9. \A h \in LoginLogsResolver : WellGated(h)
  BY DEF LoginLogsResolver
<1>10. \A h \in SupportTicketsResolver : WellGated(h)
  BY DEF SupportTicketsResolver
<1>11. \A h \in NotificationsResolver : WellGated(h)
  BY DEF NotificationsResolver
<1>12. \A h \in AffiliatesResolver : WellGated(h)
  BY DEF AffiliatesResolver
<1>13. \A h \in AffiliateGroupsResolver : WellGated(h)
  BY DEF AffiliateGroupsResolver
<1>14. \A h \in AffiliatePaymentsResolver : WellGated(h)
  BY DEF AffiliatePaymentsResolver
<1>15. \A h \in OffersResolver : WellGated(h)
  BY DEF OffersResolver
<1>16. \A h \in CrOptimizerResolver : WellGated(h)
  BY DEF CrOptimizerResolver
<1>17. \A h \in ReferralProgramsResolver : WellGated(h)
  BY DEF ReferralProgramsResolver
<1>18. \A h \in RolePermissionsResolver : WellGated(h)
  BY DEF RolePermissionsResolver
<1>19. \A h \in BillingResolver : WellGated(h)
  BY DEF BillingResolver
<1>20. \A h \in AuthResolver : WellGated(h)
  BY DEF AuthResolver
<1>21. \A h \in AdminReportsResolvers : WellGated(h)
  BY DEF AdminReportsResolvers
<1>22. \A h \in DashboardResolvers : WellGated(h)
  BY DEF DashboardResolvers
<1> HIDE GatedHandlers
<1> QED
  BY <1>1, <1>2, <1>3, <1>4, <1>5, <1>6, <1>7, <1>8, <1>9, <1>10, <1>11, <1>12, <1>13, <1>14, <1>15, <1>16, <1>17, <1>18, <1>19, <1>20, <1>21, <1>22
  DEF Handlers

\* The rank that a hierarchical gate asks for is that of its lowest role.
LEMMA Ranks ==
    ASSUME NEW role \in Roles
    PROVE  /\ MeetsRank(role, Admins) => role \in Admins
           /\ MeetsRank(role, Managers) => role \in Managers
<1>1. /\ ROLE_RANK["AFFILIATE"] = 1 /\ ROLE_RANK["ADVERTISER"] = 2
      /\ ROLE_RANK["STAFF"] = 3 /\ ROLE_RANK["MANAGER"] = 4
      /\ ROLE_RANK["ADMIN"] = 5 /\ ROLE_RANK["SUPER_ADMIN"] = 6
  BY DEF ROLE_RANK, Roles, StaffRoles
<1> QED BY <1>1 DEF MeetsRank, Admins, Managers, Roles, StaffRoles

\* Whom RolesGuard lets in, whatever permissions the table grants: what the
\* decorators of each operation were written for (RolesGuard.canActivate).
THEOREM GatesHold ==
    ASSUME NEW op, NEW role \in Roles, NEW granted, Permits(op, role, granted)
    PROVE  /\ op \in NeedsSuper => role = "SUPER_ADMIN"
           /\ op \in NeedsAdmin => role \in Admins
           /\ op \in NeedsManager => role \in Managers
           /\ op \in NeedsStaff => role \in StaffRoles
<1>1. PICK h \in Handlers : h.op = op /\ CanActivate(h.gate, role, granted)
  BY DEF Permits
<1>2. WellGated(h)
  BY AllWellGated
<1>3. ASSUME h.gate \in SuperGates PROVE role = "SUPER_ADMIN"
  BY <1>1, <1>3 DEF SuperGates, CanActivate, Again, SuperAdmin, RolesExact,
                    SignedIn, MeetsRank
<1>4. ASSUME h.gate \in StaffGates PROVE role \in StaffRoles
  BY <1>1, <1>4 DEF StaffGates, CanActivate, Again, Staff, RolesExact, SignedIn,
                    MeetsRank, StaffRoles
<1>5. ASSUME h.gate \in AdminGates PROVE role \in Admins
  <2>1. MeetsRank(role, Admins)
    BY <1>1, <1>5 DEF AdminGates, CanActivate, Again, Ranked, SignedIn, Admins
  <2> QED BY <2>1, Ranks
<1>6. ASSUME h.gate \in ManagerGates PROVE role \in Managers
  <2>1. MeetsRank(role, Managers)
    BY <1>1, <1>6 DEF ManagerGates, CanActivate, Ranked, SignedIn, Managers
  <2> QED BY <2>1, Ranks
<1> QED BY <1>1, <1>2, <1>3, <1>4, <1>5, <1>6 DEF WellGated

\* No operation that writes, or shows what is not everyone's, is public.
THEOREM NoneIsPublic ==
    ASSUME NEW op \in NeedsSuper \cup NeedsAdmin \cup NeedsManager
                        \cup NeedsStaff \cup NeedsUser
    PROVE  ~IsPublic(op)
<1> SUFFICES ASSUME NEW h \in Handlers, h.op = op PROVE ~h.gate.public
  BY DEF IsPublic
<1>1. WellGated(h)
  BY AllWellGated
<1>2. ASSUME NEW roles
      PROVE  ~RolesExact(roles).public /\ ~Ranked(roles).public
  BY DEF SignedIn, RolesExact, Ranked
<1>3. ASSUME NEW roles
      PROVE  ~Again(RolesExact(roles)).public /\ ~Again(Ranked(roles)).public
  BY DEF SignedIn, RolesExact, Ranked, Again
<1>4. ~Again(SignedIn).public
  BY DEF SignedIn, Again
<1> QED
  BY <1>1, <1>2, <1>3, <1>4
  DEF WellGated, SuperGates, AdminGates, ManagerGates, StaffGates, Staff,
      SuperAdmin

-----------------------------------------------------------------------------
AsksNothing(gate) == gate.permissions = {}

LEMMA GatesAskNothing ==
    /\ AsksNothing(SignedIn) /\ AsksNothing(Public) /\ AsksNothing(Again(SignedIn))
    /\ \A roles : /\ AsksNothing(RolesExact(roles)) /\ AsksNothing(Ranked(roles))
                  /\ AsksNothing(Again(RolesExact(roles)))
                  /\ AsksNothing(Again(Ranked(roles)))
  BY DEF AsksNothing, SignedIn, Public, RolesExact, Ranked, Again

\* No decorator of any handler asks for a permission.
LEMMA NoHandlerAsks == \A h \in Handlers : AsksNothing(h.gate)
<1> DEFINE Free(handlers) == \A h \in handlers : AsksNothing(h.gate)
<1> USE GatedHandlers, GatesAskNothing DEF Staff, SuperAdmin
<1>1. Free(UsersResolver) /\ Free(AdvertisersResolver)
       /\ Free(CampaignsResolver) /\ Free(CampaignOptionsResolver)
  BY DEF UsersResolver, AdvertisersResolver,
         CampaignsResolver, CampaignOptionsResolver
<1>2. Free(SettingsResolver) /\ Free(SignupQuestionsResolver)
       /\ Free(FaqsResolver) /\ Free(FilesController)
  BY DEF SettingsResolver, SignupQuestionsResolver,
         FaqsResolver, FilesController
<1>3. Free(LoginLogsResolver) /\ Free(SupportTicketsResolver)
       /\ Free(NotificationsResolver) /\ Free(AffiliatesResolver)
  BY DEF LoginLogsResolver, SupportTicketsResolver,
         NotificationsResolver, AffiliatesResolver
<1>4. Free(AffiliateGroupsResolver) /\ Free(AffiliatePaymentsResolver)
       /\ Free(OffersResolver) /\ Free(CrOptimizerResolver)
  BY DEF AffiliateGroupsResolver, AffiliatePaymentsResolver,
         OffersResolver, CrOptimizerResolver
<1>5. Free(ReferralProgramsResolver) /\ Free(RolePermissionsResolver)
       /\ Free(BillingResolver) /\ Free(AuthResolver)
  BY DEF ReferralProgramsResolver, RolePermissionsResolver,
         BillingResolver, AuthResolver
<1>6. Free(AdminReportsResolvers) /\ Free(DashboardResolvers)
  BY DEF AdminReportsResolvers, DashboardResolvers
<1> HIDE GatedHandlers, GatesAskNothing
<1> QED BY <1>1, <1>2, <1>3, <1>4, <1>5, <1>6 DEF Handlers

\* The grants of permissions decide nothing: whatever the table RolePermission
\* holds, RolesGuard lets in the callers it would let in were it empty.  So a
\* request is judged on the one row that authentication has read
\* (roles.guard.ts, the last branch of canActivate).
THEOREM GrantsDecideNothing ==
    ASSUME NEW op, NEW role, NEW granted
    PROVE  Permits(op, role, granted) <=> Permits(op, role, {})
<1>1. ASSUME NEW h \in Handlers
      PROVE  CanActivate(h.gate, role, granted) <=> CanActivate(h.gate, role, {})
  BY NoHandlerAsks DEF AsksNothing, CanActivate
<1> QED BY <1>1 DEF Permits
===============================================================================
