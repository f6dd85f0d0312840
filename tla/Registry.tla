------------------------------- MODULE Registry -------------------------------
(***************************************************************************)
(* The tables that staff keep with plain creates, updates and deletes:     *)
(* FAQs, signup questions, experiments, affiliate groups and their         *)
(* members, payment terms, referrals, settings, the status of affiliates.  *)
(* Every operation is one call: the unique index answers a second create   *)
(* with a conflict, an update or a delete of no row is not found.  Signup  *)
(* questions and experiments are only ever deleted: the pipe refuses the   *)
(* rest before it gets here (Undecorated).                                 *)
(***************************************************************************)
EXTENDS Accounts

CONSTANTS
    Codes,      \* the keys a caller chooses: codes, affiliates, pairs of ids
    Stored      \* the rows there at first: pairs <<kind, code>>

Contents == {"first", "second"}

\* A table and the operations that write it; "unique" says that the caller
\* chooses the key and a unique index guards it.
Table(kind, unique, creates, updates, deletes) ==
    [kind |-> kind, unique |-> unique, creates |-> creates,
     updates |-> updates, deletes |-> deletes]

Faqs == Table("faq", FALSE, {"createFaq"}, {"updateFaq"}, {"deleteFaq"})
SignupQuestions == Table("question", FALSE, {"createSignupQuestion"},
                         {"updateSignupQuestion"}, {"deleteSignupQuestion"})
Experiments == Table("experiment", FALSE, {"createCrExperiment"},
                     {"updateCrExperiment"}, {"deleteCrExperiment"})
Groups == Table("group", FALSE, {"createAffiliateGroup"},
                {"updateAffiliateGroup"}, {})
Members == Table("member", TRUE, {"addGroupMember"}, {}, {"removeGroupMember"})
PaymentTerms == Table("term", TRUE, {"createPaymentTerm"},
                      {"updatePaymentTerm"}, {})
Referrals == Table("referral", TRUE, {"createReferral"}, {}, {})
Settings == Table("setting", TRUE, {}, {}, {"deleteSetting"})
AffiliateStatuses == Table("affiliate", TRUE, {}, {"updateAffiliateStatus"}, {})

RegistryTables == {Faqs, SignupQuestions, Experiments, Groups, Members,
                   PaymentTerms, Referrals, Settings, AffiliateStatuses}

Kinds == {t.kind : t \in RegistryTables}
RegistryOps == UNION {t.creates \cup t.updates \cup t.deletes : t \in RegistryTables}

ASSUME RegistryAssumption == Stored \subseteq Kinds \X Codes

VARIABLE registry   \* a function on the pairs <<kind, key>> stored

RegistryKeys == Kinds \X (Reqs \cup Codes)

RegistryTypeOK ==
    /\ DOMAIN registry \subseteq RegistryKeys
    /\ registry \in [DOMAIN registry -> Contents]

RegistryInit == registry = [k \in Stored |-> "first"]

-----------------------------------------------------------------------------
\* A row of a table without a unique index gets an id of its own.
CreateRow(r, t, code, content) ==
    /\ req[r].pc = "call" /\ req[r].by.op \in t.creates
    /\ LET row == <<t.kind, IF t.unique THEN code ELSE r>> IN
       IF row \in DOMAIN registry
       THEN UNCHANGED registry /\ Refuse(r, "conflict")
       ELSE registry' = Insert(registry, row, content) /\ Reply(r)

UpdateRow(r, t, key, content) ==
    /\ req[r].pc = "call" /\ req[r].by.op \in t.updates
    /\ IF <<t.kind, key>> \in DOMAIN registry
       THEN registry' = [registry EXCEPT ![<<t.kind, key>>] = content] /\ Reply(r)
       ELSE UNCHANGED registry /\ Refuse(r, "notFound")

DeleteRow(r, t, key) ==
    /\ req[r].pc = "call" /\ req[r].by.op \in t.deletes
    /\ IF <<t.kind, key>> \in DOMAIN registry
       THEN /\ registry' = [k \in DOMAIN registry \ {<<t.kind, key>>} |-> registry[k]]
            /\ Reply(r)
       ELSE UNCHANGED registry /\ Refuse(r, "notFound")

ServeRegistry(r) ==
    \E t \in RegistryTables :
       \/ \E code \in Codes, content \in Contents : CreateRow(r, t, code, content)
       \/ \E key \in Reqs \cup Codes :
            DeleteRow(r, t, key) \/ \E content \in Contents : UpdateRow(r, t, key, content)
===============================================================================
