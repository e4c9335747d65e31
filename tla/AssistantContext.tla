-------------------------- MODULE AssistantContext --------------------------
(***************************************************************************)
(* The assistant profile of an organization, its published revisions and   *)
(* the onboarding form that also edits it (backend/apps/assistant_context, *)
(* OrganizationOnboardingView).  Publishing locks the profile; the edit    *)
(* forms read the row into asRead and write all of it back.                *)
(***************************************************************************)
EXTENDS Naturals, FiniteSets

CONSTANTS
    Texts,              \* bound: what the required fields may say
    Empty,              \* a required field is missing
    Requests,           \* bound: requests in flight
    MaxVersion,         \* bound: revisions
    Steps               \* the steps of the onboarding

VARIABLES asProfile, asRevision, asSteps, asBranch, asRead

asVars == <<asProfile, asRevision, asSteps, asBranch, asRead>>

-----------------------------------------------------------------------------
ProfileRow == [text: Texts, status: {"draft", "published"}, version: 0 .. MaxVersion, snapshot: Texts]
NoRevision == "none"
Idle == [at |-> "idle"]
Onboarding == [done: SUBSET Steps, complete: BOOLEAN]

ContextTypeOK ==
    /\ asProfile \in ProfileRow
    /\ asRevision \in [1 .. MaxVersion -> Texts \cup {NoRevision}]
    /\ asSteps \in Onboarding
    /\ asBranch \in BOOLEAN
    /\ \A r \in Requests : \/ asRead[r] = Idle
                           \/ asRead[r] \in [at: {"edit"}, row: ProfileRow]
                           \/ asRead[r] \in [at: {"onboarding"}, row: ProfileRow, steps: Onboarding]

ContextInit ==
    /\ asProfile = [text |-> Empty, status |-> "draft", version |-> 0, snapshot |-> Empty]
    /\ asRevision = [v \in 1 .. MaxVersion |-> NoRevision]
    /\ asSteps = [done |-> {}, complete |-> FALSE]
    /\ asBranch = FALSE
    /\ asRead = [r \in Requests |-> Idle]

Edited(row, text) == [row EXCEPT !.text = text, !.status = "draft"]

-----------------------------------------------------------------------------
(* AssistantContextView.patch.                                             *)

EditBegin(r) ==
    /\ asRead[r] = Idle
    /\ asRead' = [asRead EXCEPT ![r] = [at |-> "edit", row |-> asProfile]]
    /\ UNCHANGED <<asProfile, asRevision, asSteps, asBranch>>

EditSave(r, text) ==
    /\ asRead[r].at = "edit"
    /\ asProfile' = Edited(asRead[r].row, text)
    /\ asRead' = [asRead EXCEPT ![r] = Idle]
    /\ UNCHANGED <<asRevision, asSteps, asBranch>>

(* publish_assistant_profile, on the locked row.  The revision's number is *)
(* unique in the organization: a taken one rolls everything back.          *)
NextVersion(row) == row.version + 1

Publish ==
    LET version == NextVersion(asProfile) IN
    /\ asProfile.text # Empty
    /\ version <= MaxVersion
    /\ asRevision[version] = NoRevision
    /\ asRevision' = [asRevision EXCEPT ![version] = asProfile.text]
    /\ asProfile' = [asProfile EXCEPT !.version = version, !.status = "published", !.snapshot = asProfile.text]
    /\ UNCHANGED <<asSteps, asBranch, asRead>>

-----------------------------------------------------------------------------
(* OrganizationOnboardingView.patch: one transaction, no lock.             *)

OnboardingBegin(r) ==
    /\ asRead[r] = Idle
    /\ asRead' = [asRead EXCEPT ![r] = [at |-> "onboarding", row |-> asProfile, steps |-> asSteps]]
    /\ UNCHANGED <<asProfile, asRevision, asSteps, asBranch>>

StepDone(steps, step) == [steps EXCEPT !.done = @ \cup {step}]

\* branch: the form brings the first branch
OnboardingSave(r, text, step, branch) ==
    /\ asRead[r].at = "onboarding"
    /\ asProfile' = Edited(asRead[r].row, text)
    /\ asBranch' = (asBranch \/ branch)
    /\ asSteps' = StepDone(asRead[r].steps, step)
    /\ asRead' = [asRead EXCEPT ![r] = Idle]
    /\ UNCHANGED asRevision

(* complete: what is missing rolls the whole form back.                    *)
OnboardingComplete(r, text, branch) ==
    /\ asRead[r].at = "onboarding"
    /\ IF text # Empty /\ (asBranch \/ branch)
       THEN /\ asProfile' = Edited(asRead[r].row, text)
            /\ asBranch' = TRUE
            /\ asSteps' = [done |-> Steps, complete |-> TRUE]
       ELSE UNCHANGED <<asProfile, asBranch, asSteps>>
    /\ asRead' = [asRead EXCEPT ![r] = Idle]
    /\ UNCHANGED asRevision

ContextNext ==
    \/ \E r \in Requests : EditBegin(r) \/ OnboardingBegin(r)
    \/ \E r \in Requests, text \in Texts : EditSave(r, text)
    \/ Publish
    \/ \E r \in Requests, text \in Texts, step \in Steps, branch \in BOOLEAN : OnboardingSave(r, text, step, branch)
    \/ \E r \in Requests, text \in Texts, branch \in BOOLEAN : OnboardingComplete(r, text, branch)

ContextSpec == ContextInit /\ [][ContextNext]_asVars

-----------------------------------------------------------------------------
(* What the assistant answers from is always a published revision, the one *)
(* the profile's version names, even when an edit that overlaps a publish  *)
(* takes the profile back (assistant_context/services.py:29-47).           *)
SnapshotIsRevision ==
    asProfile.version > 0 => asProfile.snapshot = asRevision[asProfile.version]

(* docs/architecture/client-onboarding.md: publishing increments the       *)
(* version.  The version never goes back.                                  *)
VersionAdvances == [][asProfile'.version >= asProfile.version]_asVars
=============================================================================
