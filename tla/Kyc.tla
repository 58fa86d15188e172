-------------------------------- MODULE Kyc --------------------------------
(***************************************************************************)
(* The KYC profile of one user of identity_service: submission of the      *)
(* documents, the decision of an administrator, the biometric check, edits *)
(* and deletion, the forms of the admin site, and expire_old_kycs.  What   *)
(* becomes of the claim is_kyc_verified in tokens is in Access.            *)
(*                                                                         *)
(* A request gets its copy of the row and later saves all of its columns.  *)
(* Django's save() inserts the row again when it has been deleted          *)
(* meanwhile.                                                              *)
(***************************************************************************)
EXTENDS Integers

CONSTANTS
    Handlers,     \* threads that serve requests
    Sweeper,      \* the Celery worker that runs expire_old_kycs
    Tiers,        \* tiers an administrator can grant
    Forms,        \* what an administrator enters into the form of the profile
    LastMonth,    \* bound of the clock
    MaxProfiles   \* bound: how many profiles are created, one after another

KycStatus == {"pending", "analyzed", "approved", "rejected", "expired"}

ASSUME KycAssumption ==
    /\ Sweeper \notin Handlers
    /\ Tiers # {}
    /\ Forms \subseteq [status : KycStatus, verified : BOOLEAN, tier : Tiers, expires : Nat]
    /\ LastMonth \in Nat
    /\ MaxProfiles \in Nat

VARIABLES
    profile,    \* the KYCProfile of the user, or NoProfile
    created,    \* profiles created so far; the last one has this id
    month,      \* the clock; an approval holds for thirty days
    hand,       \* what each actor is at
    copy,       \* the copy of the profile it holds
    granted,    \* status and tier of the verifications by administrators so far
    options     \* see OnlyOldCopiesUndo

kycWork == <<hand, copy>>
kycVars == <<profile, created, month, kycWork, granted, options>>

Actors    == Handlers \cup {Sweeper}
Profile   == [id : Nat, status : KycStatus, verified : BOOLEAN, tier : Tiers,
              expires : Nat]
NoProfile == [id |-> 0]
Grants    == [status : KycStatus, tier : Tiers]
Decisions == [status : KycStatus, verified : BOOLEAN]
HandSteps == {"idle", "submitting", "holding", "expiring"}

KycTypeOK ==
    /\ profile \in Profile \cup {NoProfile}
    /\ created \in Nat
    /\ month \in Nat
    /\ hand \in [Actors -> HandSteps]
    /\ copy \in [Actors -> Profile \cup {NoProfile}]
    /\ granted \subseteq Grants
    /\ options \subseteq Decisions

KycInit ==
    /\ profile = NoProfile
    /\ created = 0
    /\ month = 0
    /\ hand = [a \in Actors |-> "idle"]
    /\ copy = [a \in Actors |-> NoProfile]
    /\ granted = {}
    /\ options = {}

Exists == profile # NoProfile

\* expires = 0: expires_at is null.
DefaultTier == CHOOSE t \in Tiers : TRUE

NewProfile ==
    [id |-> created + 1, status |-> "pending", verified |-> FALSE,
     tier |-> DefaultTier, expires |-> 0]

Take(a, what, row) ==
    /\ hand' = [hand EXCEPT ![a] = what]
    /\ copy' = [copy EXCEPT ![a] = row]

Leave(a) == Take(a, "idle", NoProfile)

Decision(row) == [status |-> row.status, verified |-> row.verified]

\* A new status stands from now on, and so may what others have read by now.
Stand(a, status, verified) ==
    options' = {[status |-> status, verified |-> verified]}
                   \cup {Decision(copy[b]) : b \in {c \in Handlers \ {a} : hand[c] = "holding"}}

\* save(): an update, or an insert where the row is gone.  The insert fails
\* when the user has a new profile by now.
Savable(row) == Exists => profile.id = row.id

-----------------------------------------------------------------------------
(* Requests of the user                                                      *)

\* KYCSerializer1.validate
Submit(h) ==
    /\ hand[h] = "idle"
    /\ Exists => profile.status \notin {"pending", "approved"}
    /\ Take(h, "submitting", NoProfile)
    /\ UNCHANGED <<profile, created, month, granted, options>>

\* Mutant of Submitted: is_verified is left as it was.
SubmittedVerified(row) == [row EXCEPT !.status = "pending"]

\* Mutant of Submitted: a status that the model has no name for.
SubmittedForReview(row) == [row EXCEPT !.status = "in_review", !.verified = FALSE]

Submitted(row) == [row EXCEPT !.status = "pending", !.verified = FALSE]

Create ==
    /\ created < MaxProfiles
    /\ created' = created + 1
    /\ profile' = NewProfile

\* submit_kyc: update_or_create locks the row as it is by now and saves the
\* columns it names.
SaveSubmission(h) ==
    /\ hand[h] = "submitting"
    /\ \/ ~Exists /\ Create
       \/ Exists /\ profile' = Submitted(profile) /\ UNCHANGED created
    /\ Stand(h, "pending", FALSE)
    /\ Leave(h)
    /\ UNCHANGED <<month, granted>>

\* verify_biometric gets or creates the profile once NADRA has agreed; the
\* save of the two biometric columns is SaveCopy.
VerifyBiometric(h) ==
    /\ hand[h] = "idle"
    /\ ~Exists
    /\ Create
    /\ Stand(h, "pending", FALSE)
    /\ Take(h, "holding", NewProfile)
    /\ UNCHANGED <<month, granted>>

-----------------------------------------------------------------------------
(* Requests for an existing profile                                          *)

\* get_object (or get_or_create).  PakRemitPermission lets an administrator
\* pass, and the owner whose token claims to be verified.
GetObject(h) ==
    /\ hand[h] = "idle"
    /\ Exists
    /\ Take(h, "holding", profile)
    /\ UNCHANGED <<profile, created, month, granted, options>>

\* approve_kyc.  Nothing looks at the status the profile has.
Approve(h, tier) ==
    /\ hand[h] = "holding"
    /\ Savable(copy[h])
    /\ profile' = [copy[h] EXCEPT !.status = "approved", !.verified = TRUE,
                                  !.tier = tier, !.expires = month + 1]
    /\ granted' = granted \cup {[status |-> "approved", tier |-> tier]}
    /\ Stand(h, "approved", TRUE)
    /\ Leave(h)
    /\ UNCHANGED <<created, month>>

\* Mutant of Rejected: the status is left as it was.
RejectedUnverified(row) == [row EXCEPT !.verified = FALSE]

\* reject_kyc
Rejected(row) == [row EXCEPT !.status = "rejected", !.verified = FALSE]

Reject(h) ==
    /\ hand[h] = "holding"
    /\ Savable(copy[h])
    /\ profile' = Rejected(copy[h])
    /\ Stand(h, "rejected", FALSE)
    /\ Leave(h)
    /\ UNCHANGED <<created, month, granted>>

\* PUT and PATCH change no field (all are read-only) and save every column all
\* the same; so does verify_biometric, but for its own two.
SaveCopy(h) ==
    /\ hand[h] = "holding"
    /\ Savable(copy[h])
    /\ profile' = copy[h]
    /\ Leave(h)
    /\ UNCHANGED <<created, month, granted, options>>

Entered(id, form) ==
    [id |-> id, status |-> form.status, verified |-> form.verified, tier |-> form.tier,
     expires |-> form.expires]

\* What a form that says so grants.
Verified(form) ==
    IF form.verified THEN {[status |-> form.status, tier |-> form.tier]} ELSE {}

\* KYCProfileAdmin, which lets every column be entered: the page may be old, and
\* the columns need not fit together.
SaveEntry(h, form) ==
    /\ hand[h] = "holding"
    /\ Savable(copy[h])
    /\ profile' = Entered(copy[h].id, form)
    /\ granted' = granted \cup Verified(form)
    /\ Stand(h, form.status, form.verified)
    /\ Leave(h)
    /\ UNCHANGED <<created, month>>

AddEntry(h, form) ==
    /\ hand[h] = "idle"
    /\ ~Exists
    /\ created < MaxProfiles
    /\ created' = created + 1
    /\ profile' = Entered(created + 1, form)
    /\ granted' = granted \cup Verified(form)
    /\ Stand(h, form.status, form.verified)
    /\ UNCHANGED <<month, kycWork>>

\* DELETE, by the id of the copy, or the same on the admin site; the log rows go
\* with it.
Destroy(h) ==
    /\ hand[h] = "holding"
    /\ Exists
    /\ profile.id = copy[h].id
    /\ profile' = NoProfile
    /\ Leave(h)
    /\ UNCHANGED <<created, month, granted, options>>

-----------------------------------------------------------------------------
(* expire_old_kycs                                                           *)

\* Mutant of Overdue: the filter asks for profiles that are not verified.
OverdueUnverified(row) == row.expires \in 1..month /\ ~row.verified

Overdue(row) == row.expires \in 1..month /\ row.verified

SweepList ==
    /\ hand[Sweeper] = "idle"
    /\ Exists
    /\ Overdue(profile)
    /\ Take(Sweeper, "expiring", profile)
    /\ UNCHANGED <<profile, created, month, granted, options>>

\* An insert that fails ends the task.
SweepSave ==
    /\ hand[Sweeper] = "expiring"
    /\ \/ /\ Savable(copy[Sweeper])
          /\ profile' = [copy[Sweeper] EXCEPT !.status = "expired", !.verified = FALSE]
          /\ Stand(Sweeper, "expired", FALSE)
       \/ ~Savable(copy[Sweeper]) /\ UNCHANGED <<profile, options>>
    /\ Leave(Sweeper)
    /\ UNCHANGED <<created, month, granted>>

-----------------------------------------------------------------------------
\* An actor dies, or its save fails: its transaction leaves nothing.
GiveUp(a) ==
    /\ hand[a] # "idle"
    /\ Leave(a)
    /\ UNCHANGED <<profile, created, month, granted, options>>

NextMonth ==
    /\ month < LastMonth
    /\ month' = month + 1
    /\ UNCHANGED <<profile, created, kycWork, granted, options>>

KycNext ==
    \/ \E h \in Handlers :
          \/ Submit(h)
          \/ SaveSubmission(h)
          \/ VerifyBiometric(h)
          \/ GetObject(h)
          \/ \E t \in Tiers : Approve(h, t)
          \/ Reject(h)
          \/ SaveCopy(h)
          \/ \E form \in Forms : SaveEntry(h, form) \/ AddEntry(h, form)
          \/ Destroy(h)
    \/ SweepList
    \/ SweepSave
    \/ \E a \in Actors : GiveUp(a)
    \/ NextMonth

KycSpec == KycInit /\ [][KycNext]_kycVars

\* Beat starts the task again and again; a worker that is killed now and then
\* still completes it some time.  Nothing is assumed of the requests.
KycFairness ==
    /\ WF_kycVars(SweepList)
    /\ SF_kycVars(SweepSave)

-----------------------------------------------------------------------------
(* Properties                                                                *)

\* A profile that counts as verified has the status and the tier of an approval,
\* or of a form that said so: whatever copies are saved late, no user is verified
\* without a decision, and no save mixes the columns of two decisions.
VerifiedWasGranted ==
    Exists /\ profile.verified => [status |-> profile.status, tier |-> profile.tier] \in granted

\* What the last submission, decision, form or expiry has stored, the status
\* together with is_verified, stays until the next one, or is undone by requests
\* that held a copy when it was stored, and then becomes what they had read: an
\* edit or a biometric check that begins later brings nothing back, however many
\* of them overlap, and whatever is deleted and inserted again.
OnlyOldCopiesUndo == Exists => Decision(profile) \in options

\* An approval that has run out is withdrawn (or renewed, or the profile goes).
ExpiredIsWithdrawn ==
    \A e \in 1..LastMonth :
        (Exists /\ profile.verified /\ profile.expires = e /\ e <= month)
            ~> ~(Exists /\ profile.verified /\ profile.expires = e)
=============================================================================
