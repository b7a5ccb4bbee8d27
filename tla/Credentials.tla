---------------------------- MODULE Credentials ----------------------------
(***************************************************************************)
(* How one person comes to be able to sign in, and stays able to: the      *)
(* activation link of an invitation, the link of a forgotten password, the *)
(* lockout after wrong passwords, and the second factor with its recovery  *)
(* codes. What a completed sign-in opens is in Sessions. Each handler is   *)
(* one transaction. A secret in `phone` is one the authenticator app was   *)
(* given; the answer of /2fa/setup that carries it may never arrive.       *)
(***************************************************************************)
EXTENDS Integers, Sequences, FiniteSets

CONSTANTS
  InviteLife,    \* INVITE_TOKEN_EXPIRY_DAYS
  ResetLife,     \* PASSWORD_RESET_TOKEN_TTL_MINUTES
  ChallengeLife, \* the life of a 2fa_pending token
  LockFor,       \* ACCOUNT_LOCKOUT_MINUTES
  Attempts,      \* ACCOUNT_LOCKOUT_ATTEMPTS
  CodeCount,     \* BACKUP_CODE_COUNT
  LatestInstant, \* bound on the clock
  MaxLinks,      \* bound on the links sent
  MaxSecrets     \* bound on the secrets made

ASSUME CredentialAssumption ==
  /\ {InviteLife, ResetLife, ChallengeLife, LockFor, Attempts, CodeCount} \subseteq Nat \ {0}
  /\ {LatestInstant, MaxLinks, MaxSecrets} \subseteq Nat

VARIABLES
  clock,
  user,       \* is_active, the password, must_change_password
  links,      \* user_invite_tokens and password_reset_tokens
  lockout,    \* the two Redis keys of the account
  factor,     \* user_two_factor
  challenge,  \* the cookie between the password and the code
  phone,      \* the secrets in the authenticator app
  proven,     \* history: secrets an authenticator app has shown a code of
  spent,      \* history: recovery codes that were accepted
  secrets     \* history: how many secrets were made

credentialVars == <<clock, user, links, lockout, factor, challenge, phone, proven, spent, secrets>>

Moments == 0 .. LatestInstant + InviteLife + ResetLife + ChallengeLife + LockFor
Secrets == 1 .. MaxSecrets
RecoveryCodes == Secrets \X (1 .. CodeCount)
NoFactor == [status |-> "disabled", secret |-> 0, verified |-> FALSE, codes |-> {}]
NoChallenge == 0

CredentialTypeOK ==
  /\ clock \in 0 .. LatestInstant
  /\ user \in [active : BOOLEAN, password : {"placeholder", "own"}, mustChange : BOOLEAN]
  /\ links \in Seq([kind : {"invite", "reset"}, until : Moments, used : BOOLEAN])
  /\ lockout \in [count : 0 .. Attempts - 1, forget : Moments, locked : Moments]
  /\ factor \in [status : {"disabled", "pending_setup", "enabled"}, secret : 0 .. MaxSecrets,
                 verified : BOOLEAN, codes : SUBSET RecoveryCodes]
  /\ challenge \in Moments
  /\ phone \subseteq Secrets /\ proven \subseteq Secrets /\ spent \subseteq RecoveryCodes
  /\ secrets \in 0 .. MaxSecrets

NewLink(kind) ==
  [kind |-> kind, used |-> FALSE,
   until |-> clock + (IF kind = "invite" THEN InviteLife ELSE ResetLife)]

(* An employee is added with an invitation, or with a password that is     *)
(* handed over and has to be changed.                                      *)
CredentialInit ==
  /\ clock = 0
  /\ \/ /\ user = [active |-> TRUE, password |-> "placeholder", mustChange |-> TRUE]
        /\ links = <<NewLink("invite")>>
     \/ /\ user = [active |-> TRUE, password |-> "own", mustChange |-> TRUE]
        /\ links = <<>>
  /\ lockout = [count |-> 0, forget |-> 0, locked |-> 0]
  /\ factor = NoFactor /\ challenge = NoChallenge
  /\ phone = {} /\ proven = {} /\ spent = {} /\ secrets = 0

-----------------------------------------------------------------------------
(* Links.                                                                  *)
Live(i, kind) ==
  LET link == links[i] IN
  /\ link.kind = kind /\ ~link.used
  /\ IF kind = "invite" THEN link.until > clock ELSE link.until >= clock

Spent(kinds) == [i \in DOMAIN links |-> IF links[i].kind \in kinds THEN [links[i] EXCEPT !.used = TRUE] ELSE links[i]]

(* A slip: the links sent before stay good.                                *)
IssueAnother(kind) ==
  /\ Len(links) < MaxLinks
  /\ links' = Append(links, NewLink(kind))

Issue(kind) ==
  /\ Len(links) < MaxLinks
  /\ links' = Append(Spent({kind}), NewLink(kind))

KeepFactor == UNCHANGED <<clock, factor, challenge, phone, proven, spent, secrets>>

ResendInvite ==
  /\ user.active /\ user.mustChange
  /\ Issue("invite")
  /\ UNCHANGED <<user, lockout>> /\ KeepFactor

ForgotPassword ==
  /\ user.active
  /\ Issue("reset")
  /\ UNCHANGED <<user, lockout>> /\ KeepFactor

ActivateUser(i) ==
  /\ Live(i, "invite")
  /\ user' = [user EXCEPT !.password = "own", !.mustChange = FALSE]
  /\ links' = [links EXCEPT ![i].used = TRUE]
  /\ UNCHANGED lockout /\ KeepFactor

ResetPassword(i) ==
  /\ Live(i, "reset") /\ user.active
  /\ user' = [user EXCEPT !.password = "own", !.mustChange = FALSE]
  /\ links' = [links EXCEPT ![i].used = TRUE]
  /\ UNCHANGED lockout /\ KeepFactor

-----------------------------------------------------------------------------
(* The password at the door.                                               *)
IsLocked == clock < lockout.locked

RecordFailure ==
  LET count == IF clock < lockout.forget THEN lockout.count + 1 ELSE 1
      forget == IF clock < lockout.forget THEN lockout.forget ELSE clock + LockFor IN
  /\ ~IsLocked
  /\ lockout' = IF count >= Attempts
                THEN [count |-> 0, forget |-> 0, locked |-> clock + LockFor]
                ELSE [lockout EXCEPT !.count = count, !.forget = forget]
  /\ UNCHANGED <<user, links>> /\ KeepFactor

AsksForCode == factor.status = "enabled" /\ factor.verified

PasswordSignIn ==
  /\ ~IsLocked /\ user.active /\ user.password = "own"
  /\ lockout' = [count |-> 0, forget |-> 0, locked |-> 0]
  /\ challenge' = IF AsksForCode THEN clock + ChallengeLife ELSE challenge
  /\ UNCHANGED <<clock, user, links, factor, phone, proven, spent, secrets>>

-----------------------------------------------------------------------------
(* The second factor.                                                      *)
SignedIn == user.active /\ user.password = "own"
AtWork == SignedIn /\ ~user.mustChange   \* until then only the password can be changed

Answering == challenge # NoChallenge /\ clock < challenge /\ user.active /\ factor.secret # 0

VerifyByApp ==
  /\ Answering /\ factor.secret \in phone
  /\ factor' = IF factor.status = "pending_setup"
               THEN [factor EXCEPT !.status = "enabled", !.verified = TRUE] ELSE factor
  /\ proven' = proven \cup {factor.secret}
  /\ challenge' = NoChallenge
  /\ UNCHANGED <<clock, user, links, lockout, phone, spent, secrets>>

VerifyByCode(code) ==
  /\ Answering /\ code \in factor.codes
  /\ factor' = [factor EXCEPT !.codes = @ \ {code}]
  /\ spent' = spent \cup {code}
  /\ challenge' = NoChallenge
  /\ UNCHANGED <<clock, user, links, lockout, phone, proven, secrets>>

Setup2fa(arrives) ==
  /\ AtWork /\ ~AsksForCode
  /\ secrets < MaxSecrets
  /\ secrets' = secrets + 1
  /\ factor' = [status |-> "pending_setup", secret |-> secrets', verified |-> FALSE,
                codes |-> {secrets'} \X (1 .. CodeCount)]
  /\ phone' = IF arrives THEN phone \cup {secrets'} ELSE phone
  /\ UNCHANGED <<clock, user, links, lockout, challenge, proven, spent>>

Confirm2fa ==
  /\ AtWork /\ factor.status = "pending_setup" /\ factor.secret \in phone
  /\ factor' = [factor EXCEPT !.status = "enabled", !.verified = TRUE]
  /\ proven' = proven \cup {factor.secret}
  /\ UNCHANGED <<clock, user, links, lockout, challenge, phone, spent, secrets>>

Disable2fa ==
  /\ AtWork /\ factor # NoFactor
  /\ factor' = NoFactor
  /\ UNCHANGED <<clock, user, links, lockout, challenge, phone, proven, spent, secrets>>

LosePhone ==
  /\ phone # {} /\ phone' = {}
  /\ UNCHANGED <<clock, user, links, lockout, factor, challenge, proven, spent, secrets>>

-----------------------------------------------------------------------------
OwnPassword ==
  /\ SignedIn /\ user' = [user EXCEPT !.mustChange = FALSE]
  /\ UNCHANGED <<links, lockout>> /\ KeepFactor

SeparateUser ==
  /\ user.active
  /\ user' = [user EXCEPT !.active = FALSE]
  /\ links' = Spent({"invite"})
  /\ UNCHANGED lockout /\ KeepFactor

ReinstateUser ==
  /\ ~user.active
  /\ user' = [user EXCEPT !.active = TRUE]
  /\ UNCHANGED <<links, lockout>> /\ KeepFactor

ClockTicks ==
  /\ clock < LatestInstant /\ clock' = clock + 1
  /\ UNCHANGED <<user, links, lockout, factor, challenge, phone, proven, spent, secrets>>

CredentialNext ==
  \/ ResendInvite \/ ForgotPassword
  \/ \E i \in DOMAIN links : ActivateUser(i) \/ ResetPassword(i)
  \/ RecordFailure \/ PasswordSignIn
  \/ VerifyByApp \/ \E code \in factor.codes : VerifyByCode(code)
  \/ \E arrives \in BOOLEAN : Setup2fa(arrives)
  \/ Confirm2fa \/ Disable2fa \/ LosePhone
  \/ OwnPassword \/ SeparateUser \/ ReinstateUser \/ ClockTicks

CredentialSpec == CredentialInit /\ [][CredentialNext]_credentialVars

-----------------------------------------------------------------------------
(* Whatever is set up, lost and set up again, a sign-in asks for a code    *)
(* only where an authenticator app has shown a code of that very secret,   *)
(* and none of the recovery codes it would take was taken before: a        *)
(* half-finished setup locks nobody out.                                   *)
SecondFactorIsProven ==
  /\ AsksForCode => factor.secret \in proven
  /\ factor.codes \cap spent = {}

(* However often they are sent, at most one activation link and one reset  *)
(* link are good at a time; a separation leaves no activation link behind, *)
(* and an account nobody has activated can always be invited again.        *)
LinksAreSole ==
  /\ \A kind \in {"invite", "reset"} : Cardinality({i \in DOMAIN links : Live(i, kind)}) <= 1
  /\ ~user.active => \A i \in DOMAIN links : ~Live(i, "invite")
  /\ user.password = "placeholder" => user.mustChange

(* Nobody is locked out by a second factor that was never proven, and no   *)
(* link or code that was replaced or used still works.                     *)
CredentialsAreSound ==
    CredentialTypeOK /\ SecondFactorIsProven /\ LinksAreSole
=============================================================================
