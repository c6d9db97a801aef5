------------------------------ MODULE TwoFactor ------------------------------
(***************************************************************************)
(* Two-factor authentication of the wallet extension: the codes and the    *)
(* stored state of core/totp.ts, the setup in the settings                 *)
(* (components/TOTPSetup.tsx) and the second step of the unlock screen     *)
(* (components/TOTPVerify.tsx, screens/Unlock.tsx).                        *)
(*                                                                         *)
(* verify2FA reads the state, awaits the authenticator code's HMACs and    *)
(* then writes the state it read.  A verification is therefore two steps,  *)
(* and pressing Enter starts another one before the first has answered.    *)
(* A backup code is checked without awaiting.  Checking a PIN and creating *)
(* or importing a wallet are two steps for the same reason: the screen may *)
(* be left in between.                                                     *)
(*                                                                         *)
(* The user moves through the page with the links, Cancel and the buttons  *)
(* of the browser; the routes (App.tsx) know whether the wallet is locked, *)
(* not whether the second step was passed.  A wallet is stored from the    *)
(* start; its deletion is part of WalletSession and leaves 2FA alone.      *)
(*                                                                         *)
(* An authenticator code is known by its secret, a backup code by its batch*)
(* and its number; time steps are left out.  verify2FA passes every code    *)
(* while 2FA is off, which a single page never gets to.                    *)
(*                                                                         *)
(* A definition X_Suffix is a faulty variant of X that the specification   *)
(* does not use; PROJECT.json names the property that tells them apart.    *)
(***************************************************************************)
EXTENDS Naturals

CONSTANTS
  Checker,      \* verifications and openings that may be under way at a time
  MaxBatches,   \* bound on setups and regenerations
  CodeCount,    \* BACKUP_CODE_COUNT
  MaxAttempts,  \* MAX_ATTEMPTS of the unlock screen
  Nil           \* no state, nothing under way

ASSUME TwoFactorConstants ==
  {MaxBatches, CodeCount, MaxAttempts} \subseteq Nat \ {0}

Batch == 1 .. MaxBatches
BackupCode == Batch \X (1 .. CodeCount)
State == [secret: Batch, codes: SUBSET BackupCode]
Verification == [from: {"setup", "unlock", "left"}, valid: BOOLEAN, loaded: State]
(* A call that opens the wallet: unlock with its screen, or after that was  *)
(* left; creation or import with a phrase.  valid: whether it succeeds.     *)
Opening == [from: {"pin", "away", "phrase"}, valid: BOOLEAN]
SetupStep == {"closed", "intro", "scan", "verify", "backup", "complete", "disable"}

ASSUME Sentinel == Nil \notin State \cup Verification \cup Opening

VARIABLES
  twoFactor,    \* localStorage: the state, Nil when 2FA is off
  batches,      \* batches of codes generated so far
  screen,       \* PIN or second step of the unlock screen, create and import
                \* (public), the screens behind the unlock screen (home)
  unlocked,     \* whether the wallet is unlocked
  attempts,     \* wrong PINs this unlock screen has seen
  setup,        \* the setup component: step, secret, codes shown, isVerifying
  checks,       \* verifications of authenticator codes and openings under way
  used,         \* backup codes accepted once, and again (history variable)
  overwritten,  \* whether a verification wrote over a change (history variable)
  factor,       \* whether the open wallet had its second step, or was opened
                \* with 2FA off or by its phrase (history variable)
  astray        \* whether it had none and the user left the unlock screen
                \* since (history variable)

tfVars == <<twoFactor, batches, screen, unlocked, attempts, setup, checks,
          used, overwritten, factor, astray>>
unlockVars == <<screen, unlocked, attempts, factor, astray>>

TFTypeOK ==
  /\ twoFactor \in State \cup {Nil}
  /\ batches \in 0 .. MaxBatches
  /\ screen \in {"pin", "totp", "public", "home"}
  /\ {unlocked, overwritten, factor, astray} \subseteq BOOLEAN
  /\ attempts \in 0 .. MaxAttempts
  /\ setup \in [step: SetupStep, secret: 0 .. MaxBatches, codes: SUBSET BackupCode,
                verifying: BOOLEAN]
  /\ checks \in [Checker -> Verification \cup Opening \cup {Nil}]
  /\ used \in [once: SUBSET BackupCode, again: SUBSET BackupCode]

Closed == [step |-> "closed", secret |-> 0, codes |-> {}, verifying |-> FALSE]

TFInit ==
  /\ twoFactor = Nil
  /\ batches = 0
  /\ screen = "pin"
  /\ unlocked = FALSE
  /\ attempts = 0
  /\ setup = Closed
  /\ checks = [c \in Checker |-> Nil]
  /\ used = [once |-> {}, again |-> {}]
  /\ overwritten = FALSE
  /\ factor = FALSE
  /\ astray = FALSE

Enabled2FA == twoFactor # Nil

GenerateBackupCodes(n) == {n} \X (1 .. CodeCount)

---------------------------------------------------------------------------
(* verify2FA *)

(* A code of the secret, of this time step or a neighbouring one. *)
VerifyTOTP(secret, code) == code = secret

(* A code is known by the secret it was made from, 0 for a wrong one. *)
Typed == 0 .. batches

BeginVerify(c, from, code) ==
  /\ Enabled2FA
  /\ checks[c] = Nil
  /\ checks' = [checks EXCEPT ![c] =
                  [from |-> from, loaded |-> twoFactor,
                   valid |-> VerifyTOTP(twoFactor.secret, code)]]
  /\ UNCHANGED <<twoFactor, batches, unlockVars, used, overwritten>>

(* The state as it was read, with a new time of use, is written back. *)
WriteBack(c) ==
  /\ twoFactor' = checks[c].loaded
  /\ overwritten' = (overwritten \/ twoFactor # checks[c].loaded)

Spend_Nothing(code) == twoFactor

Spend(code) == [twoFactor EXCEPT !.codes = @ \ {code}]

Accepts(c) == checks[c].valid

---------------------------------------------------------------------------
(* Moving between the screens. *)

UnderWay(c, from) == checks[c] # Nil /\ checks[c].from = from

(* Answers for the setup dialog or the unlock screen once these are gone. *)
Leave ==
  [c \in Checker |-> IF UnderWay(c, "setup") THEN [checks[c] EXCEPT !.from = "left"]
                     ELSE IF UnderWay(c, "pin") THEN [checks[c] EXCEPT !.from = "away"]
                     ELSE checks[c]]

(* navigate(s): the routes send a locked wallet from the screens behind the *)
(* unlock screen to a new unlock screen, which has seen no wrong PIN.       *)
GoTo(s, open) ==
  /\ screen' = IF s = "home" /\ ~open THEN "pin" ELSE s
  /\ attempts' = 0
  /\ setup' = Closed

(* A link, Cancel, Back or Forward.  Back to the unlock screen brings a new *)
(* one; the step of the one that is shown is no page of its own.            *)
Visit(s) ==
  /\ s # screen /\ <<screen, s>> # <<"totp", "pin">>
  /\ GoTo(s, unlocked)
  /\ checks' = Leave
  /\ astray' = (unlocked /\ ~factor)
  /\ UNCHANGED <<twoFactor, batches, unlocked, used, overwritten, factor>>

(* Creating or importing a wallet on the public screens. *)
BeginPhrase(c, valid) ==
  /\ screen = "public"
  /\ checks[c] = Nil
  /\ checks' = [checks EXCEPT ![c] = [from |-> "phrase", valid |-> valid]]
  /\ UNCHANGED <<twoFactor, batches, unlockVars, setup, used, overwritten>>

(* An import navigates, also from a screen that was left; a creation stays  *)
(* with its phrase.                                                         *)
FinishPhrase(c) ==
  /\ UnderWay(c, "phrase")
  /\ \/ /\ Accepts(c)
        /\ GoTo("home", TRUE)
        /\ checks' = [Leave EXCEPT ![c] = Nil]
     \/ /\ checks' = [checks EXCEPT ![c] = Nil]
        /\ UNCHANGED <<screen, attempts, setup>>
  /\ unlocked' = (unlocked \/ Accepts(c))
  /\ factor' = (factor \/ Accepts(c))
  /\ astray' = (astray /\ ~Accepts(c))
  /\ UNCHANGED <<twoFactor, batches, used, overwritten>>

---------------------------------------------------------------------------
(* The unlock screen. *)

(* The screen gives up until it is left; the count is not that of the lockout. *)
IsLocked == attempts >= MaxAttempts

(* A spinner replaces the PIN input until unlock answers. *)
SubmitPin(c, right) ==
  /\ screen = "pin" /\ ~IsLocked
  /\ \A d \in Checker : ~UnderWay(d, "pin")
  /\ checks[c] = Nil
  /\ checks' = [checks EXCEPT ![c] = [from |-> "pin", valid |-> right]]
  /\ UNCHANGED <<twoFactor, batches, unlockVars, setup, used, overwritten>>

WrongPin(c) ==
  /\ ~Accepts(c)
  /\ attempts' = IF checks[c].from = "pin" THEN attempts + 1 ELSE attempts
  /\ checks' = [checks EXCEPT ![c] = Nil]
  /\ UNCHANGED <<screen, unlocked, setup, factor, astray>>

AsksForCode_Never == FALSE

AsksForCode == Enabled2FA

(* The wallet is open before the second step is asked for, which nobody    *)
(* sees on a screen that was left; navigating works from there as well.    *)
RightPin(c) ==
  /\ Accepts(c)
  /\ unlocked' = TRUE
  /\ factor' = (factor \/ ~Enabled2FA)
  /\ IF AsksForCode
     THEN /\ screen' = IF checks[c].from = "pin" THEN "totp" ELSE screen
          /\ astray' = (~factor /\ (astray \/ checks[c].from = "away"))
          /\ checks' = [checks EXCEPT ![c] = Nil]
          /\ UNCHANGED <<attempts, setup>>
     ELSE /\ GoTo("home", TRUE)
          /\ astray' = FALSE
          /\ checks' = [Leave EXCEPT ![c] = Nil]

FinishPin(c) ==
  /\ UnderWay(c, "pin") \/ UnderWay(c, "away")
  /\ WrongPin(c) \/ RightPin(c)
  /\ UNCHANGED <<twoFactor, batches, used, overwritten>>

(* handleTOTPSuccess; a verification of a screen that was left navigates as *)
(* well.                                                                    *)
Success ==
  /\ GoTo("home", unlocked)
  /\ factor' = unlocked
  /\ astray' = FALSE

(* The second step, for a code of the app or, after a switch, a backup code. *)
CodeScreen == screen = "totp"

SubmitTotp(c, code) ==
  /\ CodeScreen
  /\ BeginVerify(c, "unlock", code)
  /\ UNCHANGED setup

SubmitBackupCode(code) ==
  /\ CodeScreen
  /\ Enabled2FA
  /\ code \in twoFactor.codes
  /\ twoFactor' = Spend(code)
  /\ used' = [once |-> used.once \cup {code}, again |-> used.again \cup (used.once \cap {code})]
  /\ Success
  /\ checks' = Leave
  /\ UNCHANGED <<batches, unlocked, overwritten>>

FinishTotpUnlock(c) ==
  /\ UnderWay(c, "unlock")
  /\ checks' = [(IF Accepts(c) THEN Leave ELSE checks) EXCEPT ![c] = Nil]
  /\ IF Accepts(c)
     THEN WriteBack(c) /\ Success
     ELSE UNCHANGED <<twoFactor, overwritten, screen, attempts, factor, astray, setup>>
  /\ UNCHANGED <<batches, unlocked, used>>

CancelTotp ==
  /\ CodeScreen
  /\ screen' = "pin"
  /\ unlocked' = FALSE
  /\ factor' = FALSE
  /\ astray' = FALSE
  /\ UNCHANGED <<twoFactor, batches, attempts, setup, checks, used, overwritten>>

---------------------------------------------------------------------------
(* The setup, a dialog of the settings. *)

SetStep(step) == setup' = [setup EXCEPT !.step = step]

(* The steps the dialog opens with, by whether 2FA is on. *)
Intro == setup.step = "intro"
Manage == setup.step = "disable"

OpenSetup ==
  /\ screen = "home" /\ setup.step = "closed"
  /\ setup' = [Closed EXCEPT !.step = IF Enabled2FA THEN "disable" ELSE "intro"]
  /\ UNCHANGED <<twoFactor, batches, unlockVars, checks, used, overwritten>>

EnabledState_Unsaved(n) == twoFactor

EnabledState(n) == [secret |-> n, codes |-> GenerateBackupCodes(n)]

(* 2FA is on from here, before any code has been verified. *)
StartSetup ==
  /\ Intro
  /\ batches < MaxBatches
  /\ batches' = batches + 1
  /\ twoFactor' = EnabledState(batches + 1)
  /\ setup' = [setup EXCEPT !.step = "scan", !.secret = batches + 1,
                            !.codes = GenerateBackupCodes(batches + 1)]
  /\ UNCHANGED <<unlockVars, checks, used, overwritten>>

(* Next, Back, I've Saved My Codes. *)
Turn ==
  /\ \/ setup.step = "scan" /\ SetStep("verify")
     \/ setup.step = "verify" /\ SetStep("scan")
     \/ setup.step = "backup" /\ SetStep("complete")
  /\ UNCHANGED <<twoFactor, batches, unlockVars, checks, used, overwritten>>

SubmitSetup(c, code) ==
  /\ setup.step = "verify" /\ ~setup.verifying
  /\ BeginVerify(c, "setup", code)
  /\ setup' = [setup EXCEPT !.verifying = TRUE]

(* The dialog may have been closed and opened again since. *)
FinishSetup(c) ==
  /\ UnderWay(c, "setup") \/ UnderWay(c, "left")
  /\ checks' = [checks EXCEPT ![c] = Nil]
  /\ IF Accepts(c) THEN WriteBack(c) ELSE UNCHANGED <<twoFactor, overwritten>>
  /\ setup' = IF checks[c].from = "left" THEN setup
              ELSE [setup EXCEPT !.verifying = FALSE,
                                 !.step = IF Accepts(c) THEN "backup" ELSE @]
  /\ UNCHANGED <<batches, unlockVars, used>>

(* The new codes are kept for the dialog but its step does not show them. *)
RegenerateBackupCodes ==
  /\ Manage
  /\ Enabled2FA
  /\ batches < MaxBatches
  /\ batches' = batches + 1
  /\ twoFactor' = [twoFactor EXCEPT !.codes = GenerateBackupCodes(batches + 1)]
  /\ setup' = [setup EXCEPT !.codes = GenerateBackupCodes(batches + 1)]
  /\ UNCHANGED <<unlockVars, checks, used, overwritten>>

Disable ==
  /\ Manage
  /\ twoFactor' = Nil
  /\ setup' = Closed
  /\ checks' = Leave
  /\ UNCHANGED <<batches, unlockVars, used, overwritten>>

(* A click beside the dialog closes it in every step. *)
CloseSetup ==
  /\ setup.step # "closed"
  /\ setup' = Closed
  /\ checks' = Leave
  /\ UNCHANGED <<twoFactor, batches, unlockVars, used, overwritten>>

---------------------------------------------------------------------------
(* Locking and expiry of the session, reloading the page. *)
LockWallet ==
  /\ unlocked
  /\ unlocked' = FALSE
  /\ screen' = IF screen = "home" THEN "pin" ELSE screen
  /\ attempts' = IF screen = "home" THEN 0 ELSE attempts
  /\ factor' = FALSE
  /\ astray' = FALSE
  /\ setup' = Closed
  /\ checks' = IF screen = "home" THEN Leave ELSE checks
  /\ UNCHANGED <<twoFactor, batches, used, overwritten>>

ReloadPage ==
  /\ screen' = "pin"
  /\ unlocked' = FALSE
  /\ attempts' = 0
  /\ factor' = FALSE
  /\ astray' = FALSE
  /\ setup' = Closed
  /\ checks' = [c \in Checker |-> Nil]
  /\ UNCHANGED <<twoFactor, batches, used, overwritten>>

TFNext ==
  \/ \E c \in Checker, code \in Typed : SubmitTotp(c, code) \/ SubmitSetup(c, code)
  \/ \E c \in Checker : FinishTotpUnlock(c) \/ FinishSetup(c) \/ FinishPin(c) \/ FinishPhrase(c)
  \/ \E c \in Checker, valid \in BOOLEAN : SubmitPin(c, valid) \/ BeginPhrase(c, valid)
  \/ \E code \in BackupCode : SubmitBackupCode(code)
  \/ \E s \in {"pin", "public", "home"} : Visit(s)
  \/ CancelTotp
  \/ OpenSetup \/ StartSetup \/ Turn \/ RegenerateBackupCodes \/ Disable \/ CloseSetup
  \/ LockWallet \/ ReloadPage

TFSpec == TFInit /\ [][TFNext]_tfVars

---------------------------------------------------------------------------
(* Properties. *)

(* A backup code opens the wallet once, as the setup says, unless a         *)
(* verification that had read the state before wrote the old list back.     *)
BackupCodesOnce == used.again # {} => overwritten

(* No step of the program's own (an answer, a late or cancelled             *)
(* verification, a wrong code, an expiry, a reload) takes a wallet opened   *)
(* by its PIN alone further than the second step while 2FA is on.  Only a   *)
(* user who leaves the unlock screen gets past it: the routes let him       *)
(* (App.tsx:51), while the unlock screen "shows TOTP verification after     *)
(* PIN" (Unlock.tsx:5).                                                     *)
SecondFactorAtUnlock ==
  /\ screen = "home" => unlocked
  /\ unlocked /\ ~factor => screen = "totp" \/ astray

(* The codes the setup asks the user to save are the ones that will work,   *)
(* unless a late verification wrote an older state over them.               *)
ShownCodesWork ==
  setup.step \in {"scan", "verify", "backup", "complete"} /\ ~overwritten =>
    twoFactor = [secret |-> setup.secret, codes |-> setup.codes]
=============================================================================
