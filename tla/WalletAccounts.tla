---------------------------- MODULE WalletAccounts ----------------------------
(***************************************************************************)
(* Whose keys the wallet extension holds: the recovery phrase that is      *)
(* stored, the wallet that is open with its accounts, and the screens that *)
(* change them (CreateWallet, ImportWallet, Unlock and the dialogs of      *)
(* Settings).  PINs that are refused, sessions and their timers are the    *)
(* business of WalletSession.                                              *)
(*                                                                         *)
(* An asynchronous call is one step per stretch between two awaits.  It    *)
(* goes on when its screen is left, and may still change the provider or   *)
(* navigate; only the state of the screen it came from is gone.            *)
(*                                                                         *)
(* A definition X_Suffix is a faulty variant of X that the specification   *)
(* does not use; PROJECT.json names the property that tells them apart.    *)
(***************************************************************************)
EXTENDS Naturals, Sequences

CONSTANTS
  Phrase,       \* recovery phrases
  Pin,          \* PINs the user types
  Caller,       \* asynchronous calls that may be under way at a time
  MaxAccounts,  \* bound: accounts of a wallet
  None

ASSUME WalletAccountsConstants == MaxAccounts \in Nat \ {0}

Writes == {"create", "import", "delete"}
Reads == {"unlock", "backup"}
Op == Writes \cup Reads \cup {"derive"}
Call == [op: Op, at: {"read", "save", "open", "derive"}, phrase: Phrase \cup {None},
         pin: Pin \cup {None}, index: 0 .. MaxAccounts, mounted: BOOLEAN]
Account == [phrase: Phrase, index: 0 .. MaxAccounts]
Wallet == [phrase: Phrase, pin: Pin]

ASSUME NoneIsNothing == None \notin Call \cup Phrase \cup Pin \cup Wallet

VARIABLES
  stored,    \* IndexedDB: the phrase and the PIN it is encrypted with
  provider,  \* isInitialized, isLocked, wallet, accounts, activeAccountIndex
  screen,    \* the screen that is open
  calls,     \* asynchronous calls under way
  overlaps   \* what calls that overlapped were about (history variable)

vars == <<stored, provider, screen, calls, overlaps>>

Step == {"open", "words", "pin", "confirm", "phrase", "verify",
         "none", "backup", "delete", "accounts"}

ATypeOK ==
  /\ stored \in Wallet \cup {None}
  /\ provider \in [initialized: BOOLEAN, locked: BOOLEAN, wallet: Phrase \cup {None},
                   accounts: Seq(Account), active: 0 .. MaxAccounts - 1]
  /\ screen \in [name: {"home", "create", "import", "unlock", "settings"}, step: Step,
                 pin: Pin \cup {None}, phrase: Phrase \cup {None}, busy: BOOLEAN]
  /\ calls \in [Caller -> Call \cup {None}]
  /\ overlaps \subseteq {"storage", "accounts"}

FirstStep(name) ==
  CASE name = "create" -> "pin" [] name = "import" -> "words" [] name = "settings" -> "none"
    [] OTHER -> "open"

(* The state a screen is mounted with; "home" is Welcome or Dashboard. *)
Blank(name) ==
  [name |-> name, step |-> FirstStep(name), pin |-> None, phrase |-> None, busy |-> FALSE]

NoWallet(initialized) ==
  [initialized |-> initialized, locked |-> TRUE, wallet |-> None, accounts |-> <<>>, active |-> 0]

Init ==
  /\ stored = None
  /\ provider = NoWallet(FALSE)
  /\ screen = Blank("home")
  /\ calls = [c \in Caller |-> None]
  /\ overlaps = {}

---------------------------------------------------------------------------
(* Calls and screens. *)

Running == {c \in Caller : calls[c] # None}
At(c, op, at) == calls[c] # None /\ calls[c].op \in op /\ calls[c].at = at

(* The screens behind the guard of the routes. *)
Protected(p) == p.initialized /\ ~p.locked

Clash(op, other) ==
  CASE "derive" \in {op, other} /\ "backup" \notin {op, other} -> {"accounts"}
    [] Writes \cap {op, other} # {} /\ "derive" \notin {op, other} -> {"storage"}
    [] OTHER -> {}

Overlapping(op) == UNION {Clash(op, calls[c].op) : c \in Running}

Begin(c, op, at, phrase, pin, index) ==
  /\ calls[c] = None
  /\ calls' = [calls EXCEPT ![c] = [op |-> op, at |-> at, phrase |-> phrase, pin |-> pin,
                                    index |-> index, mounted |-> TRUE]]
  /\ overlaps' = overlaps \cup Overlapping(op)

Return(c) == [calls EXCEPT ![c] = None]

(* Its screen goes: what a call of it tells that screen is lost. *)
Unseen(cs) == [c \in Caller |-> IF cs[c] = None THEN None ELSE [cs[c] EXCEPT !.mounted = FALSE]]

Show(cs, s) == calls' = Unseen(cs) /\ screen' = s

(* What the screen shows once the provider has changed: a route whose guard *)
(* fails redirects.                                                         *)
Stay(cs, s) ==
  IF s.name = "settings" /\ ~Protected(provider') THEN Show(cs, Blank("home"))
  ELSE calls' = cs /\ screen' = s

(* The phrase and the PIN routes are public, by a button or by the browser. *)
Visit(name) ==
  /\ name = "settings" => Protected(provider)
  /\ Show(calls, Blank(name))
  /\ UNCHANGED <<stored, provider, overlaps>>

Turn(s) == screen' = s /\ UNCHANGED <<stored, provider, calls, overlaps>>

---------------------------------------------------------------------------
(* CreateWallet and ImportWallet. *)

(* The step shown; while a call of the screen runs there is only a spinner. *)
Creating(step) == screen.name = "create" /\ screen.step = step /\ ~screen.busy
Importing(step) == screen.name = "import" /\ screen.step = step /\ ~screen.busy

EnterWords(phrase) ==
  /\ Importing("words")
  /\ Turn([screen EXCEPT !.step = "pin", !.phrase = phrase])

BackToWords ==
  /\ Importing("pin") \/ Importing("confirm")
  /\ Turn([screen EXCEPT !.step = "words"])

(* PinInput reports six digits. *)
EnterPin(pin) ==
  /\ Creating("pin") \/ Importing("pin")
  /\ Turn([screen EXCEPT !.step = "confirm", !.pin = pin])

RejectPin ==
  /\ Creating("confirm") \/ Importing("confirm")
  /\ Turn([screen EXCEPT !.step = "pin", !.pin = None])

(* Phrases nothing knows of: generateMnemonic makes a new one. *)
NewPhrases ==
  Phrase \ ({provider.wallet, screen.phrase} \cup {calls[c].phrase : c \in Running}
              \cup (IF stored = None THEN {} ELSE {stored.phrase}))

(* The same PIN again: the wallet is made, whether or not one is stored. *)
HandleCreateWallet(c) ==
  /\ Creating("confirm")
  /\ \E phrase \in NewPhrases : Begin(c, "create", "save", phrase, screen.pin, 0)
  /\ screen' = [screen EXCEPT !.busy = TRUE]
  /\ UNCHANGED <<stored, provider>>

HandleImportWallet(c) ==
  /\ Importing("confirm")
  /\ Begin(c, "import", "save", screen.phrase, screen.pin, 0)
  /\ screen' = [screen EXCEPT !.busy = TRUE]
  /\ UNCHANGED <<stored, provider>>

SaveWallet(c) ==
  /\ At(c, {"create", "import"}, "save")
  /\ stored' = [phrase |-> calls[c].phrase, pin |-> calls[c].pin]
  /\ calls' = [calls EXCEPT ![c].at = "open"]
  /\ UNCHANGED <<provider, screen, overlaps>>

(* The phrase has a bad checksum, or the database refuses the write. *)
SaveFails(c) ==
  /\ At(c, {"create", "import"}, "save")
  /\ calls' = Return(c)
  /\ screen' = IF calls[c].mounted
               THEN [screen EXCEPT !.step = FirstStep(screen.name), !.pin = None, !.busy = FALSE]
               ELSE screen
  /\ UNCHANGED <<stored, provider, overlaps>>

(* fromMnemonic derives account 0, getAccounts lists what was derived. *)
GetAccounts(phrase) == <<[phrase |-> phrase, index |-> 0]>>

(* createWallet and importWallet replace the state of the provider. *)
Created(phrase) ==
  [initialized |-> TRUE, locked |-> FALSE, wallet |-> phrase, accounts |-> GetAccounts(phrase),
   active |-> 0]

(* The phrase is shown after it has been stored and the wallet is open. *)
FinishCreate(c) ==
  /\ At(c, {"create"}, "open")
  /\ provider' = Created(calls[c].phrase)
  /\ Stay(Return(c), IF calls[c].mounted
                     THEN [screen EXCEPT !.step = "phrase", !.busy = FALSE,
                                         !.phrase = calls[c].phrase]
                     ELSE screen)
  /\ UNCHANGED <<stored, overlaps>>

(* navigate also works from a screen that was left. *)
FinishImport(c) ==
  /\ At(c, {"import"}, "open")
  /\ provider' = Created(calls[c].phrase)
  /\ Show(Return(c), Blank("home"))
  /\ UNCHANGED <<stored, overlaps>>

HandleContinueToVerify ==
  /\ Creating("phrase")
  /\ Turn([screen EXCEPT !.step = "verify"])

(* The words are right; wrong ones are asked for again. *)
HandleVerify ==
  /\ Creating("verify")
  /\ Show(calls, Blank("home"))
  /\ UNCHANGED <<stored, provider, overlaps>>

---------------------------------------------------------------------------
(* Unlocking and locking. *)

AsksForPin == screen.name = "unlock" /\ ~screen.busy

BeginUnlock(c, pin) ==
  /\ AsksForPin
  /\ Begin(c, "unlock", "read", None, pin, 0)
  /\ screen' = [screen EXCEPT !.busy = TRUE]
  /\ UNCHANGED <<stored, provider>>

Opens(pin) == stored # None /\ stored.pin = pin

ReadWallet(c) ==
  /\ At(c, {"unlock"}, "read")
  /\ Opens(calls[c].pin)
  /\ calls' = [calls EXCEPT ![c].at = "open", ![c].phrase = stored.phrase]
  /\ UNCHANGED <<stored, provider, screen, overlaps>>

Idle(c) == IF calls[c].mounted THEN [screen EXCEPT !.busy = FALSE] ELSE screen

UnlockFails(c) ==
  /\ At(c, {"unlock"}, "read")
  /\ ~Opens(calls[c].pin)
  /\ calls' = Return(c)
  /\ screen' = Idle(c)
  /\ UNCHANGED <<stored, provider, overlaps>>

(* The accounts are those of a new wallet object, the selection is kept.   *)
(* Without a second factor the dashboard opens, from wherever the user is.  *)
FinishUnlock(c) ==
  /\ At(c, {"unlock"}, "open")
  /\ provider' = [provider EXCEPT !.locked = FALSE, !.wallet = calls[c].phrase,
                                  !.accounts = GetAccounts(calls[c].phrase)]
  /\ Show(Return(c), Blank("home"))
  /\ UNCHANGED <<stored, overlaps>>

Locked(p) == [p EXCEPT !.locked = TRUE, !.wallet = None, !.accounts = <<>>]

HandleLock ==
  /\ screen.name \in {"home", "settings"} /\ Protected(provider)
  /\ provider' = Locked(provider)
  /\ Show(calls, Blank("unlock"))
  /\ UNCHANGED <<stored, overlaps>>

(* The poll finds that the session is over. *)
AutoLock ==
  /\ ~provider.locked
  /\ provider' = Locked(provider)
  /\ Stay(calls, screen)
  /\ UNCHANGED <<stored, overlaps>>

(* The page starts again; hasWallet answers false when the database fails. *)
Reload ==
  /\ \E exists \in {stored # None, FALSE} : provider' = NoWallet(exists)
  /\ screen' = Blank("home")
  /\ calls' = [c \in Caller |-> None]
  /\ overlaps' = {}
  /\ UNCHANGED stored

---------------------------------------------------------------------------
(* The dialogs of Settings. *)

InSettings(step) == screen.name = "settings" /\ screen.step = step

OpenModal(step) == InSettings("none") /\ Turn([screen EXCEPT !.step = step])

CloseModal ==
  /\ screen.name = "settings" /\ screen.step # "none"
  /\ Turn([screen EXCEPT !.step = "none", !.phrase = None])

BeginBackup(c, pin) ==
  /\ InSettings("backup")
  /\ Begin(c, "backup", "read", None, pin, 0)
  /\ UNCHANGED <<stored, provider, screen>>

ReadBackup(c) ==
  /\ At(c, {"backup"}, "read")
  /\ calls' = Return(c)
  /\ screen' = IF Opens(calls[c].pin) /\ calls[c].mounted /\ InSettings("backup")
               THEN [screen EXCEPT !.step = "phrase", !.phrase = stored.phrase] ELSE screen
  /\ UNCHANGED <<stored, provider, overlaps>>

HandleDeleteWallet(c) ==
  /\ InSettings("delete") /\ ~screen.busy
  /\ Begin(c, "delete", "save", None, None, 0)
  /\ screen' = [screen EXCEPT !.busy = TRUE]
  /\ UNCHANGED <<stored, provider>>

AfterDelete_WalletOpen == [provider EXCEPT !.initialized = FALSE]

AfterDelete == NoWallet(FALSE)

DeleteWallet(c) ==
  /\ At(c, {"delete"}, "save")
  /\ stored' = None
  /\ calls' = [calls EXCEPT ![c].at = "open"]
  /\ UNCHANGED <<provider, screen, overlaps>>

FinishDelete(c) ==
  /\ At(c, {"delete"}, "open")
  /\ provider' = AfterDelete
  /\ Show(Return(c), Blank("home"))
  /\ UNCHANGED <<stored, overlaps>>

DeleteFails(c) ==
  /\ At(c, {"delete"}, "save")
  /\ calls' = Return(c)
  /\ screen' = Idle(c)
  /\ UNCHANGED <<stored, provider, overlaps>>

NextIndex_AfterActive == provider.active + 1

NextIndex == Len(provider.accounts)

(* deriveNewAccount takes the wallet and the number of accounts of its      *)
(* render; nothing stops a second click.                                    *)
HandleAddAccount(c) ==
  /\ InSettings("accounts") /\ NextIndex < MaxAccounts
  /\ Begin(c, "derive", "derive", provider.wallet, None, NextIndex)
  /\ UNCHANGED <<stored, provider, screen>>

FinishDerive(c) ==
  /\ At(c, {"derive"}, "derive")
  /\ provider' = [provider EXCEPT !.accounts =
       Append(@, [phrase |-> calls[c].phrase, index |-> calls[c].index])]
  /\ calls' = Return(c)
  /\ screen' = IF calls[c].mounted THEN [screen EXCEPT !.step = "none", !.phrase = None]
               ELSE screen
  /\ UNCHANGED <<stored, overlaps>>

Select(account) == account.index

SwitchAccount ==
  /\ InSettings("accounts")
  /\ \E i \in 1 .. Len(provider.accounts) :
       provider' = [provider EXCEPT !.active = Select(provider.accounts[i])]
  /\ screen' = [screen EXCEPT !.step = "none"]
  /\ UNCHANGED <<stored, calls, overlaps>>

---------------------------------------------------------------------------
CallStep(c) ==
  \/ SaveWallet(c) \/ SaveFails(c) \/ FinishCreate(c) \/ FinishImport(c)
  \/ ReadWallet(c) \/ UnlockFails(c) \/ FinishUnlock(c) \/ ReadBackup(c)
  \/ DeleteWallet(c) \/ FinishDelete(c) \/ DeleteFails(c) \/ FinishDerive(c)

Next ==
  \/ \E name \in {"home", "create", "import", "unlock", "settings"} : Visit(name)
  \/ \E phrase \in Phrase : EnterWords(phrase)
  \/ \E pin \in Pin : EnterPin(pin)
  \/ BackToWords \/ RejectPin \/ HandleContinueToVerify \/ HandleVerify
  \/ HandleLock \/ AutoLock \/ Reload
  \/ \E step \in {"backup", "delete", "accounts"} : OpenModal(step)
  \/ CloseModal \/ SwitchAccount
  \/ \E c \in Caller : \/ CallStep(c)
                       \/ HandleCreateWallet(c) \/ HandleImportWallet(c)
                       \/ HandleDeleteWallet(c) \/ HandleAddAccount(c)
                       \/ \E pin \in Pin : BeginUnlock(c, pin) \/ BeginBackup(c, pin)

Spec == Init /\ [][Next]_vars

---------------------------------------------------------------------------
(* Properties. *)

Opening == \E c \in Running : calls[c].at = "open"
Shows == screen.step \in {"phrase", "verify"}

(* The user can get back at the keys in use: the open wallet and the phrase *)
(* on the screen (CreateWallet.tsx:50, Settings.tsx:105) are those of the   *)
(* stored wallet, across locking, reloads, failing writes and calls whose   *)
(* screen was left, unless two calls on the stored wallet overlapped.       *)
KeysAreStored ==
  "storage" \notin overlaps =>
    /\ provider.wallet # None /\ ~Opening => stored # None /\ stored.phrase = provider.wallet
    /\ Shows => stored # None /\ stored.phrase = screen.phrase

(* The account a user picks in Settings is the one selected, although       *)
(* switchAccount takes the derivation index for a position in the list      *)
(* (useWallet.tsx:391, Settings.tsx:353), and all accounts listed are those *)
(* of the open wallet, unless a derivation overlapped with another one or   *)
(* with a call that opens or removes a wallet.                              *)
AccountsInOrder ==
  "accounts" \notin overlaps /\ ~provider.locked =>
    \A i \in 1 .. Len(provider.accounts) :
      provider.accounts[i] = [phrase |-> provider.wallet, index |-> i - 1]
=============================================================================
