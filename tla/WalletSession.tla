---------------------------- MODULE WalletSession ----------------------------
(***************************************************************************)
(* Locking of the wallet extension: the PIN lockout and the session of     *)
(* core/security.ts, the encrypted wallet of core/storage.secure.ts and    *)
(* the WalletProvider of hooks/useWallet.tsx with the screens that call it.*)
(*                                                                         *)
(* JavaScript runs to completion between two awaits, so an asynchronous    *)
(* call is one step per stretch of code between them, and several calls    *)
(* may be under way: a screen that is left does not cancel what it started.*)
(* IndexedDB and localStorage survive a reload of the page, nothing else.  *)
(*                                                                         *)
(* Time is counted in ticks.  The state holds the time since the last      *)
(* failed attempt and the time left of a lockout and of a session.  Account*)
(* lists, error texts and what the wallet's phrase is are left out.        *)
(*                                                                         *)
(* A definition X_Suffix is a faulty variant of X that the specification   *)
(* does not use; PROJECT.json names the property that tells them apart.    *)
(***************************************************************************)
EXTENDS Naturals, FiniteSets

CONSTANTS
  Pin,             \* PINs the user types
  Caller,          \* asynchronous calls that may be under way at a time
  WalletId,        \* SultanWallet objects
  MaxPinAttempts,  \* MAX_PIN_ATTEMPTS
  Duration,        \* LOCKOUT_DURATION_MS, in ticks
  Timeout,         \* SESSION_TIMEOUT_MS, in ticks
  None             \* no wallet, PIN, session

ASSUME WalletSessionConstants ==
  /\ {MaxPinAttempts, Duration, Timeout} \subseteq Nat \ {0}
  /\ IsFiniteSet(Caller)
  /\ IsFiniteSet(WalletId) /\ Cardinality(WalletId) > 2

Op == {"unlock", "backup", "save", "delete"}
Call == [op: Op, at: {"read", "decrypt", "open", "save", "delete"},
         pin: Pin \cup {None}, stored: Pin \cup {None}]

(* clearsHash: whether the function given to startSession clears the PIN hash. *)
Session == [wallet: WalletId, left: 0 .. Timeout, clearsHash: BOOLEAN]

VARIABLES
  stored,      \* IndexedDB: the PIN the stored wallet is encrypted with
  lockout,     \* localStorage: attempts, time since the last, time left locked
  session,     \* currentSession, its timer and onSessionExpired
  sessionPin,  \* sessionPinSecure
  pinHash,     \* sessionPinHash
  ui,          \* isLoading, isInitialized, isLocked and wallet of the provider
  destroyed,   \* destroy() ran on the wallet of the provider
  calls,       \* asynchronous calls under way
  failed        \* PINs refused since the window began (history variable)

memory == <<session, sessionPin, pinHash, ui, destroyed>>
vars == <<stored, lockout, memory, calls, failed>>

NoAttempts == [attempts |-> 0, age |-> Duration + 1, left |-> 0]

WTypeOK ==
  /\ stored \in Pin \cup {None}
  /\ lockout \in [attempts: 0 .. MaxPinAttempts, age: 0 .. Duration + 1, left: 0 .. Duration]
  /\ session \in Session \cup {None}
  /\ {sessionPin, pinHash} \subseteq Pin \cup {None}
  /\ ui \in [loading: BOOLEAN, initialized: BOOLEAN, locked: BOOLEAN,
             wallet: WalletId \cup {None}]
  /\ destroyed \in BOOLEAN
  /\ calls \in [Caller -> Call \cup {None}]
  /\ failed \in Nat

Loading == [loading |-> TRUE, initialized |-> FALSE, locked |-> TRUE, wallet |-> None]

Init ==
  /\ stored = None
  /\ lockout = NoAttempts
  /\ session = None
  /\ sessionPin = None
  /\ pinHash = None
  /\ ui = Loading
  /\ destroyed = FALSE
  /\ calls = [c \in Caller |-> None]
  /\ failed = 0

---------------------------------------------------------------------------
(* The lockout. *)

LockedOut == lockout.left > 0

(* Attempts that still count: the counter starts again after a quiet time. *)
CountedAttempts(l) == IF l.age > Duration THEN 0 ELSE l.attempts

(* The stored count only matters up to MaxPinAttempts. *)
RecordFailedAttempt(l) ==
  LET n == CountedAttempts(l) + 1
  IN  [attempts |-> IF n > MaxPinAttempts THEN MaxPinAttempts ELSE n,
       age |-> 0,
       left |-> IF n >= MaxPinAttempts THEN Duration ELSE l.left]

---------------------------------------------------------------------------
(* Calls. *)

Begin(c, call) ==
  /\ ~ui.loading
  /\ calls[c] = None
  /\ calls' = [calls EXCEPT ![c] = call]

Continue(c, at) == calls' = [calls EXCEPT ![c].at = at]
Return(c) == calls' = [calls EXCEPT ![c] = None]

At(c, op, at) == calls[c] # None /\ calls[c].op \in op /\ calls[c].at = at

(* The screens behind the guard of the routes. *)
Protected == ui.initialized /\ ~ui.locked

ClearSession_NotPin == session' = None /\ UNCHANGED sessionPin

(* clearSession also ends the session of security.ts. *)
ClearSession == session' = None /\ sessionPin' = None

Request(op, at, pin) == [op |-> op, at |-> at, pin |-> pin, stored |-> None]

(* The unlock screen can be reached at any time, an earlier unlock of a     *)
(* screen that was left may still be under way.                             *)
BeginUnlock(c, pin) ==
  /\ ~LockedOut
  /\ Begin(c, Request("unlock", "read", pin))
  /\ UNCHANGED <<stored, lockout, memory, failed>>

(* The settings show the phrase after the PIN has decrypted it. *)
BeginBackup(c, pin) ==
  /\ Protected
  /\ ~LockedOut
  /\ Begin(c, Request("backup", "read", pin))
  /\ UNCHANGED <<stored, lockout, memory, failed>>

ReadWallet(c) ==
  /\ At(c, {"unlock", "backup"}, "read")
  /\ stored # None
  /\ calls' = [calls EXCEPT ![c].at = "decrypt", ![c].stored = stored]
  /\ UNCHANGED <<stored, lockout, memory, failed>>

(* No wallet, or the database fails: unlock counts that as an attempt. *)
ReadFails(c) ==
  /\ At(c, {"unlock", "backup"}, "read")
  /\ IF calls[c].op = "unlock"
     THEN lockout' = RecordFailedAttempt(lockout) /\ failed' = failed + 1
     ELSE UNCHANGED <<lockout, failed>>
  /\ Return(c)
  /\ UNCHANGED <<stored, memory>>

(* AES-GCM under a key derived from the PIN: another PIN fails its tag. *)
Decrypts(c) == calls[c].pin = calls[c].stored

DecryptsWallet(c) ==
  /\ At(c, {"unlock", "backup"}, "decrypt")
  /\ Decrypts(c)
  /\ lockout' = NoAttempts
  /\ failed' = 0
  /\ IF calls[c].op = "unlock" THEN Continue(c, "open") ELSE Return(c)
  /\ UNCHANGED <<stored, memory>>

Refuse_UnlockOnly(op, l) == IF op = "unlock" THEN RecordFailedAttempt(l) ELSE l

(* loadWallet records a refused PIN, and unlock records it again. *)
Refuse(op, l) ==
  IF op = "unlock" THEN RecordFailedAttempt(RecordFailedAttempt(l)) ELSE RecordFailedAttempt(l)

RejectsPin(c) ==
  /\ At(c, {"unlock", "backup"}, "decrypt")
  /\ ~Decrypts(c)
  /\ lockout' = Refuse(calls[c].op, lockout)
  /\ failed' = failed + 1
  /\ Return(c)
  /\ UNCHANGED <<stored, memory>>

(* An object nothing refers to any more. *)
Fresh == CHOOSE w \in WalletId :
           /\ w # ui.wallet
           /\ session # None => w # session.wallet

Unlocks(c) == calls[c].op = "unlock"

(* Of unlock, create and import only unlock stores a PIN hash... *)
PinHashAfter(c) == IF Unlocks(c) THEN calls[c].pin ELSE pinHash

SessionAfter_Kept(c) ==
  IF session # None THEN [session EXCEPT !.left = Timeout]
  ELSE [wallet |-> Fresh, left |-> Timeout, clearsHash |-> Unlocks(c)]

(* ...and only its callback clears the hash; startSession ends the session  *)
(* before it, whose callback is dropped without being called.               *)
SessionAfter(c) == [wallet |-> Fresh, left |-> Timeout, clearsHash |-> Unlocks(c)]

OpenWallet(c) ==
  /\ sessionPin' = calls[c].pin
  /\ pinHash' = PinHashAfter(c)
  /\ session' = SessionAfter(c)
  /\ ui' = [loading |-> FALSE, initialized |-> ui.initialized \/ ~Unlocks(c),
            locked |-> FALSE, wallet |-> Fresh]
  /\ destroyed' = FALSE

FinishUnlock(c) ==
  /\ At(c, {"unlock"}, "open")
  /\ OpenWallet(c)
  /\ lockout' = NoAttempts
  /\ failed' = 0
  /\ Return(c)
  /\ UNCHANGED stored

(* createWallet and importWallet differ in the phrase only: it is encrypted *)
(* and stored, whatever was there.                                          *)
BeginSave(c, pin) ==
  /\ Begin(c, Request("save", "save", pin))
  /\ UNCHANGED <<stored, lockout, memory, failed>>

SaveWallet(c) ==
  /\ At(c, {"save"}, "save")
  /\ stored' = calls[c].pin
  /\ Continue(c, "open")
  /\ UNCHANGED <<lockout, memory, failed>>

FinishSave(c) ==
  /\ At(c, {"save"}, "open")
  /\ OpenWallet(c)
  /\ Return(c)
  /\ UNCHANGED <<stored, lockout, failed>>

BeginDelete(c) ==
  /\ Protected
  /\ Begin(c, Request("delete", "delete", None))
  /\ ClearSession
  /\ UNCHANGED <<stored, lockout, pinHash, ui, destroyed, failed>>

FinishDelete(c) ==
  /\ At(c, {"delete"}, "delete")
  /\ stored' = None
  /\ lockout' = NoAttempts
  /\ failed' = 0
  /\ ClearSession
  /\ pinHash' = None
  /\ destroyed' = FALSE
  /\ ui' = [Loading EXCEPT !.loading = FALSE]
  /\ Return(c)

(* The database refuses the write: the error is shown and nothing is undone. *)
WriteFails(c) ==
  /\ At(c, {"save"}, "save") \/ At(c, {"delete"}, "delete")
  /\ Return(c)
  /\ UNCHANGED <<stored, lockout, memory, failed>>

---------------------------------------------------------------------------
(* Calls that do not await. *)

(* verifySessionPin, asked before every signature. *)
VerifySessionPin(pin) ==
  /\ Protected
  /\ ~LockedOut
  /\ pinHash \notin {None, pin}
  /\ lockout' = RecordFailedAttempt(lockout)
  /\ failed' = failed + 1
  /\ UNCHANGED <<stored, memory, calls>>

(* Activity is recorded and expiry looked for while a wallet is open. *)
Watched == ~ui.locked /\ ui.wallet # None

(* A click, a key, a touch. *)
RecordActivity ==
  /\ Watched
  /\ session # None
  /\ session' = [session EXCEPT !.left = Timeout]
  /\ UNCHANGED <<stored, lockout, sessionPin, pinHash, ui, destroyed, calls, failed>>

Lock ==
  /\ Protected
  /\ ClearSession
  /\ pinHash' = None
  /\ destroyed' = FALSE
  /\ ui' = [ui EXCEPT !.locked = TRUE, !.wallet = None]
  /\ UNCHANGED <<stored, lockout, calls, failed>>

---------------------------------------------------------------------------
(* Timers, the page and the clock. *)

(* The timer of the session; the provider is not told. *)
SessionTimer ==
  /\ session # None
  /\ session.left = 0
  /\ ClearSession
  /\ pinHash' = IF session.clearsHash THEN None ELSE pinHash
  /\ destroyed' = (destroyed \/ session.wallet = ui.wallet)
  /\ UNCHANGED <<stored, lockout, ui, calls, failed>>

IsSessionValid_None == session = None \/ session.left > 0

IsSessionValid == session # None /\ session.left > 0

(* Every 30 seconds the provider looks whether the session is over. *)
PollSession ==
  /\ Watched
  /\ ~IsSessionValid
  /\ ClearSession
  /\ destroyed' = FALSE
  /\ ui' = [ui EXCEPT !.locked = TRUE, !.wallet = None]
  /\ UNCHANGED <<stored, lockout, pinHash, calls, failed>>

(* hasWallet answers false when the database fails. *)
WalletExists == {stored # None, FALSE}

(* The session PIN that the mount looks for lives in memory only, so it     *)
(* never restores a session.                                                *)
CheckWallet ==
  /\ ui.loading
  /\ \E exists \in WalletExists :
       ui' = [ui EXCEPT !.loading = FALSE, !.initialized = exists]
  /\ UNCHANGED <<stored, lockout, session, sessionPin, pinHash, destroyed, calls, failed>>

Reload ==
  /\ ~ui.loading
  /\ session' = None
  /\ sessionPin' = None
  /\ pinHash' = None
  /\ ui' = Loading
  /\ destroyed' = FALSE
  /\ calls' = [c \in Caller |-> None]
  /\ UNCHANGED <<stored, lockout, failed>>

Less(n) == IF n = 0 THEN 0 ELSE n - 1

Tick ==
  /\ lockout' = [lockout EXCEPT !.age = IF @ > Duration THEN @ ELSE @ + 1,
                                !.left = Less(@)]
  /\ session' = IF session = None THEN None ELSE [session EXCEPT !.left = Less(@)]
  /\ failed' = IF lockout.left = 1 \/ lockout'.age > Duration THEN 0 ELSE failed
  /\ UNCHANGED <<stored, sessionPin, pinHash, ui, destroyed, calls>>

CallStep(c) ==
  \/ ReadWallet(c)
  \/ ReadFails(c)
  \/ DecryptsWallet(c)
  \/ RejectsPin(c)
  \/ FinishUnlock(c)
  \/ SaveWallet(c)
  \/ FinishSave(c)
  \/ FinishDelete(c)
  \/ WriteFails(c)

(* What goes on without the user. *)
Background ==
  \/ \E c \in Caller : CallStep(c)
  \/ SessionTimer
  \/ PollSession
  \/ CheckWallet
  \/ Tick

User ==
  \/ \E c \in Caller, pin \in Pin :
       BeginUnlock(c, pin) \/ BeginBackup(c, pin) \/ BeginSave(c, pin)
  \/ \E c \in Caller : BeginDelete(c)
  \/ \E pin \in Pin : VerifySessionPin(pin)
  \/ RecordActivity
  \/ Lock
  \/ Reload

Next == Background \/ User

(* Timers fire, intervals run and awaited calls return; users may do nothing. *)
Fairness ==
  /\ WF_vars(Tick) /\ WF_vars(SessionTimer) /\ WF_vars(PollSession) /\ WF_vars(CheckWallet)
  /\ \A c \in Caller : WF_vars(CallStep(c))

Spec == Init /\ [][Next]_vars /\ Fairness

---------------------------------------------------------------------------
(* Properties. *)

(* A locked wallet has no session, no timer and no PIN in memory, whichever *)
(* of lock, expiry, poll, deletion and calls that were under way came last. *)
LockedHoldsNoSession == ui.locked => session = None /\ sessionPin = None

(* The session that runs is the one of the wallet on the screen: expiry     *)
(* destroys that wallet and not one an earlier call opened.                 *)
SessionGuardsShownWallet ==
  session # None => ~ui.locked /\ session.wallet = ui.wallet /\ ~destroyed

(* After an unlock the PIN that unlocked the wallet is the one signatures   *)
(* are checked against, until the session ends.                             *)
UnlockedSessionVerifies ==
  session # None /\ session.clearsHash => pinHash = sessionPin

(* Whatever calls overlapped, the timer, the PIN and the wallet in memory   *)
(* come from the same call.                                                 *)
SessionFitsWallet == SessionGuardsShownWallet /\ UnlockedSessionVerifies

(* At most MaxPinAttempts PINs are refused before a pause, and one more for *)
(* every call that had passed the lockout check when the pause began: the   *)
(* unlock screen, the phrase and the signatures share one counter.          *)
GuessesBounded == failed <= MaxPinAttempts + Cardinality(Caller)

(* Once the user leaves the wallet alone, it gets locked and stays so. *)
IdleGetsLocked == <>[][Background]_vars => <>[](ui.locked)
=============================================================================
