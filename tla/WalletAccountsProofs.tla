------------------------ MODULE WalletAccountsProofs ------------------------
(***************************************************************************)
(* Proofs about WalletAccounts for every set of phrases, of PINs and of    *)
(* calls under way, and for every number of accounts.                      *)
(***************************************************************************)
EXTENDS WalletAccounts, TLAPS

USE WalletAccountsConstants, NoneIsNothing DEF WalletAccountsConstants

MaybeCall == Call \cup {None}
Names == {"home", "create", "import", "unlock", "settings"}
ScreenType ==
  [name: Names, step: Step, pin: Pin \cup {None}, phrase: Phrase \cup {None}, busy: BOOLEAN]
ProviderType ==
  [initialized: BOOLEAN, locked: BOOLEAN, wallet: Phrase \cup {None}, accounts: Seq(Account),
   active: 0 .. MaxAccounts - 1]

(* The screen a call is begun on; a call that is mounted is still on it. *)
ScreenOf(op) ==
  CASE op = "create" -> "create" [] op = "import" -> "import" [] op = "unlock" -> "unlock"
    [] OTHER -> "settings"

(* A call has what its next step needs. *)
Ready(c) ==
  /\ c.op \in {"create", "import"} => c.at \in {"save", "open"} /\ c.phrase # None /\ c.pin # None
  /\ c.op = "delete" => c.at \in {"save", "open"}
  /\ c.op = "unlock" => c.at \in {"read", "open"} /\ (c.at = "open" => c.phrase # None)
  /\ c.op = "backup" => c.at = "read"
  /\ c.op = "derive" => c.at = "derive" /\ c.phrase # None /\ c.index < MaxAccounts

CallsReady ==
  \A c \in Running : Ready(calls[c]) /\ (calls[c].mounted => screen.name = ScreenOf(calls[c].op))

(* A screen has what its step needs. *)
PhraseShown(s) == s.step \in {"phrase", "verify"}
Fits(s, p) ==
  /\ s.name = "settings" => Protected(p)
  /\ PhraseShown(s) => s.name \in {"create", "settings"}
  /\ s.name = "import" /\ s.step \in {"pin", "confirm"} => s.phrase # None
  /\ s.name \in {"create", "import"} /\ s.step = "confirm" => s.pin # None

ProviderReady(p) ==
  /\ p.locked <=> p.wallet = None
  /\ \A i \in 1 .. Len(p.accounts) : p.accounts[i].index < MaxAccounts

(* Calls that overlap have been recorded. *)
Recorded ==
  \A c, d \in Running : c # d => Clash(calls[c].op, calls[d].op) \subseteq overlaps

(* A phrase on the screen is the stored one, and nothing is being written. *)
PhraseInv ==
  "storage" \notin overlaps /\ PhraseShown(screen) =>
    /\ stored # None /\ stored.phrase = screen.phrase
    /\ \A c \in Running : calls[c].op \notin Writes

(* What a call opens is what is stored, and so is what is open. *)
OpenInv ==
  "storage" \notin overlaps =>
    /\ \A c \in Running :
         calls[c].at = "open" /\ calls[c].op # "delete"
           => stored # None /\ stored.phrase = calls[c].phrase
    /\ provider.wallet # None /\ ~Opening => stored # None /\ stored.phrase = provider.wallet

(* The account being derived is the next one of the open wallet. *)
InOrder(p) ==
  \A i \in 1 .. Len(p.accounts) : p.accounts[i] = [phrase |-> p.wallet, index |-> i - 1]
IsNext(c, p) == c.op = "derive" => c.phrase = p.wallet /\ c.index = Len(p.accounts)
ListInv ==
  "accounts" \notin overlaps /\ ~provider.locked =>
    InOrder(provider) /\ \A c \in Running : IsNext(calls[c], provider)

AInv ==
  /\ stored \in Wallet \cup {None} /\ provider \in ProviderType /\ screen \in ScreenType
  /\ calls \in [Caller -> MaybeCall] /\ overlaps \subseteq {"storage", "accounts"}
  /\ Fits(screen, provider) /\ ProviderReady(provider)
  /\ CallsReady /\ Recorded /\ PhraseInv /\ OpenInv /\ ListInv

---------------------------------------------------------------------------
(* Records. *)

LEMMA CallFields ==
  ASSUME NEW c \in Call
  PROVE  /\ c.op \in Op /\ c.at \in {"read", "save", "open", "derive"}
         /\ c.phrase \in Phrase \cup {None} /\ c.pin \in Pin \cup {None}
         /\ c.index \in 0 .. MaxAccounts /\ c.mounted \in BOOLEAN /\ c # None
<1>1. /\ c.op \in Op /\ c.at \in {"read", "save", "open", "derive"}
      /\ c.phrase \in Phrase \cup {None} /\ c.pin \in Pin \cup {None}
      /\ c.index \in 0 .. MaxAccounts /\ c.mounted \in BOOLEAN
  BY DEF Call
<1> QED BY <1>1

LEMMA BlankFits ==
  ASSUME NEW name \in Names, NEW p, name = "settings" => Protected(p)
  PROVE  Blank(name) \in ScreenType /\ Fits(Blank(name), p) /\ ~PhraseShown(Blank(name))
<1>1. FirstStep(name) \in {"open", "words", "pin", "none"} /\ FirstStep(name) \in Step
      /\ (name = "import" => FirstStep(name) = "words")
  BY DEF FirstStep, Names, Step
<1>2. Blank(name) \in ScreenType /\ Blank(name).name = name /\ Blank(name).step = FirstStep(name)
  BY <1>1 DEF Blank, ScreenType
<1> QED BY <1>1, <1>2 DEF Fits, PhraseShown

LEMMA OneAccount ==
  ASSUME NEW phrase \in Phrase
  PROVE  /\ GetAccounts(phrase) \in Seq(Account) /\ Len(GetAccounts(phrase)) = 1
         /\ GetAccounts(phrase)[1] = [phrase |-> phrase, index |-> 0]
<1>1. [phrase |-> phrase, index |-> 0] \in Account
  BY DEF Account
<1> QED BY <1>1 DEF GetAccounts

(* The provider of a wallet just made, of none, and of a locked one. *)
LEMMA Providers ==
  /\ \A phrase \in Phrase :
       LET p == Created(phrase)
       IN  p \in ProviderType /\ ProviderReady(p) /\ Protected(p) /\ InOrder(p) /\ p.wallet = phrase
  /\ \A i \in BOOLEAN : NoWallet(i) \in ProviderType /\ ProviderReady(NoWallet(i))
                        /\ NoWallet(i).locked /\ NoWallet(i).wallet = None
  /\ \A p \in ProviderType : Locked(p) \in ProviderType /\ ProviderReady(Locked(p))
                             /\ Locked(p).locked /\ Locked(p).wallet = None
<1>1. ASSUME NEW phrase \in Phrase
      PROVE  LET p == Created(phrase)
             IN  p \in ProviderType /\ ProviderReady(p) /\ Protected(p) /\ InOrder(p)
                 /\ p.wallet = phrase
  <2> DEFINE p == Created(phrase)
  <2>0. GetAccounts(phrase) \in Seq(Account)
    BY OneAccount
  <2>8. 0 \in 0 .. MaxAccounts - 1
    OBVIOUS
  <2>1. /\ p.initialized /\ ~p.locked /\ p.wallet = phrase /\ p.accounts = GetAccounts(phrase)
        /\ p.active = 0
    BY DEF Created
  <2>6. p \in ProviderType
    BY <2>0, <2>8 DEF Created, ProviderType
  <2> HIDE DEF p
  <2>2. phrase # None
    OBVIOUS
  <2>7. \A i \in 1 .. Len(p.accounts) : i = 1 /\ p.accounts[i] = [phrase |-> phrase, index |-> 0]
    <3>1. Len(p.accounts) = 1 /\ p.accounts[1] = [phrase |-> phrase, index |-> 0]
      BY <2>1, OneAccount
    <3>2. 1 .. 1 = {1}
      OBVIOUS
    <3> QED BY <3>1, <3>2
  <2>3. \A i \in 1 .. Len(p.accounts) : p.accounts[i] = [phrase |-> p.wallet, index |-> i - 1]
    BY <2>1, <2>7
  <2>4. \A i \in 1 .. Len(p.accounts) : p.accounts[i].index < MaxAccounts
    BY <2>7
  <2>5. ProviderReady(p) /\ Protected(p) /\ InOrder(p)
    BY <2>1, <2>2, <2>3, <2>4 DEF ProviderReady, Protected, InOrder
  <2> QED BY <2>1, <2>5, <2>6 DEF p
<1>2. ASSUME NEW i \in BOOLEAN
      PROVE  NoWallet(i) \in ProviderType /\ ProviderReady(NoWallet(i))
             /\ NoWallet(i).locked /\ NoWallet(i).wallet = None
  BY DEF NoWallet, ProviderType, ProviderReady
<1>3. ASSUME NEW p \in ProviderType
      PROVE  Locked(p) \in ProviderType /\ ProviderReady(Locked(p))
             /\ Locked(p).locked /\ Locked(p).wallet = None
  <2>1. << >> \in Seq(Account) /\ Len(<< >>) = 0
    OBVIOUS
  <2>2. [p EXCEPT !.locked = TRUE, !.wallet = None, !.accounts = << >>] \in ProviderType
    BY <2>1 DEF ProviderType
  <2>3. Locked(p).locked = TRUE /\ Locked(p).wallet = None /\ Locked(p).accounts = << >>
    BY DEF Locked, ProviderType
  <2>4. ProviderReady(Locked(p))
    BY <2>1, <2>3 DEF ProviderReady
  <2> QED BY <2>2, <2>3, <2>4 DEF Locked
<1> QED BY <1>1, <1>2, <1>3

---------------------------------------------------------------------------
(* Calls that go on as they are, or end. *)

Kept(cs, ds) ==
  /\ ds \in [Caller -> MaybeCall]
  /\ \A c \in Caller :
       ds[c] # None => /\ cs[c] # None /\ ds[c].op = cs[c].op /\ ds[c].at = cs[c].at
                       /\ ds[c].phrase = cs[c].phrase /\ ds[c].pin = cs[c].pin
                       /\ ds[c].index = cs[c].index /\ (ds[c].mounted => cs[c].mounted)

LEMMA KeptSame == ASSUME NEW cs \in [Caller -> MaybeCall] PROVE Kept(cs, cs)
BY DEF Kept

(* All of them go on unseen. *)
LEMMA KeptUnseen ==
  ASSUME NEW cs \in [Caller -> MaybeCall]
  PROVE  /\ Kept(cs, Unseen(cs))
         /\ \A c \in Caller : /\ Unseen(cs)[c] = None <=> cs[c] = None
                              /\ Unseen(cs)[c] # None => ~Unseen(cs)[c].mounted
<1>1. ASSUME NEW c \in Caller
      PROVE  /\ Unseen(cs)[c] \in MaybeCall /\ (Unseen(cs)[c] = None <=> cs[c] = None)
             /\ cs[c] # None => /\ Unseen(cs)[c].op = cs[c].op /\ Unseen(cs)[c].at = cs[c].at
                                /\ Unseen(cs)[c].phrase = cs[c].phrase
                                /\ Unseen(cs)[c].pin = cs[c].pin
                                /\ Unseen(cs)[c].index = cs[c].index
                                /\ Unseen(cs)[c].mounted = FALSE
  <2>1. CASE cs[c] = None
    BY <2>1 DEF Unseen, MaybeCall
  <2>2. CASE cs[c] # None
    <3>1. cs[c] \in Call /\ Unseen(cs)[c] = [cs[c] EXCEPT !.mounted = FALSE]
      BY <2>2 DEF Unseen, MaybeCall
    <3>2. [cs[c] EXCEPT !.mounted = FALSE] \in Call
      BY <3>1 DEF Call
    <3>3. Unseen(cs)[c] # None
      BY <3>1, <3>2, CallFields
    <3> QED BY <2>2, <3>1, <3>2, <3>3 DEF Call, MaybeCall
  <2> QED BY <2>1, <2>2
<1>2. Unseen(cs) \in [Caller -> MaybeCall]
  <2>1. Unseen(cs) = [c \in Caller |-> Unseen(cs)[c]]
    BY DEF Unseen
  <2> QED BY <1>1, <2>1
<1> QED BY <1>1, <1>2 DEF Kept

(* One of them ends. *)
LEMMA KeptReturn ==
  ASSUME NEW cs \in [Caller -> MaybeCall], NEW c \in Caller
  PROVE  /\ Kept(cs, [cs EXCEPT ![c] = None])
         /\ [cs EXCEPT ![c] = None][c] = None
         /\ \A d \in Caller \ {c} : [cs EXCEPT ![c] = None][d] = cs[d]
BY DEF Kept, MaybeCall

---------------------------------------------------------------------------
(* Steps after which no call has more to do than before. *)

(* A screen that stays has its calls; a new one has none. *)
Shown ==
  /\ screen' \in ScreenType /\ Fits(screen', provider')
  /\ \/ screen'.name = screen.name
     \/ \A c \in Caller : calls'[c] # None => ~calls'[c].mounted

LEMMA KeptStep ==
  ASSUME AInv, Kept(calls, calls'), UNCHANGED <<stored, overlaps>>, Shown,
         provider' \in ProviderType, ProviderReady(provider'), PhraseInv',
         "storage" \notin overlaps /\ provider'.wallet # None /\ ~Opening'
           => stored # None /\ stored.phrase = provider'.wallet,
         "accounts" \notin overlaps /\ ~provider'.locked
           => InOrder(provider') /\ \A c \in Running' : IsNext(calls'[c], provider')
  PROVE  AInv'
<1>1. \A c \in Running' :
        /\ c \in Running /\ calls'[c].op = calls[c].op /\ calls'[c].at = calls[c].at
        /\ calls'[c].phrase = calls[c].phrase /\ calls'[c].pin = calls[c].pin
        /\ calls'[c].index = calls[c].index /\ (calls'[c].mounted => calls[c].mounted)
  BY DEF Kept, Running
<1>2. CallsReady'
  <2> SUFFICES ASSUME NEW c \in Running'
               PROVE  Ready(calls'[c])
                      /\ (calls'[c].mounted => screen'.name = ScreenOf(calls'[c].op))
    BY DEF CallsReady
  <2>1. Ready(calls[c]) /\ (calls[c].mounted => screen.name = ScreenOf(calls[c].op))
    BY <1>1 DEF AInv, CallsReady
  <2>2. Ready(calls'[c])
    BY <1>1, <2>1 DEF Ready
  <2>3. calls'[c].mounted => screen'.name = screen.name
    BY DEF Shown, Running
  <2> QED BY <1>1, <2>1, <2>2, <2>3
<1>3. Recorded'
  BY <1>1 DEF AInv, Recorded
<1>4. OpenInv'
  BY <1>1 DEF AInv, OpenInv
<1>5. ListInv'
  BY DEF ListInv
<1>6. Fits(screen, provider)' /\ ProviderReady(provider)'
  BY DEF Shown
<1> QED BY <1>2, <1>3, <1>4, <1>5, <1>6 DEF AInv, Shown, Kept

(* The same when the provider keeps its wallet and its accounts. *)
Alike(p, q) ==
  p.initialized = q.initialized /\ p.locked = q.locked /\ p.wallet = q.wallet
  /\ p.accounts = q.accounts

LEMMA AlikeFits ==
  ASSUME NEW p, NEW q, Alike(p, q)
  PROVE  /\ ProviderReady(p) => ProviderReady(q)
         /\ Protected(p) => Protected(q)
         /\ InOrder(p) => InOrder(q)
         /\ \A c : IsNext(c, p) => IsNext(c, q)
         /\ \A s : Fits(s, p) => Fits(s, q)
BY DEF Alike, ProviderReady, Protected, InOrder, IsNext, Fits

LEMMA QuietStep ==
  ASSUME AInv, Kept(calls, calls'), UNCHANGED <<stored, overlaps>>, Shown,
         provider' \in ProviderType, Alike(provider, provider'), PhraseInv', Opening => Opening'
  PROVE  AInv'
<1>1. ProviderReady(provider')
  BY AlikeFits DEF AInv
<1>2. "storage" \notin overlaps /\ provider'.wallet # None /\ ~Opening'
        => stored # None /\ stored.phrase = provider'.wallet
  BY DEF AInv, OpenInv, Alike
<1>3. ASSUME "accounts" \notin overlaps, ~provider'.locked
      PROVE  InOrder(provider') /\ \A c \in Running' : IsNext(calls'[c], provider')
  <2>1. InOrder(provider) /\ \A c \in Running : IsNext(calls[c], provider)
    BY <1>3 DEF AInv, ListInv, Alike
  <2>2. \A c \in Running' : /\ c \in Running /\ calls'[c].op = calls[c].op
                            /\ calls'[c].phrase = calls[c].phrase
                            /\ calls'[c].index = calls[c].index
    BY DEF Kept, Running
  <2>3. \A c \in Running' : IsNext(calls'[c], provider)
    BY <2>1, <2>2 DEF IsNext
  <2> QED BY <2>1, <2>3, AlikeFits
<1> QED BY <1>1, <1>2, <1>3, KeptStep

(* What is shown of a phrase stays, or goes. *)
LEMMA PhraseStays ==
  ASSUME AInv, Kept(calls, calls'), UNCHANGED <<stored, overlaps>>,
         PhraseShown(screen') => PhraseShown(screen) /\ screen'.phrase = screen.phrase
  PROVE  PhraseInv'
<1>1. \A c \in Running' : c \in Running /\ calls'[c].op = calls[c].op
  BY DEF Kept, Running
<1> QED BY <1>1 DEF AInv, PhraseInv

(* A new screen. *)
LEMMA NewScreen ==
  ASSUME AInv, NEW cs \in [Caller -> MaybeCall], NEW name \in Names, Show(cs, Blank(name)),
         name = "settings" => Protected(provider'), Kept(calls, cs),
         UNCHANGED <<stored, overlaps>>
  PROVE  /\ Shown /\ PhraseInv' /\ Kept(calls, calls')
         /\ \A c \in Caller : calls'[c] = None <=> cs[c] = None
<1>1. calls' = Unseen(cs) /\ screen' = Blank(name)
  BY DEF Show
<1>2. Kept(cs, Unseen(cs))
      /\ \A c \in Caller : /\ Unseen(cs)[c] = None <=> cs[c] = None
                           /\ Unseen(cs)[c] # None => ~Unseen(cs)[c].mounted
  BY KeptUnseen
<1>3. Kept(calls, calls')
  BY <1>1, <1>2 DEF Kept
<1>4. Shown
  BY <1>1, <1>2, BlankFits DEF Shown
<1>5. PhraseInv'
  <2>1. ~PhraseShown(screen')
    BY <1>1, BlankFits
  <2> QED BY <2>1 DEF PhraseInv
<1> QED BY <1>1, <1>2, <1>3, <1>4, <1>5

(* A button of the screen that is open. *)
LEMMA TurnStep ==
  ASSUME AInv, UNCHANGED <<stored, provider, calls, overlaps>>,
         screen' \in ScreenType, screen'.name = screen.name, Fits(screen', provider),
         PhraseShown(screen') => PhraseShown(screen) /\ screen'.phrase = screen.phrase
  PROVE  AInv'
<1>1. Kept(calls, calls')
  BY KeptSame DEF AInv
<1>2. PhraseInv'
  BY <1>1, PhraseStays
<1>3. Shown
  BY DEF Shown
<1>4. Alike(provider, provider') /\ provider' \in ProviderType
  BY DEF Alike, AInv
<1>5. Opening => Opening'
  BY DEF Opening, Running
<1> QED BY <1>1, <1>2, <1>3, <1>4, <1>5, QuietStep

LEMMA Turns ==
  ASSUME AInv,
         \/ \E phrase \in Phrase : EnterWords(phrase)
         \/ \E pin \in Pin : EnterPin(pin)
         \/ BackToWords \/ RejectPin \/ HandleContinueToVerify
         \/ \E step \in {"backup", "delete", "accounts"} : OpenModal(step)
         \/ CloseModal
  PROVE  AInv'
<1> USE DEF Turn, Creating, Importing, InSettings
<1>0. screen \in ScreenType /\ Fits(screen, provider)
  BY DEF AInv
<1>1. CASE \E phrase \in Phrase : EnterWords(phrase)
  <2>1. PICK phrase \in Phrase : EnterWords(phrase)
    BY <1>1
  <2>2. [screen EXCEPT !.step = "pin", !.phrase = phrase] \in ScreenType
    BY <1>0 DEF ScreenType, Step
  <2>3. /\ screen' \in ScreenType /\ screen'.name = "import" /\ screen'.step = "pin"
        /\ screen'.phrase = phrase /\ screen.name = "import"
        /\ UNCHANGED <<stored, provider, calls, overlaps>>
    BY <1>0, <2>1, <2>2 DEF EnterWords, ScreenType
  <2>4. Fits(screen', provider) /\ ~PhraseShown(screen')
    BY <2>3 DEF Fits, PhraseShown
  <2> QED BY <2>3, <2>4, TurnStep
<1>2. CASE \E pin \in Pin : EnterPin(pin)
  <2>1. PICK pin \in Pin : EnterPin(pin)
    BY <1>2
  <2>2. [screen EXCEPT !.step = "confirm", !.pin = pin] \in ScreenType
    BY <1>0 DEF ScreenType, Step
  <2>3. /\ screen' \in ScreenType /\ screen'.name = screen.name /\ screen'.step = "confirm"
        /\ screen'.pin = pin /\ screen'.phrase = screen.phrase /\ screen.step = "pin"
        /\ screen.name \in {"create", "import"}
        /\ UNCHANGED <<stored, provider, calls, overlaps>>
    BY <1>0, <2>1, <2>2 DEF EnterPin, ScreenType
  <2>4. Fits(screen', provider) /\ ~PhraseShown(screen')
    BY <1>0, <2>3 DEF Fits, PhraseShown
  <2> QED BY <2>3, <2>4, TurnStep
<1>3. CASE BackToWords
  <2>1. [screen EXCEPT !.step = "words"] \in ScreenType
    BY <1>0 DEF ScreenType, Step
  <2>2. /\ screen' \in ScreenType /\ screen'.name = screen.name /\ screen'.step = "words"
        /\ screen.name = "import" /\ UNCHANGED <<stored, provider, calls, overlaps>>
    BY <1>0, <1>3, <2>1 DEF BackToWords, ScreenType
  <2>3. Fits(screen', provider) /\ ~PhraseShown(screen')
    BY <2>2 DEF Fits, PhraseShown
  <2> QED BY <2>2, <2>3, TurnStep
<1>4. CASE RejectPin
  <2>1. [screen EXCEPT !.step = "pin", !.pin = None] \in ScreenType
    BY <1>0 DEF ScreenType, Step
  <2>2. /\ screen' \in ScreenType /\ screen'.name = screen.name /\ screen'.step = "pin"
        /\ screen'.phrase = screen.phrase /\ screen.step = "confirm"
        /\ screen.name \in {"create", "import"}
        /\ UNCHANGED <<stored, provider, calls, overlaps>>
    BY <1>0, <1>4, <2>1 DEF RejectPin, ScreenType
  <2>3. Fits(screen', provider) /\ ~PhraseShown(screen')
    BY <1>0, <2>2 DEF Fits, PhraseShown
  <2> QED BY <2>2, <2>3, TurnStep
<1>5. CASE HandleContinueToVerify
  <2>1. [screen EXCEPT !.step = "verify"] \in ScreenType
    BY <1>0 DEF ScreenType, Step
  <2>2. /\ screen' \in ScreenType /\ screen'.name = screen.name /\ screen'.step = "verify"
        /\ screen'.phrase = screen.phrase /\ screen.step = "phrase" /\ screen.name = "create"
        /\ UNCHANGED <<stored, provider, calls, overlaps>>
    BY <1>0, <1>5, <2>1 DEF HandleContinueToVerify, ScreenType
  <2>3. Fits(screen', provider) /\ PhraseShown(screen)
    BY <2>2 DEF Fits, PhraseShown
  <2> QED BY <2>2, <2>3, TurnStep
<1>6. CASE \E step \in {"backup", "delete", "accounts"} : OpenModal(step)
  <2>1. PICK step \in {"backup", "delete", "accounts"} : OpenModal(step)
    BY <1>6
  <2>2. [screen EXCEPT !.step = step] \in ScreenType
    BY <1>0 DEF ScreenType, Step
  <2>3. /\ screen' \in ScreenType /\ screen'.name = screen.name /\ screen'.step = step
        /\ screen.name = "settings" /\ UNCHANGED <<stored, provider, calls, overlaps>>
    BY <1>0, <2>1, <2>2 DEF OpenModal, ScreenType
  <2>4. Fits(screen', provider) /\ ~PhraseShown(screen')
    BY <1>0, <2>3 DEF Fits, PhraseShown
  <2> QED BY <2>3, <2>4, TurnStep
<1>7. CASE CloseModal
  <2>1. [screen EXCEPT !.step = "none", !.phrase = None] \in ScreenType
    BY <1>0 DEF ScreenType, Step
  <2>2. /\ screen' \in ScreenType /\ screen'.name = screen.name /\ screen'.step = "none"
        /\ screen.name = "settings" /\ UNCHANGED <<stored, provider, calls, overlaps>>
    BY <1>0, <1>7, <2>1 DEF CloseModal, ScreenType
  <2>3. Fits(screen', provider) /\ ~PhraseShown(screen')
    BY <1>0, <2>2 DEF Fits, PhraseShown
  <2> QED BY <2>2, <2>3, TurnStep
<1> QED BY <1>1, <1>2, <1>3, <1>4, <1>5, <1>6, <1>7

LEMMA Leaving ==
  ASSUME AInv, (\E name \in Names : Visit(name)) \/ HandleVerify \/ HandleLock \/ SwitchAccount
  PROVE  AInv'
<1>0. calls \in [Caller -> MaybeCall] /\ Kept(calls, calls)
  BY KeptSame DEF AInv
<1>1. ASSUME NEW name \in Names, Show(calls, Blank(name)), name = "settings" => Protected(provider),
             UNCHANGED <<stored, provider, overlaps>>
      PROVE  AInv'
  <2>1. /\ Shown /\ PhraseInv' /\ Kept(calls, calls')
        /\ \A c \in Caller : calls'[c] = None <=> calls[c] = None
    BY <1>0, <1>1, NewScreen
  <2>2. Opening => Opening'
    BY <2>1 DEF Opening, Running, Kept
  <2>3. Alike(provider, provider') /\ provider' \in ProviderType
    BY <1>1 DEF Alike, AInv
  <2> QED BY <1>1, <2>1, <2>2, <2>3, QuietStep
<1>2. CASE \E name \in Names : Visit(name)
  BY <1>1, <1>2 DEF Visit
<1>3. CASE HandleVerify
  BY <1>1, <1>3 DEF HandleVerify, Names
<1>4. CASE HandleLock
  <2>1. /\ provider' \in ProviderType /\ ProviderReady(provider') /\ provider'.locked
        /\ provider'.wallet = None
    BY <1>4, Providers DEF HandleLock, AInv
  <2>2. Shown /\ PhraseInv' /\ Kept(calls, calls')
    BY <1>0, <1>4, NewScreen DEF HandleLock, Names
  <2> QED BY <1>4, <2>1, <2>2, KeptStep DEF HandleLock
<1>5. CASE SwitchAccount
  <2>1. PICK i \in 1 .. Len(provider.accounts) :
          provider' = [provider EXCEPT !.active = provider.accounts[i].index]
    BY <1>5 DEF SwitchAccount, Select
  <2>2. provider.accounts[i] \in Account /\ provider.accounts[i].index < MaxAccounts
    BY DEF AInv, ProviderReady, ProviderType
  <2>3. provider.accounts[i].index \in 0 .. MaxAccounts - 1
    BY <2>2 DEF Account
  <2>4. [provider EXCEPT !.active = provider.accounts[i].index] \in ProviderType
    BY <2>3 DEF AInv, ProviderType
  <2>5. provider' \in ProviderType /\ Alike(provider, provider')
    BY <2>1, <2>4 DEF AInv, ProviderType, Alike
  <2>6. [screen EXCEPT !.step = "none"] \in ScreenType
    BY DEF AInv, ScreenType, Step
  <2>7. screen' \in ScreenType /\ screen'.name = screen.name /\ screen'.step = "none"
        /\ screen.name = "settings"
    BY <1>5, <2>6 DEF SwitchAccount, InSettings, AInv, ScreenType
  <2>8. Fits(screen', provider') /\ ~PhraseShown(screen')
    BY <2>5, <2>7, AlikeFits DEF AInv, Fits, PhraseShown
  <2>9. Kept(calls, calls') /\ UNCHANGED <<stored, overlaps>>
    BY <1>0, <1>5 DEF SwitchAccount
  <2>10. Shown /\ PhraseInv' /\ (Opening => Opening')
    BY <1>5, <2>7, <2>8 DEF Shown, PhraseInv, SwitchAccount, Opening, Running
  <2> QED BY <2>5, <2>9, <2>10, QuietStep
<1> QED BY <1>2, <1>3, <1>4, <1>5

LEMMA AutoLockStep == ASSUME AInv, AutoLock PROVE AInv'
<1>1. /\ provider' \in ProviderType /\ ProviderReady(provider') /\ provider'.locked
      /\ provider'.wallet = None /\ UNCHANGED <<stored, overlaps>>
  BY Providers DEF AutoLock, AInv
<1>2. calls \in [Caller -> MaybeCall] /\ Kept(calls, calls)
  BY KeptSame DEF AInv
<1>3. CASE Show(calls, Blank("home"))
  <2>1. Shown /\ PhraseInv' /\ Kept(calls, calls')
    BY <1>1, <1>2, <1>3, NewScreen DEF Names
  <2> QED BY <1>1, <2>1, KeptStep
<1>4. CASE calls' = calls /\ screen' = screen /\ screen.name # "settings"
  <2>1. Shown
    BY <1>4 DEF Shown, AInv, Fits
  <2>2. PhraseInv'
    BY <1>1, <1>2, <1>4, PhraseStays
  <2> QED BY <1>1, <1>2, <1>4, <2>1, <2>2, KeptStep
<1> QED BY <1>1, <1>3, <1>4 DEF AutoLock, Stay, Protected

LEMMA ReloadStep == ASSUME AInv, Reload PROVE AInv'
<1>1. PICK exists \in BOOLEAN : provider' = NoWallet(exists)
  BY DEF Reload
<1>2. /\ provider' \in ProviderType /\ ProviderReady(provider') /\ provider'.locked
      /\ provider'.wallet = None
  BY <1>1, Providers
<1>3. /\ screen' \in ScreenType /\ Fits(screen', provider') /\ ~PhraseShown(screen')
  BY BlankFits DEF Reload, Names
<1>4. calls' \in [Caller -> MaybeCall] /\ Running' = {}
  BY DEF Reload, Running, MaybeCall
<1>5. CallsReady' /\ Recorded' /\ PhraseInv' /\ OpenInv' /\ ListInv'
  BY <1>2, <1>3, <1>4 DEF CallsReady, Recorded, PhraseInv, OpenInv, ListInv
<1> QED BY <1>2, <1>3, <1>4, <1>5 DEF AInv, Reload

---------------------------------------------------------------------------
(* Calls that end. *)

LEMMA CallOf ==
  ASSUME AInv, NEW c \in Caller, calls[c] # None
  PROVE  /\ c \in Running /\ calls[c] \in Call /\ Ready(calls[c])
         /\ calls[c].mounted => screen.name = ScreenOf(calls[c].op)
BY DEF AInv, CallsReady, Running, MaybeCall

LEMMA Returned ==
  ASSUME AInv, NEW c \in Caller, calls[c] # None
  PROVE  /\ Return(c) \in [Caller -> MaybeCall] /\ Kept(calls, Return(c)) /\ Return(c)[c] = None
         /\ \A d \in Caller \ {c} : Return(c)[d] = calls[d]
<1>1. calls \in [Caller -> MaybeCall]
  BY DEF AInv
<1> QED BY <1>1, KeptReturn DEF Return, Kept

(* The others go on: a call that is written for overlaps none on the stored *)
(* wallet, unless that is recorded.                                         *)
LEMMA Alone ==
  ASSUME AInv, NEW c \in Running, NEW d \in Running, c # d
  PROVE  /\ "storage" \notin overlaps /\ calls[c].op \in Writes => calls[d].op = "derive"
         /\ "accounts" \notin overlaps /\ calls[c].op = "derive" => calls[d].op = "backup"
<1>1. /\ Clash(calls[c].op, calls[d].op) \subseteq overlaps
      /\ calls[d].op \in Op
  BY CallFields DEF AInv, Recorded, Running, MaybeCall
<1> QED BY <1>1 DEF Clash, Op, Writes, Reads

(* A call that ends before it has opened anything changes its screen only. *)
LEMMA CallEnds ==
  ASSUME AInv, NEW c \in Caller, SaveFails(c) \/ UnlockFails(c) \/ DeleteFails(c) \/ ReadBackup(c)
  PROVE  AInv'
<1>1. /\ calls[c] # None /\ calls[c].at # "open" /\ calls' = Return(c)
      /\ UNCHANGED <<stored, provider, overlaps>>
  BY DEF SaveFails, UnlockFails, DeleteFails, ReadBackup, At
<1>2. c \in Running /\ Ready(calls[c]) /\ screen \in ScreenType /\ Fits(screen, provider)
      /\ (calls[c].mounted => screen.name = ScreenOf(calls[c].op))
  BY <1>1, CallOf DEF AInv
<1>3. Kept(calls, calls') /\ calls'[c] = None /\ \A d \in Caller \ {c} : calls'[d] = calls[d]
  BY <1>1, Returned
<1>4. Opening => Opening'
  BY <1>1, <1>3 DEF Opening, Running
<1>5. Alike(provider, provider') /\ provider' \in ProviderType
  BY <1>1 DEF Alike, AInv
<1>6. ASSUME screen' = screen PROVE AInv'
  <2>1. Shown /\ PhraseInv'
    BY <1>1, <1>2, <1>3, <1>6, PhraseStays DEF Shown
  <2> QED BY <1>1, <1>3, <1>4, <1>5, <2>1, QuietStep
<1>7. ASSUME screen' \in ScreenType, screen'.name = screen.name, screen'.phrase = screen.phrase,
             \/ screen'.step = screen.step /\ screen'.pin = screen.pin
             \/ screen'.step = "pin" /\ screen.name = "create"
             \/ screen'.step = "words" /\ screen.name = "import"
      PROVE  AInv'
  <2>1. Fits(screen', provider)
    BY <1>2, <1>7 DEF Fits, PhraseShown
  <2>2. PhraseInv'
    BY <1>1, <1>3, <1>7, PhraseStays DEF PhraseShown
  <2> QED BY <1>1, <1>3, <1>4, <1>5, <1>7, <2>1, <2>2, QuietStep DEF Shown
<1>8. CASE SaveFails(c)
  <2>1. calls[c].mounted => screen.name \in {"create", "import"}
    BY <1>2, <1>8 DEF SaveFails, At, ScreenOf
  <2>2. ASSUME calls[c].mounted PROVE AInv'
    <3>1. FirstStep(screen.name) = IF screen.name = "create" THEN "pin" ELSE "words"
      BY <2>1, <2>2 DEF FirstStep
    <3>2. screen' = [screen EXCEPT !.step = FirstStep(screen.name), !.pin = None, !.busy = FALSE]
      BY <1>8, <2>2 DEF SaveFails
    <3>3. [screen EXCEPT !.step = FirstStep(screen.name), !.pin = None, !.busy = FALSE]
            \in ScreenType
      BY <1>2, <2>1, <2>2, <3>1 DEF ScreenType, Step
    <3>4. screen' \in ScreenType /\ screen'.name = screen.name /\ screen'.phrase = screen.phrase
          /\ screen'.step = FirstStep(screen.name)
      BY <1>2, <3>2, <3>3 DEF ScreenType
    <3> QED BY <1>7, <2>1, <2>2, <3>1, <3>4
  <2> QED BY <1>6, <1>8, <2>2 DEF SaveFails
<1>9. CASE UnlockFails(c) \/ DeleteFails(c)
  <2>1. ASSUME calls[c].mounted PROVE AInv'
    <3>1. screen' = [screen EXCEPT !.busy = FALSE]
      BY <1>9, <2>1 DEF UnlockFails, DeleteFails, Idle
    <3>2. [screen EXCEPT !.busy = FALSE] \in ScreenType
      BY <1>2 DEF ScreenType
    <3> QED BY <1>2, <1>7, <3>1, <3>2 DEF ScreenType
  <2> QED BY <1>6, <1>9, <2>1 DEF UnlockFails, DeleteFails, Idle
<1>10. CASE ReadBackup(c)
  <2>1. ASSUME Opens(calls[c].pin), InSettings("backup"), calls[c].mounted,
               screen' = [screen EXCEPT !.step = "phrase", !.phrase = stored.phrase]
        PROVE  AInv'
    <3>1. stored # None /\ stored \in Wallet /\ stored.phrase \in Phrase
      BY <2>1 DEF Opens, AInv, Wallet
    <3>2. [screen EXCEPT !.step = "phrase", !.phrase = stored.phrase] \in ScreenType
      BY <1>2, <3>1 DEF ScreenType, Step
    <3>3. screen' \in ScreenType /\ screen'.name = screen.name /\ screen.name = "settings"
          /\ screen'.step = "phrase" /\ screen'.phrase = stored.phrase
      BY <1>2, <2>1, <3>2 DEF ScreenType, InSettings
    <3>4. Shown
      BY <1>1, <1>2, <3>3 DEF Shown, Fits, PhraseShown
    <3>5. ASSUME "storage" \notin overlaps, NEW d \in Running' PROVE calls'[d].op \notin Writes
      <4>1. d \in Running /\ d # c /\ calls'[d] = calls[d]
        BY <1>3 DEF Running
      <4>2. calls[c].op = "backup"
        BY <1>10 DEF ReadBackup, At
      <4> QED BY <1>2, <3>5, <4>1, <4>2, Alone
    <3>6. PhraseInv'
      BY <1>1, <3>1, <3>3, <3>5 DEF PhraseInv
    <3> QED BY <1>1, <1>3, <1>4, <1>5, <3>4, <3>6, QuietStep
  <2> QED BY <1>6, <1>10, <2>1 DEF ReadBackup
<1> QED BY <1>8, <1>9, <1>10

---------------------------------------------------------------------------
(* Calls that change the provider. *)

(* No account is being derived when another call than a backup ends, unless *)
(* that is recorded.                                                        *)
LEMMA NoneDerives ==
  ASSUME AInv, NEW c \in Running, calls[c].op # "backup", "accounts" \notin overlaps,
         Kept(calls, calls'), calls'[c] = None, NEW p
  PROVE  \A d \in Running' : IsNext(calls'[d], p)
<1> SUFFICES ASSUME NEW d \in Running' PROVE calls'[d].op # "derive"
  BY DEF IsNext
<1>1. d \in Running /\ d # c /\ calls'[d].op = calls[d].op
  BY DEF Running, Kept
<1>2. calls[d].op = "derive" => calls[c].op = "backup"
  BY <1>1, Alone
<1> QED BY <1>1, <1>2

LEMMA FinishStep ==
  ASSUME AInv, NEW c \in Caller, calls[c] # None, calls[c].at = "open", calls[c].op # "backup",
         Kept(calls, calls'), calls'[c] = None, UNCHANGED <<stored, overlaps>>, Shown, PhraseInv',
         provider' \in ProviderType, ProviderReady(provider'),
         \/ provider'.wallet = None
         \/ InOrder(provider') /\ provider'.wallet = calls[c].phrase /\ calls[c].op # "delete"
  PROVE  AInv'
<1>1. c \in Running
  BY DEF Running
<1>2. "storage" \notin overlaps /\ provider'.wallet # None /\ ~Opening'
        => stored # None /\ stored.phrase = provider'.wallet
  BY <1>1 DEF AInv, OpenInv
<1>3. ASSUME "accounts" \notin overlaps, ~provider'.locked
      PROVE  InOrder(provider') /\ \A d \in Running' : IsNext(calls'[d], provider')
  BY <1>1, <1>3, NoneDerives DEF ProviderReady
<1> QED BY <1>2, <1>3, KeptStep

LEMMA FinishCreateStep == ASSUME AInv, NEW c \in Caller, FinishCreate(c) PROVE AInv'
<1>1. /\ calls[c] # None /\ calls[c].at = "open" /\ calls[c].op = "create"
      /\ provider' = Created(calls[c].phrase) /\ UNCHANGED <<stored, overlaps>>
  BY DEF FinishCreate, At
<1>2. /\ c \in Running /\ calls[c].phrase \in Phrase
      /\ screen \in ScreenType /\ Fits(screen, provider)
      /\ (calls[c].mounted => screen.name = "create")
  BY <1>1, CallOf, CallFields DEF AInv, Ready, ScreenOf
<1>3. /\ provider' \in ProviderType /\ ProviderReady(provider') /\ Protected(provider')
      /\ InOrder(provider') /\ provider'.wallet = calls[c].phrase
  BY <1>1, <1>2, Providers
<1>4. /\ calls' = Return(c)
      /\ screen' = IF calls[c].mounted
                   THEN [screen EXCEPT !.step = "phrase", !.busy = FALSE,
                                       !.phrase = calls[c].phrase]
                   ELSE screen
  BY <1>3 DEF FinishCreate, Stay
<1>5. Kept(calls, calls') /\ calls'[c] = None /\ \A d \in Caller \ {c} : calls'[d] = calls[d]
  BY <1>1, <1>4, Returned
<1>6. CASE ~calls[c].mounted
  <2>1. Shown /\ PhraseInv'
    BY <1>1, <1>2, <1>3, <1>4, <1>5, <1>6, PhraseStays DEF Shown, Fits
  <2> QED BY <1>1, <1>3, <1>5, <2>1, FinishStep
<1>7. CASE calls[c].mounted
  <2>1. [screen EXCEPT !.step = "phrase", !.busy = FALSE, !.phrase = calls[c].phrase] \in ScreenType
    BY <1>2 DEF ScreenType, Step
  <2>2. /\ screen' \in ScreenType /\ screen'.name = screen.name /\ screen.name = "create"
        /\ screen'.step = "phrase" /\ screen'.phrase = calls[c].phrase
    BY <1>2, <1>4, <1>7, <2>1 DEF ScreenType
  <2>3. Shown
    BY <2>2 DEF Shown, Fits, PhraseShown
  <2>4. ASSUME "storage" \notin overlaps, NEW d \in Running' PROVE calls'[d].op \notin Writes
    <3>1. d \in Running /\ d # c /\ calls'[d] = calls[d]
      BY <1>5 DEF Running
    <3>2. calls[d].op = "derive"
      BY <1>1, <1>2, <2>4, <3>1, Alone DEF Writes
    <3> QED BY <3>1, <3>2 DEF Writes
  <2>5. "storage" \notin overlaps => stored # None /\ stored.phrase = calls[c].phrase
    BY <1>1, <1>2 DEF AInv, OpenInv
  <2>6. PhraseInv'
    BY <1>1, <2>2, <2>4, <2>5 DEF PhraseInv
  <2> QED BY <1>1, <1>3, <1>5, <2>3, <2>6, FinishStep
<1> QED BY <1>6, <1>7

LEMMA Finishes ==
  ASSUME AInv, NEW c \in Caller, FinishImport(c) \/ FinishUnlock(c) \/ FinishDelete(c)
  PROVE  AInv'
<1>1. /\ calls[c] # None /\ calls[c].at = "open" /\ calls[c].op \in {"import", "unlock", "delete"}
      /\ Show(Return(c), Blank("home")) /\ UNCHANGED <<stored, overlaps>>
  BY DEF FinishImport, FinishUnlock, FinishDelete, At
<1>2. c \in Running /\ (calls[c].op # "delete" => calls[c].phrase \in Phrase)
  BY <1>1, CallOf, CallFields DEF Ready
<1>3. Return(c) \in [Caller -> MaybeCall] /\ Kept(calls, Return(c)) /\ Return(c)[c] = None
  BY <1>1, Returned
<1>4. Shown /\ PhraseInv' /\ Kept(calls, calls') /\ calls'[c] = None
  BY <1>1, <1>3, NewScreen DEF Names
<1>5. CASE FinishImport(c)
  <2>1. provider' = Created(calls[c].phrase) /\ calls[c].op = "import"
    BY <1>5 DEF FinishImport, At
  <2>2. /\ provider' \in ProviderType /\ ProviderReady(provider') /\ InOrder(provider')
        /\ provider'.wallet = calls[c].phrase
    BY <1>2, <2>1, Providers
  <2> QED BY <1>1, <1>4, <2>1, <2>2, FinishStep
<1>6. CASE FinishUnlock(c)
  <2>1. calls[c].op = "unlock" /\ calls[c].phrase \in Phrase
    BY <1>2, <1>6 DEF FinishUnlock, At
  <2>2. [provider EXCEPT !.locked = FALSE, !.wallet = calls[c].phrase,
                         !.accounts = GetAccounts(calls[c].phrase)] \in ProviderType
    BY <2>1, OneAccount DEF AInv, ProviderType
  <2>3. /\ provider' \in ProviderType /\ ~provider'.locked /\ provider'.wallet = calls[c].phrase
        /\ provider'.accounts = GetAccounts(calls[c].phrase)
    BY <1>6, <2>2 DEF FinishUnlock, AInv, ProviderType
  <2>4. \A i \in 1 .. Len(provider'.accounts) :
          i = 1 /\ provider'.accounts[i] = [phrase |-> calls[c].phrase, index |-> 0]
    <3>1. /\ Len(provider'.accounts) = 1
          /\ provider'.accounts[1] = [phrase |-> calls[c].phrase, index |-> 0]
      BY <2>1, <2>3, OneAccount
    <3>2. 1 .. 1 = {1}
      OBVIOUS
    <3> QED BY <3>1, <3>2
  <2>5. ProviderReady(provider') /\ InOrder(provider')
    <3>1. \A i \in 1 .. Len(provider'.accounts) :
            /\ provider'.accounts[i].index < MaxAccounts
            /\ provider'.accounts[i] = [phrase |-> provider'.wallet, index |-> i - 1]
      BY <2>3, <2>4
    <3>2. provider'.wallet # None
      BY <2>1, <2>3
    <3> QED BY <2>3, <3>1, <3>2 DEF ProviderReady, InOrder
  <2> QED BY <1>1, <1>4, <2>1, <2>3, <2>5, FinishStep
<1>7. CASE FinishDelete(c)
  <2>1. provider' \in ProviderType /\ ProviderReady(provider') /\ provider'.wallet = None
    BY <1>7, Providers DEF FinishDelete, AfterDelete
  <2> QED BY <1>1, <1>4, <2>1, FinishStep
<1> QED BY <1>5, <1>6, <1>7

LEMMA AppendAccount ==
  ASSUME NEW s \in Seq(Account), NEW a \in Account
  PROVE  /\ Append(s, a) \in Seq(Account) /\ Len(Append(s, a)) = Len(s) + 1
         /\ \A i \in 1 .. Len(s) + 1 :
              Append(s, a)[i] = IF i <= Len(s) THEN s[i] ELSE a
OBVIOUS

LEMMA FinishDeriveStep == ASSUME AInv, NEW c \in Caller, FinishDerive(c) PROVE AInv'
<1> DEFINE a == [phrase |-> calls[c].phrase, index |-> calls[c].index]
           s == provider.accounts
<1>1. /\ calls[c] # None /\ calls[c].at = "derive" /\ calls[c].op = "derive"
      /\ calls' = Return(c) /\ UNCHANGED <<stored, overlaps>>
  BY DEF FinishDerive, At
<1>2. /\ c \in Running /\ calls[c].phrase \in Phrase /\ calls[c].index < MaxAccounts
      /\ calls[c].index \in 0 .. MaxAccounts
      /\ screen \in ScreenType /\ Fits(screen, provider)
      /\ (calls[c].mounted => screen.name = "settings")
  BY <1>1, CallOf, CallFields DEF AInv, Ready, ScreenOf
<1>3. Kept(calls, calls') /\ calls'[c] = None /\ \A d \in Caller \ {c} : calls'[d] = calls[d]
  BY <1>1, Returned
<1>4. a \in Account /\ s \in Seq(Account) /\ a.index = calls[c].index
  BY <1>2 DEF Account, AInv, ProviderType
<1>5. /\ Append(s, a) \in Seq(Account) /\ Len(Append(s, a)) = Len(s) + 1
      /\ \A i \in 1 .. Len(s) + 1 : Append(s, a)[i] = IF i <= Len(s) THEN s[i] ELSE a
  BY <1>4, AppendAccount
<1>6. /\ provider' \in ProviderType /\ provider'.initialized = provider.initialized
      /\ provider'.locked = provider.locked /\ provider'.wallet = provider.wallet
      /\ provider'.accounts = Append(s, a)
  <2>1. [provider EXCEPT !.accounts = Append(s, a)] \in ProviderType
    BY <1>5 DEF AInv, ProviderType
  <2>2. provider' = [provider EXCEPT !.accounts = Append(s, a)]
    BY DEF FinishDerive
  <2> QED BY <2>1, <2>2 DEF AInv, ProviderType
<1>7. Len(s) \in Nat
  BY <1>4
<1> HIDE DEF a, s
<1>8. ProviderReady(provider')
  <2>1. \A i \in 1 .. Len(s) : s[i].index < MaxAccounts
    BY DEF AInv, ProviderReady, s
  <2>2. \A i \in 1 .. Len(s) + 1 : Append(s, a)[i].index < MaxAccounts
    BY <1>2, <1>4, <1>5, <1>7, <2>1
  <2> QED BY <1>5, <1>6, <2>2 DEF AInv, ProviderReady
<1>9. ASSUME "accounts" \notin overlaps, ~provider'.locked
      PROVE  InOrder(provider') /\ \A d \in Running' : IsNext(calls'[d], provider')
  <2>1. /\ \A i \in 1 .. Len(s) : s[i] = [phrase |-> provider.wallet, index |-> i - 1]
        /\ a = [phrase |-> provider.wallet, index |-> Len(s)]
    BY <1>1, <1>2, <1>6, <1>9 DEF AInv, ListInv, InOrder, IsNext, a, s
  <2>2. \A i \in 1 .. Len(s) + 1 : Append(s, a)[i] = [phrase |-> provider.wallet, index |-> i - 1]
    BY <1>5, <1>7, <2>1
  <2>3. InOrder(provider')
    BY <1>5, <1>6, <2>2 DEF InOrder
  <2>4. \A d \in Running' : IsNext(calls'[d], provider')
    BY <1>1, <1>2, <1>3, <1>9, NoneDerives
  <2> QED BY <2>3, <2>4
<1>10. "storage" \notin overlaps /\ provider'.wallet # None /\ ~Opening'
         => stored # None /\ stored.phrase = provider'.wallet
  <2>1. Opening => Opening'
    BY <1>1, <1>3 DEF Opening, Running
  <2> QED BY <1>6, <2>1 DEF AInv, OpenInv
<1>11. CASE screen' = screen
  <2>1. Shown
    BY <1>2, <1>6, <1>11 DEF Shown, Fits, Protected
  <2>2. PhraseInv'
    BY <1>1, <1>3, <1>11, PhraseStays
  <2> QED BY <1>1, <1>3, <1>6, <1>8, <1>9, <1>10, <2>1, <2>2, KeptStep
<1>12. CASE calls[c].mounted /\ screen' = [screen EXCEPT !.step = "none", !.phrase = None]
  <2>1. [screen EXCEPT !.step = "none", !.phrase = None] \in ScreenType
    BY <1>2 DEF ScreenType, Step
  <2>2. screen' \in ScreenType /\ screen'.name = screen.name /\ screen.name = "settings"
        /\ screen'.step = "none"
    BY <1>2, <1>12, <2>1 DEF ScreenType
  <2>3. Shown /\ PhraseInv'
    BY <1>2, <1>6, <2>2 DEF Shown, Fits, Protected, PhraseShown, PhraseInv
  <2> QED BY <1>1, <1>3, <1>6, <1>8, <1>9, <1>10, <2>3, KeptStep
<1> QED BY <1>11, <1>12 DEF FinishDerive

---------------------------------------------------------------------------
(* Calls that read or write what is stored. *)

LEMMA AdvanceStep ==
  ASSUME AInv, NEW c \in Running, NEW e \in Call, calls' = [calls EXCEPT ![c] = e],
         e.op = calls[c].op, e.op # "derive", e.mounted = calls[c].mounted, e.at = "open",
         Ready(e), UNCHANGED <<provider, screen, overlaps>>, stored' \in Wallet \cup {None},
         stored' = stored \/ e.op \in Writes,
         e.op # "delete" => stored' # None /\ stored'.phrase = e.phrase
  PROVE  AInv'
<1>1. c \in Caller /\ calls \in [Caller -> MaybeCall] /\ calls[c] # None
  BY DEF Running, AInv
<1>2. /\ calls' \in [Caller -> MaybeCall] /\ calls'[c] = e
      /\ \A d \in Caller \ {c} : calls'[d] = calls[d]
  BY <1>1 DEF MaybeCall
<1>3. Running' = Running
  BY <1>1, <1>2, CallFields DEF Running
<1>4. \A d \in Running : d \in Caller /\ calls'[d].op = calls[d].op
                         /\ calls'[d].mounted = calls[d].mounted
                         /\ (d # c => calls'[d] = calls[d])
  BY <1>2 DEF Running
<1>5. CallsReady'
  BY <1>2, <1>3, <1>4 DEF AInv, CallsReady
<1>6. Recorded'
  BY <1>3, <1>4 DEF AInv, Recorded
<1>7. PhraseInv'
  <2>1. ASSUME "storage" \notin overlaps, PhraseShown(screen)
        PROVE  stored' = stored /\ \A d \in Running : calls'[d].op \notin Writes
    BY <1>4, <2>1 DEF AInv, PhraseInv
  <2> QED BY <1>3, <2>1 DEF AInv, PhraseInv
<1>8. OpenInv'
  <2>1. Opening'
    BY <1>2, <1>3 DEF Opening
  <2>2. ASSUME "storage" \notin overlaps, NEW d \in Running, calls'[d].at = "open",
               calls'[d].op # "delete"
        PROVE  stored' # None /\ stored'.phrase = calls'[d].phrase
    <3>1. CASE d = c
      BY <1>2, <2>2, <3>1
    <3>2. CASE d # c
      <4>1. Ready(calls[d]) /\ calls[d].at = "open" /\ calls[d].op # "delete"
        BY <1>4, <2>2, <3>2 DEF AInv, CallsReady
      <4>2. calls[d].op # "derive"
        BY <4>1 DEF Ready
      <4>3. e.op \notin Writes
        BY <2>2, <3>2, <4>2, Alone
      <4> QED BY <1>4, <2>2, <3>2, <4>1, <4>3 DEF AInv, OpenInv
    <3> QED BY <3>1, <3>2
  <2> QED BY <1>3, <2>1, <2>2 DEF OpenInv
<1>9. ListInv'
  <2>1. ASSUME "accounts" \notin overlaps, ~provider.locked, NEW d \in Running
        PROVE  IsNext(calls'[d], provider)
    <3>1. CASE d = c
      BY <1>2, <3>1 DEF IsNext
    <3>2. CASE d # c
      BY <1>4, <2>1, <3>2 DEF AInv, ListInv
    <3> QED BY <3>1, <3>2
  <2> QED BY <1>3, <2>1 DEF AInv, ListInv
<1> QED BY <1>2, <1>5, <1>6, <1>7, <1>8, <1>9 DEF AInv

LEMMA StorageSteps ==
  ASSUME AInv, NEW c \in Caller, SaveWallet(c) \/ DeleteWallet(c) \/ ReadWallet(c)
  PROVE  AInv'
<1>0. calls \in [Caller -> MaybeCall] /\ calls[c] # None
      /\ UNCHANGED <<provider, screen, overlaps>>
  BY DEF AInv, SaveWallet, DeleteWallet, ReadWallet, At
<1>1. c \in Running /\ calls[c] \in Call /\ Ready(calls[c])
  BY <1>0, CallOf
<1>2. CASE SaveWallet(c) \/ DeleteWallet(c)
  <2> DEFINE e == [calls[c] EXCEPT !.at = "open"]
  <2>1. /\ e \in Call /\ e.op = calls[c].op /\ e.at = "open" /\ e.phrase = calls[c].phrase
        /\ e.mounted = calls[c].mounted /\ e.pin = calls[c].pin
    BY <1>1 DEF Call
  <2>2. calls' = [calls EXCEPT ![c] = e]
    BY <1>0, <1>2 DEF SaveWallet, DeleteWallet
  <2> HIDE DEF e
  <2>3. CASE SaveWallet(c)
    <3>1. calls[c].op \in {"create", "import"}
      BY <2>3 DEF SaveWallet, At
    <3>2. Ready(e) /\ calls[c].phrase \in Phrase /\ calls[c].pin \in Pin
      BY <1>1, <2>1, <3>1, CallFields DEF Ready
    <3>3. stored' \in Wallet /\ stored' # None /\ stored'.phrase = e.phrase
      BY <2>1, <2>3, <3>2 DEF SaveWallet, Wallet
    <3> QED BY <1>0, <1>1, <2>1, <2>2, <3>1, <3>2, <3>3, AdvanceStep DEF Writes
  <2>4. CASE DeleteWallet(c)
    <3>1. calls[c].op = "delete" /\ stored' = None
      BY <2>4 DEF DeleteWallet, At
    <3>2. Ready(e)
      BY <2>1, <3>1 DEF Ready
    <3> QED BY <1>0, <1>1, <2>1, <2>2, <3>1, <3>2, AdvanceStep DEF Writes
  <2> QED BY <1>2, <2>3, <2>4
<1>3. CASE ReadWallet(c)
  <2> DEFINE e == [calls[c] EXCEPT !.at = "open", !.phrase = stored.phrase]
  <2>1. calls[c].op = "unlock" /\ stored # None /\ stored \in Wallet /\ stored' = stored
    BY <1>3 DEF ReadWallet, At, Opens, AInv
  <2>2. stored.phrase \in Phrase
    BY <2>1 DEF Wallet
  <2>3. /\ e \in Call /\ e.op = calls[c].op /\ e.at = "open" /\ e.phrase = stored.phrase
        /\ e.mounted = calls[c].mounted
    BY <1>1, <2>2 DEF Call
  <2>4. calls' = [calls EXCEPT ![c] = e]
    BY <1>0, <1>3 DEF ReadWallet
  <2> HIDE DEF e
  <2>5. Ready(e)
    BY <2>1, <2>2, <2>3 DEF Ready
  <2>6. stored' \in Wallet \cup {None}
    BY <2>1
  <2> QED BY <1>0, <1>1, <2>1, <2>3, <2>4, <2>5, <2>6, AdvanceStep
<1> QED BY <1>2, <1>3

---------------------------------------------------------------------------
(* Calls that begin. *)

LEMMA ClashSymmetric ==
  ASSUME NEW a, NEW b
  PROVE  Clash(a, b) = Clash(b, a) /\ Clash(a, b) \subseteq {"storage", "accounts"}
<1>1. {a, b} = {b, a}
  OBVIOUS
<1> QED BY <1>1 DEF Clash

LEMMA BeginStep ==
  ASSUME AInv, NEW c \in Caller, NEW op, NEW at, NEW phrase, NEW pin, NEW index,
         Begin(c, op, at, phrase, pin, index), UNCHANGED <<stored, provider>>,
         [op |-> op, at |-> at, phrase |-> phrase, pin |-> pin, index |-> index,
          mounted |-> TRUE] \in Call,
         Ready([op |-> op, at |-> at, phrase |-> phrase, pin |-> pin, index |-> index,
                mounted |-> TRUE]),
         at # "open", ScreenOf(op) = screen.name,
         screen' \in {screen, [screen EXCEPT !.busy = TRUE]},
         op \in Writes => ~PhraseShown(screen),
         op = "derive" => phrase = provider.wallet /\ index = Len(provider.accounts)
  PROVE  AInv'
<1> DEFINE e == [op |-> op, at |-> at, phrase |-> phrase, pin |-> pin, index |-> index,
                 mounted |-> TRUE]
<1>1. /\ calls[c] = None /\ calls' = [calls EXCEPT ![c] = e]
      /\ overlaps' = overlaps \cup Overlapping(op)
  BY DEF Begin
<1>2. /\ e \in Call /\ Ready(e) /\ e # None /\ e.op = op /\ e.at = at /\ e.phrase = phrase
      /\ e.index = index
  BY CallFields
<1> HIDE DEF e
<1>3. /\ calls' \in [Caller -> MaybeCall] /\ calls'[c] = e
      /\ \A d \in Caller \ {c} : calls'[d] = calls[d]
  BY <1>1, <1>2 DEF AInv, MaybeCall
<1>4. Running' = Running \cup {c} /\ c \notin Running
  BY <1>1, <1>2, <1>3 DEF Running
<1>5. \A d \in Running : d \in Caller \ {c} /\ calls'[d] = calls[d]
  BY <1>3, <1>4 DEF Running
<1>6. /\ screen' \in ScreenType /\ screen'.name = screen.name /\ screen'.step = screen.step
      /\ screen'.phrase = screen.phrase /\ screen'.pin = screen.pin
  <2>1. [screen EXCEPT !.busy = TRUE] \in ScreenType
    BY DEF AInv, ScreenType
  <2> QED BY <2>1 DEF AInv, ScreenType
<1>7. overlaps \subseteq overlaps' /\ overlaps' \subseteq {"storage", "accounts"}
      /\ \A d \in Running : Clash(op, calls[d].op) \subseteq overlaps'
  BY <1>1, ClashSymmetric DEF Overlapping, AInv
<1>8. Fits(screen', provider)
  BY <1>6 DEF AInv, Fits, PhraseShown
<1>9. CallsReady'
  BY <1>2, <1>3, <1>4, <1>5, <1>6 DEF AInv, CallsReady
<1>10. Recorded'
  <2> SUFFICES ASSUME NEW a \in Running', NEW b \in Running', a # b
               PROVE  Clash(calls'[a].op, calls'[b].op) \subseteq overlaps'
    BY DEF Recorded
  <2>1. CASE a = c
    BY <1>2, <1>3, <1>4, <1>5, <1>7, <2>1
  <2>2. CASE b = c
    <3>1. Clash(op, calls[a].op) \subseteq overlaps'
      BY <1>4, <1>7, <2>2
    <3>2. Clash(calls[a].op, op) = Clash(op, calls[a].op)
      BY ClashSymmetric
    <3> QED BY <1>2, <1>3, <1>4, <1>5, <2>2, <3>1, <3>2
  <2>3. CASE a # c /\ b # c
    <3>1. a \in Running /\ b \in Running /\ calls'[a] = calls[a] /\ calls'[b] = calls[b]
      BY <1>4, <1>5, <2>3
    <3> QED BY <1>7, <3>1 DEF AInv, Recorded
  <2> QED BY <2>1, <2>2, <2>3
<1>11. PhraseInv'
  <2> SUFFICES ASSUME "storage" \notin overlaps', PhraseShown(screen')
               PROVE  /\ stored' # None /\ stored'.phrase = screen'.phrase
                      /\ \A d \in Running' : calls'[d].op \notin Writes
    BY DEF PhraseInv
  <2>1. PhraseShown(screen) /\ "storage" \notin overlaps
    BY <1>6, <1>7 DEF PhraseShown
  <2> QED BY <1>2, <1>3, <1>4, <1>5, <1>6, <2>1 DEF AInv, PhraseInv
<1>12. OpenInv'
  <2>1. Opening => Opening'
    BY <1>4, <1>5 DEF Opening
  <2> QED BY <1>2, <1>3, <1>4, <1>5, <1>7, <2>1 DEF AInv, OpenInv
<1>13. ListInv'
  <2> SUFFICES ASSUME "accounts" \notin overlaps', ~provider.locked
               PROVE  InOrder(provider) /\ \A d \in Running' : IsNext(calls'[d], provider)
    BY DEF ListInv
  <2>1. InOrder(provider) /\ \A d \in Running : IsNext(calls'[d], provider)
    BY <1>5, <1>7 DEF AInv, ListInv
  <2>2. IsNext(calls'[c], provider)
    BY <1>2, <1>3 DEF IsNext
  <2> QED BY <1>4, <2>1, <2>2
<1> QED BY <1>3, <1>6, <1>7, <1>8, <1>9, <1>10, <1>11, <1>12, <1>13 DEF AInv

LEMMA Begins ==
  ASSUME AInv, NEW c \in Caller,
         \/ HandleCreateWallet(c) \/ HandleImportWallet(c)
         \/ HandleDeleteWallet(c) \/ HandleAddAccount(c)
         \/ \E pin \in Pin : BeginUnlock(c, pin) \/ BeginBackup(c, pin)
  PROVE  AInv'
<1>0. screen \in ScreenType /\ Fits(screen, provider) /\ 0 \in 0 .. MaxAccounts
  BY DEF AInv
<1> USE DEF Creating, Importing, InSettings, ScreenOf, PhraseShown, Writes, Reads, Op
<1>1. CASE HandleCreateWallet(c)
  <2>1. PICK phrase \in Phrase : Begin(c, "create", "save", phrase, screen.pin, 0)
    BY <1>1 DEF HandleCreateWallet, NewPhrases
  <2>2. /\ screen.name = "create" /\ screen.step = "confirm" /\ screen.pin \in Pin
        /\ UNCHANGED <<stored, provider>> /\ screen' = [screen EXCEPT !.busy = TRUE]
    BY <1>0, <1>1 DEF HandleCreateWallet, Fits, ScreenType
  <2>3. LET e == [op |-> "create", at |-> "save", phrase |-> phrase, pin |-> screen.pin,
                  index |-> 0, mounted |-> TRUE]
        IN  e \in Call /\ Ready(e)
    BY <1>0, <2>2 DEF Call, Ready
  <2> QED BY <2>1, <2>2, <2>3, BeginStep
<1>2. CASE HandleImportWallet(c)
  <2>1. /\ screen.name = "import" /\ screen.step = "confirm" /\ screen.pin \in Pin
        /\ screen.phrase \in Phrase /\ Begin(c, "import", "save", screen.phrase, screen.pin, 0)
        /\ UNCHANGED <<stored, provider>> /\ screen' = [screen EXCEPT !.busy = TRUE]
    BY <1>0, <1>2 DEF HandleImportWallet, Fits, ScreenType
  <2>2. LET e == [op |-> "import", at |-> "save", phrase |-> screen.phrase, pin |-> screen.pin,
                  index |-> 0, mounted |-> TRUE]
        IN  e \in Call /\ Ready(e)
    BY <1>0, <2>1 DEF Call, Ready
  <2> QED BY <2>1, <2>2, BeginStep
<1>3. CASE HandleDeleteWallet(c)
  <2>1. /\ screen.name = "settings" /\ screen.step = "delete"
        /\ Begin(c, "delete", "save", None, None, 0)
        /\ UNCHANGED <<stored, provider>> /\ screen' = [screen EXCEPT !.busy = TRUE]
    BY <1>3 DEF HandleDeleteWallet
  <2>2. LET e == [op |-> "delete", at |-> "save", phrase |-> None, pin |-> None,
                  index |-> 0, mounted |-> TRUE]
        IN  e \in Call /\ Ready(e)
    BY <1>0 DEF Call, Ready
  <2> QED BY <2>1, <2>2, BeginStep
<1>4. CASE HandleAddAccount(c)
  <2>1. /\ screen.name = "settings" /\ screen.step = "accounts" /\ NextIndex < MaxAccounts
        /\ Begin(c, "derive", "derive", provider.wallet, None, NextIndex)
        /\ UNCHANGED <<stored, provider, screen>>
    BY <1>4 DEF HandleAddAccount
  <2>2. provider.wallet \in Phrase /\ NextIndex \in Nat /\ NextIndex = Len(provider.accounts)
    BY <1>0, <2>1 DEF Fits, Protected, AInv, ProviderReady, ProviderType, NextIndex
  <2>3. NextIndex \in 0 .. MaxAccounts
    BY <2>1, <2>2
  <2>4. LET e == [op |-> "derive", at |-> "derive", phrase |-> provider.wallet, pin |-> None,
                  index |-> NextIndex, mounted |-> TRUE]
        IN  e \in Call /\ Ready(e)
    BY <2>1, <2>2, <2>3 DEF Call, Ready
  <2> QED BY <2>1, <2>2, <2>4, BeginStep
<1>5. CASE \E pin \in Pin : BeginUnlock(c, pin)
  <2>1. PICK pin \in Pin : BeginUnlock(c, pin)
    BY <1>5
  <2>2. /\ screen.name = "unlock" /\ Begin(c, "unlock", "read", None, pin, 0)
        /\ UNCHANGED <<stored, provider>> /\ screen' = [screen EXCEPT !.busy = TRUE]
    BY <2>1 DEF BeginUnlock, AsksForPin
  <2>3. LET e == [op |-> "unlock", at |-> "read", phrase |-> None, pin |-> pin,
                  index |-> 0, mounted |-> TRUE]
        IN  e \in Call /\ Ready(e)
    BY <1>0 DEF Call, Ready
  <2> QED BY <2>2, <2>3, BeginStep
<1>6. CASE \E pin \in Pin : BeginBackup(c, pin)
  <2>1. PICK pin \in Pin : BeginBackup(c, pin)
    BY <1>6
  <2>2. /\ screen.name = "settings" /\ Begin(c, "backup", "read", None, pin, 0)
        /\ UNCHANGED <<stored, provider, screen>>
    BY <2>1 DEF BeginBackup
  <2>3. LET e == [op |-> "backup", at |-> "read", phrase |-> None, pin |-> pin,
                  index |-> 0, mounted |-> TRUE]
        IN  e \in Call /\ Ready(e)
    BY <1>0 DEF Call, Ready
  <2> QED BY <2>2, <2>3, BeginStep
<1> QED BY <1>1, <1>2, <1>3, <1>4, <1>5, <1>6

---------------------------------------------------------------------------
LEMMA InitInv == Init => AInv
<1> SUFFICES ASSUME Init PROVE AInv
  OBVIOUS
<1>1. /\ provider \in ProviderType /\ ProviderReady(provider) /\ provider.locked
      /\ provider.wallet = None
  BY Providers DEF Init
<1>2. screen \in ScreenType /\ Fits(screen, provider) /\ ~PhraseShown(screen)
  BY BlankFits DEF Init, Names
<1>3. calls \in [Caller -> MaybeCall] /\ Running = {}
  BY DEF Init, MaybeCall, Running
<1>4. CallsReady /\ Recorded /\ PhraseInv /\ OpenInv /\ ListInv
  BY <1>1, <1>2, <1>3 DEF CallsReady, Recorded, PhraseInv, OpenInv, ListInv
<1> QED BY <1>1, <1>2, <1>3, <1>4 DEF AInv, Init

LEMMA InvStep == AInv /\ [Next]_vars => AInv'
<1> SUFFICES ASSUME AInv, [Next]_vars PROVE AInv'
  OBVIOUS
<1>1. CASE UNCHANGED vars
  BY <1>1, TurnStep DEF vars, AInv
<1>2. CASE \E name \in Names : Visit(name)
  BY <1>2, Leaving
<1>3. CASE HandleVerify \/ HandleLock \/ SwitchAccount
  BY <1>3, Leaving
<1>4. CASE AutoLock \/ Reload
  BY <1>4, AutoLockStep, ReloadStep
<1>5. CASE \/ \E phrase \in Phrase : EnterWords(phrase)
           \/ \E pin \in Pin : EnterPin(pin)
           \/ BackToWords \/ RejectPin \/ HandleContinueToVerify
           \/ \E step \in {"backup", "delete", "accounts"} : OpenModal(step)
           \/ CloseModal
  BY <1>5, Turns
<1>6. ASSUME NEW c \in Caller, CallStep(c) PROVE AInv'
  BY <1>6, CallEnds, StorageSteps, FinishCreateStep, Finishes, FinishDeriveStep DEF CallStep
<1>7. ASSUME NEW c \in Caller,
             \/ HandleCreateWallet(c) \/ HandleImportWallet(c)
             \/ HandleDeleteWallet(c) \/ HandleAddAccount(c)
             \/ \E pin \in Pin : BeginUnlock(c, pin) \/ BeginBackup(c, pin)
      PROVE  AInv'
  BY <1>7, Begins
<1> QED BY <1>1, <1>2, <1>3, <1>4, <1>5, <1>6, <1>7 DEF Next, Names

THEOREM Invariant == Spec => []AInv
BY InitInv, InvStep, PTL DEF Spec

(* TypeCorrect: every variable of the wallet's accounts keeps its type,    *)
(* and the selected account is one the wallet could derive.                *)
THEOREM TypeCorrect == Spec => []ATypeOK
<1>1. AInv => ATypeOK
  BY DEF AInv, ATypeOK, ProviderType, ScreenType, Names, MaybeCall
<1> QED BY <1>1, Invariant, PTL

(* KeysInReach: the open wallet and the phrase on the screen are those of  *)
(* the stored wallet, for any number of calls under way, unless two calls  *)
(* on the stored wallet overlapped (CreateWallet.tsx:50,                   *)
(* Settings.tsx:105).                                                      *)
THEOREM KeysInReach == Spec => []KeysAreStored
<1>1. AInv => KeysAreStored
  BY DEF AInv, PhraseInv, OpenInv, KeysAreStored, Shows, PhraseShown
<1> QED BY <1>1, Invariant, PTL

(* AccountsStayInOrder: a derivation index is a position in the list, and  *)
(* all accounts are those of the open wallet, unless a derivation          *)
(* overlapped (useWallet.tsx:391, Settings.tsx:353).                       *)
THEOREM AccountsStayInOrder == Spec => []AccountsInOrder
<1>1. AInv => AccountsInOrder
  BY DEF AInv, ListInv, InOrder, AccountsInOrder
<1> QED BY <1>1, Invariant, PTL
=============================================================================
