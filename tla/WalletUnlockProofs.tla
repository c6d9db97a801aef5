------------------------- MODULE WalletUnlockProofs -------------------------
(***************************************************************************)
(* Proofs about WalletSession for any number of calls under way, any PINs, *)
(* and any limits of attempts and time, and about TwoFactor for any number *)
(* of verifications under way, of setups and of backup codes.              *)
(***************************************************************************)
EXTENDS WalletSession, TwoFactor, FiniteSetTheorems, TLAPS

-----------------------------------------------------------------------------
(* Sessions and the lockout.                                               *)

(* There is always an object that nothing refers to. *)
LEMMA FreshExists ==
  ASSUME NEW v, NEW w
  PROVE  \E x \in WalletId : x # v /\ x # w
<1> SUFFICES ASSUME WalletId \subseteq {v, w} PROVE FALSE
  OBVIOUS
<1>1. IsFiniteSet({v, w}) /\ Cardinality({v, w}) <= 2
  <2>1. IsFiniteSet({}) /\ Cardinality({}) = 0
    BY FS_EmptySet
  <2>2. IsFiniteSet({v}) /\ Cardinality({v}) = 1
    BY FS_Singleton
  <2>3. IsFiniteSet({v} \cup {w}) /\ Cardinality({v} \cup {w}) <= 2
    BY <2>2, FS_AddElement
  <2>4. {v} \cup {w} = {v, w}
    OBVIOUS
  <2> QED BY <2>3, <2>4
<1>2. Cardinality(WalletId) <= Cardinality({v, w})
  BY <1>1, FS_Subset
<1>3. Cardinality(WalletId) \in Nat /\ Cardinality({v, w}) \in Nat
  BY <1>1, FS_CardinalityType, WalletSessionConstants DEF WalletSessionConstants
<1> QED BY <1>1, <1>2, <1>3, WalletSessionConstants DEF WalletSessionConstants

LEMMA FreshType == Fresh \in WalletId
<1>1. \E w \in WalletId : w # ui.wallet /\ (session # None => w # session.wallet)
  BY FreshExists
<1> QED BY <1>1 DEF Fresh

LEMMA Limits ==
  /\ MaxPinAttempts \in Nat /\ MaxPinAttempts > 0
  /\ Duration \in Nat /\ Duration > 0
  /\ Timeout \in Nat /\ Timeout > 0
  BY WalletSessionConstants DEF WalletSessionConstants

Lockout == [attempts: 0 .. MaxPinAttempts, age: 0 .. Duration + 1, left: 0 .. Duration]

LEMMA LockoutType ==
  /\ NoAttempts \in Lockout
  /\ \A l \in Lockout : RecordFailedAttempt(l) \in Lockout
  BY Limits DEF NoAttempts, Lockout, RecordFailedAttempt, CountedAttempts

Provider == [loading: BOOLEAN, initialized: BOOLEAN, locked: BOOLEAN,
             wallet: WalletId \cup {None}]

LEMMA OpenType ==
  ASSUME WTypeOK, NEW c \in Caller, calls[c] # None, OpenWallet(c)
  PROVE  /\ session' \in Session /\ ui' \in Provider /\ destroyed' \in BOOLEAN
         /\ {sessionPin', pinHash'} \subseteq Pin \cup {None}
<1>1. calls[c] \in Call
  BY DEF WTypeOK
<1>2. calls[c].pin \in Pin \cup {None}
  BY <1>1 DEF Call
<1>3. session' \in Session
  BY FreshType, Limits DEF OpenWallet, SessionAfter, Session, Unlocks
<1>4. ui' \in Provider
  BY FreshType DEF OpenWallet, Provider, WTypeOK, Unlocks
<1> QED BY <1>2, <1>3, <1>4 DEF OpenWallet, PinHashAfter, WTypeOK

(* Every step keeps the types. *)
LEMMA TypeStep ==
  ASSUME WTypeOK, [Next]_vars
  PROVE  WTypeOK'
<1> USE DEF WTypeOK, Session, Call, Op
<1>1. ASSUME NEW c \in Caller, ReadWallet(c)
      PROVE  WTypeOK'
  <2>1. calls[c] \in Call
    BY <1>1 DEF ReadWallet, At
  <2>2. [calls[c] EXCEPT !.at = "decrypt", !.stored = stored] \in Call
    BY <2>1, <1>1 DEF ReadWallet
  <2>3. calls' = [calls EXCEPT ![c] = [calls[c] EXCEPT !.at = "decrypt", !.stored = stored]]
    BY <1>1 DEF ReadWallet
  <2> QED BY <1>1, <2>2, <2>3 DEF ReadWallet, memory
<1>2. ASSUME NEW c \in Caller, ReadFails(c)
      PROVE  WTypeOK'
  BY <1>2, Limits
     DEF ReadFails, RecordFailedAttempt, CountedAttempts, At, Return, memory
<1>3. ASSUME NEW c \in Caller, DecryptsWallet(c)
      PROVE  WTypeOK'
  BY <1>3, Limits DEF DecryptsWallet, Continue, NoAttempts, At, Return, memory
<1>4. ASSUME NEW c \in Caller, RejectsPin(c)
      PROVE  WTypeOK'
  BY <1>4, Limits
     DEF RejectsPin, Refuse, RecordFailedAttempt, CountedAttempts, At, Return,
         memory
<1>5. ASSUME NEW c \in Caller, FinishUnlock(c)
      PROVE  WTypeOK'
  <2>1. /\ session' \in Session /\ ui' \in Provider /\ destroyed' \in BOOLEAN
        /\ {sessionPin', pinHash'} \subseteq Pin \cup {None}
    BY <1>5, OpenType DEF FinishUnlock, At
  <2>2. lockout' \in Lockout
    BY <1>5, LockoutType DEF FinishUnlock, Lockout
  <2>3. calls' \in [Caller -> Call \cup {None}]
    BY <1>5 DEF FinishUnlock, Return
  <2>4. stored' = stored /\ failed' \in Nat
    BY <1>5 DEF FinishUnlock
  <2> QED BY <2>1, <2>2, <2>3, <2>4 DEF Provider, Lockout
<1>6. ASSUME NEW c \in Caller, SaveWallet(c)
      PROVE  WTypeOK'
  BY <1>6, Limits DEF SaveWallet, Continue, At, Return, memory
<1>7. ASSUME NEW c \in Caller, FinishSave(c)
      PROVE  WTypeOK'
  <2>1. /\ session' \in Session /\ ui' \in Provider /\ destroyed' \in BOOLEAN
        /\ {sessionPin', pinHash'} \subseteq Pin \cup {None}
    BY <1>7, OpenType DEF FinishSave, At
  <2>2. lockout' \in Lockout
    BY <1>7, LockoutType DEF FinishSave, Lockout
  <2>3. calls' \in [Caller -> Call \cup {None}]
    BY <1>7 DEF FinishSave, Return
  <2>4. stored' = stored /\ failed' \in Nat
    BY <1>7 DEF FinishSave
  <2> QED BY <2>1, <2>2, <2>3, <2>4 DEF Provider, Lockout
<1>8. ASSUME NEW c \in Caller, FinishDelete(c)
      PROVE  WTypeOK'
  <2>1. lockout' \in Lockout
    BY <1>8, LockoutType DEF FinishDelete
  <2>2. ui' \in Provider
    BY <1>8 DEF FinishDelete, Loading, Provider
  <2> QED BY <1>8, <2>1, <2>2 DEF FinishDelete, ClearSession, Return, Provider, Lockout
<1>9. ASSUME NEW c \in Caller, WriteFails(c)
      PROVE  WTypeOK'
  BY <1>9, Limits DEF WriteFails, At, Return, memory
<1>10. ASSUME NEW c \in Caller, NEW pin \in Pin, BeginUnlock(c, pin)
      PROVE  WTypeOK'
  BY <1>10, Limits DEF BeginUnlock, Begin, Request, memory
<1>11. ASSUME NEW c \in Caller, NEW pin \in Pin, BeginBackup(c, pin)
      PROVE  WTypeOK'
  BY <1>11, Limits DEF BeginBackup, Begin, Request, memory
<1>12. ASSUME NEW c \in Caller, NEW pin \in Pin, BeginSave(c, pin)
      PROVE  WTypeOK'
  BY <1>12, Limits DEF BeginSave, Begin, Request, memory
<1>13. ASSUME NEW c \in Caller, BeginDelete(c)
      PROVE  WTypeOK'
  BY <1>13, Limits DEF BeginDelete, Begin, Request, ClearSession, memory
<1>14. ASSUME NEW pin \in Pin, VerifySessionPin(pin)
      PROVE  WTypeOK'
  BY <1>14, Limits
     DEF VerifySessionPin, RecordFailedAttempt, CountedAttempts, memory
<1>15. CASE SessionTimer
  BY <1>15, Limits DEF SessionTimer, ClearSession, memory
<1>16. CASE PollSession
  BY <1>16, Limits DEF PollSession, Watched, ClearSession, memory
<1>17. CASE CheckWallet
  BY <1>17, Limits DEF CheckWallet, WalletExists, memory
<1>18. CASE Tick
  <2>1. \A n \in Nat : Less(n) \in Nat /\ Less(n) <= n
    BY DEF Less
  <2>2. lockout' \in Lockout
    <3>1. lockout.age \in 0 .. Duration + 1 /\ lockout.left \in 0 .. Duration
      OBVIOUS
    <3>2. (IF lockout.age > Duration THEN lockout.age ELSE lockout.age + 1) \in 0 .. Duration + 1
      BY <3>1, Limits
    <3>3. Less(lockout.left) \in 0 .. Duration
      BY <3>1, Limits DEF Less
    <3> QED BY <1>18, <3>2, <3>3 DEF Tick, Lockout
  <2>3. session' \in Session \cup {None}
    BY <1>18, <2>1, Limits DEF Tick
  <2> QED BY <1>18, <2>2, <2>3 DEF Tick, Lockout
<1>19. CASE RecordActivity
  BY <1>19, Limits DEF RecordActivity, Watched, memory
<1>20. CASE Lock
  BY <1>20, Limits DEF Lock, ClearSession, memory
<1>21. CASE Reload
  BY <1>21, Limits DEF Reload, Loading, memory
<1>22. CASE UNCHANGED vars
  BY <1>22 DEF vars, memory
<1> QED
  BY <1>1, <1>2, <1>3, <1>4, <1>5, <1>6, <1>7, <1>8, <1>9, <1>10,
     <1>11, <1>12, <1>13, <1>14, <1>15, <1>16, <1>17, <1>18, <1>19, <1>20, <1>21, <1>22
  DEF Next, Background, User, CallStep

(* Whatever locks the wallet also clears the session. *)
LEMMA LockedStep ==
  ASSUME WTypeOK, LockedHoldsNoSession, [Next]_vars
  PROVE  LockedHoldsNoSession'
<1> USE DEF WTypeOK, LockedHoldsNoSession
<1>1. ASSUME NEW c \in Caller, ReadWallet(c)
      PROVE  LockedHoldsNoSession'
  BY <1>1 DEF ReadWallet, At, Return, memory
<1>2. ASSUME NEW c \in Caller, ReadFails(c)
      PROVE  LockedHoldsNoSession'
  BY <1>2 DEF ReadFails, RecordFailedAttempt, CountedAttempts, At, Return, memory
<1>3. ASSUME NEW c \in Caller, DecryptsWallet(c)
      PROVE  LockedHoldsNoSession'
  BY <1>3 DEF DecryptsWallet, Continue, NoAttempts, At, Return, memory
<1>4. ASSUME NEW c \in Caller, RejectsPin(c)
      PROVE  LockedHoldsNoSession'
  BY <1>4
     DEF RejectsPin, Refuse, RecordFailedAttempt, CountedAttempts, At, Return,
         memory
<1>5. ASSUME NEW c \in Caller, FinishUnlock(c)
      PROVE  LockedHoldsNoSession'
  BY <1>5
     DEF FinishUnlock, OpenWallet, PinHashAfter, SessionAfter, Unlocks,
         NoAttempts, At, Return, memory
<1>6. ASSUME NEW c \in Caller, SaveWallet(c)
      PROVE  LockedHoldsNoSession'
  BY <1>6 DEF SaveWallet, Continue, At, Return, memory
<1>7. ASSUME NEW c \in Caller, FinishSave(c)
      PROVE  LockedHoldsNoSession'
  BY <1>7
     DEF FinishSave, OpenWallet, PinHashAfter, SessionAfter, Unlocks, At,
         Return, memory
<1>8. ASSUME NEW c \in Caller, FinishDelete(c)
      PROVE  LockedHoldsNoSession'
  BY <1>8 DEF FinishDelete, ClearSession, NoAttempts, Loading, At, Return, memory
<1>9. ASSUME NEW c \in Caller, WriteFails(c)
      PROVE  LockedHoldsNoSession'
  BY <1>9 DEF WriteFails, At, Return, memory
<1>10. ASSUME NEW c \in Caller, NEW pin \in Pin, BeginUnlock(c, pin)
      PROVE  LockedHoldsNoSession'
  BY <1>10 DEF BeginUnlock, Begin, Request, memory
<1>11. ASSUME NEW c \in Caller, NEW pin \in Pin, BeginBackup(c, pin)
      PROVE  LockedHoldsNoSession'
  BY <1>11 DEF BeginBackup, Begin, Request, memory
<1>12. ASSUME NEW c \in Caller, NEW pin \in Pin, BeginSave(c, pin)
      PROVE  LockedHoldsNoSession'
  BY <1>12 DEF BeginSave, Begin, Request, memory
<1>13. ASSUME NEW c \in Caller, BeginDelete(c)
      PROVE  LockedHoldsNoSession'
  BY <1>13 DEF BeginDelete, Begin, Request, ClearSession, memory
<1>14. ASSUME NEW pin \in Pin, VerifySessionPin(pin)
      PROVE  LockedHoldsNoSession'
  BY <1>14 DEF VerifySessionPin, RecordFailedAttempt, CountedAttempts, memory
<1>15. CASE SessionTimer
  BY <1>15 DEF SessionTimer, ClearSession, memory
<1>16. CASE PollSession
  BY <1>16 DEF PollSession, Watched, ClearSession, memory
<1>17. CASE CheckWallet
  BY <1>17 DEF CheckWallet, WalletExists, memory
<1>18. CASE Tick
  BY <1>18 DEF Tick, Less, memory
<1>19. CASE RecordActivity
  BY <1>19 DEF RecordActivity, Watched, memory
<1>20. CASE Lock
  BY <1>20 DEF Lock, ClearSession, memory
<1>21. CASE Reload
  BY <1>21 DEF Reload, Loading, memory
<1>22. CASE UNCHANGED vars
  BY <1>22 DEF vars, memory
<1> QED
  BY <1>1, <1>2, <1>3, <1>4, <1>5, <1>6, <1>7, <1>8, <1>9, <1>10,
     <1>11, <1>12, <1>13, <1>14, <1>15, <1>16, <1>17, <1>18, <1>19, <1>20, <1>21, <1>22
  DEF Next, Background, User, CallStep

(* Session and shown wallet change together. *)
LEMMA ShownStep ==
  ASSUME WTypeOK, LockedHoldsNoSession, SessionGuardsShownWallet, [Next]_vars
  PROVE  SessionGuardsShownWallet'
<1> USE DEF WTypeOK, Session, LockedHoldsNoSession,
    SessionGuardsShownWallet
<1>1. ASSUME NEW c \in Caller, ReadWallet(c)
      PROVE  SessionGuardsShownWallet'
  BY <1>1 DEF ReadWallet, At, Return, memory
<1>2. ASSUME NEW c \in Caller, ReadFails(c)
      PROVE  SessionGuardsShownWallet'
  BY <1>2 DEF ReadFails, RecordFailedAttempt, CountedAttempts, At, Return, memory
<1>3. ASSUME NEW c \in Caller, DecryptsWallet(c)
      PROVE  SessionGuardsShownWallet'
  BY <1>3 DEF DecryptsWallet, Continue, NoAttempts, At, Return, memory
<1>4. ASSUME NEW c \in Caller, RejectsPin(c)
      PROVE  SessionGuardsShownWallet'
  BY <1>4
     DEF RejectsPin, Refuse, RecordFailedAttempt, CountedAttempts, At, Return,
         memory
<1>5. ASSUME NEW c \in Caller, FinishUnlock(c)
      PROVE  SessionGuardsShownWallet'
  BY <1>5
     DEF FinishUnlock, OpenWallet, PinHashAfter, SessionAfter, Unlocks,
         NoAttempts, At, Return, memory
<1>6. ASSUME NEW c \in Caller, SaveWallet(c)
      PROVE  SessionGuardsShownWallet'
  BY <1>6 DEF SaveWallet, Continue, At, Return, memory
<1>7. ASSUME NEW c \in Caller, FinishSave(c)
      PROVE  SessionGuardsShownWallet'
  BY <1>7
     DEF FinishSave, OpenWallet, PinHashAfter, SessionAfter, Unlocks, At,
         Return, memory
<1>8. ASSUME NEW c \in Caller, FinishDelete(c)
      PROVE  SessionGuardsShownWallet'
  BY <1>8 DEF FinishDelete, ClearSession, NoAttempts, Loading, At, Return, memory
<1>9. ASSUME NEW c \in Caller, WriteFails(c)
      PROVE  SessionGuardsShownWallet'
  BY <1>9 DEF WriteFails, At, Return, memory
<1>10. ASSUME NEW c \in Caller, NEW pin \in Pin, BeginUnlock(c, pin)
      PROVE  SessionGuardsShownWallet'
  BY <1>10 DEF BeginUnlock, Begin, Request, memory
<1>11. ASSUME NEW c \in Caller, NEW pin \in Pin, BeginBackup(c, pin)
      PROVE  SessionGuardsShownWallet'
  BY <1>11 DEF BeginBackup, Begin, Request, memory
<1>12. ASSUME NEW c \in Caller, NEW pin \in Pin, BeginSave(c, pin)
      PROVE  SessionGuardsShownWallet'
  BY <1>12 DEF BeginSave, Begin, Request, memory
<1>13. ASSUME NEW c \in Caller, BeginDelete(c)
      PROVE  SessionGuardsShownWallet'
  BY <1>13 DEF BeginDelete, Begin, Request, ClearSession, memory
<1>14. ASSUME NEW pin \in Pin, VerifySessionPin(pin)
      PROVE  SessionGuardsShownWallet'
  BY <1>14 DEF VerifySessionPin, RecordFailedAttempt, CountedAttempts, memory
<1>15. CASE SessionTimer
  BY <1>15 DEF SessionTimer, ClearSession, memory
<1>16. CASE PollSession
  BY <1>16 DEF PollSession, Watched, ClearSession, memory
<1>17. CASE CheckWallet
  BY <1>17 DEF CheckWallet, WalletExists, memory
<1>18. CASE Tick
  BY <1>18 DEF Tick, Less, memory
<1>19. CASE RecordActivity
  BY <1>19 DEF RecordActivity, Watched, memory
<1>20. CASE Lock
  BY <1>20 DEF Lock, ClearSession, memory
<1>21. CASE Reload
  BY <1>21 DEF Reload, Loading, memory
<1>22. CASE UNCHANGED vars
  BY <1>22 DEF vars, memory
<1> QED
  BY <1>1, <1>2, <1>3, <1>4, <1>5, <1>6, <1>7, <1>8, <1>9, <1>10,
     <1>11, <1>12, <1>13, <1>14, <1>15, <1>16, <1>17, <1>18, <1>19, <1>20, <1>21, <1>22
  DEF Next, Background, User, CallStep

(* PIN and hash of an unlocked session change together. *)
LEMMA VerifiesStep ==
  ASSUME WTypeOK, UnlockedSessionVerifies, [Next]_vars
  PROVE  UnlockedSessionVerifies'
<1> USE DEF WTypeOK, Session, UnlockedSessionVerifies
<1>1. ASSUME NEW c \in Caller, ReadWallet(c)
      PROVE  UnlockedSessionVerifies'
  BY <1>1 DEF ReadWallet, At, Return, memory
<1>2. ASSUME NEW c \in Caller, ReadFails(c)
      PROVE  UnlockedSessionVerifies'
  BY <1>2 DEF ReadFails, RecordFailedAttempt, CountedAttempts, At, Return, memory
<1>3. ASSUME NEW c \in Caller, DecryptsWallet(c)
      PROVE  UnlockedSessionVerifies'
  BY <1>3 DEF DecryptsWallet, Continue, NoAttempts, At, Return, memory
<1>4. ASSUME NEW c \in Caller, RejectsPin(c)
      PROVE  UnlockedSessionVerifies'
  BY <1>4
     DEF RejectsPin, Refuse, RecordFailedAttempt, CountedAttempts, At, Return,
         memory
<1>5. ASSUME NEW c \in Caller, FinishUnlock(c)
      PROVE  UnlockedSessionVerifies'
  BY <1>5
     DEF FinishUnlock, OpenWallet, PinHashAfter, SessionAfter, Unlocks,
         NoAttempts, At, Return, memory
<1>6. ASSUME NEW c \in Caller, SaveWallet(c)
      PROVE  UnlockedSessionVerifies'
  BY <1>6 DEF SaveWallet, Continue, At, Return, memory
<1>7. ASSUME NEW c \in Caller, FinishSave(c)
      PROVE  UnlockedSessionVerifies'
  BY <1>7
     DEF FinishSave, OpenWallet, PinHashAfter, SessionAfter, Unlocks, At,
         Return, memory
<1>8. ASSUME NEW c \in Caller, FinishDelete(c)
      PROVE  UnlockedSessionVerifies'
  BY <1>8 DEF FinishDelete, ClearSession, NoAttempts, Loading, At, Return, memory
<1>9. ASSUME NEW c \in Caller, WriteFails(c)
      PROVE  UnlockedSessionVerifies'
  BY <1>9 DEF WriteFails, At, Return, memory
<1>10. ASSUME NEW c \in Caller, NEW pin \in Pin, BeginUnlock(c, pin)
      PROVE  UnlockedSessionVerifies'
  BY <1>10 DEF BeginUnlock, Begin, Request, memory
<1>11. ASSUME NEW c \in Caller, NEW pin \in Pin, BeginBackup(c, pin)
      PROVE  UnlockedSessionVerifies'
  BY <1>11 DEF BeginBackup, Begin, Request, memory
<1>12. ASSUME NEW c \in Caller, NEW pin \in Pin, BeginSave(c, pin)
      PROVE  UnlockedSessionVerifies'
  BY <1>12 DEF BeginSave, Begin, Request, memory
<1>13. ASSUME NEW c \in Caller, BeginDelete(c)
      PROVE  UnlockedSessionVerifies'
  BY <1>13 DEF BeginDelete, Begin, Request, ClearSession, memory
<1>14. ASSUME NEW pin \in Pin, VerifySessionPin(pin)
      PROVE  UnlockedSessionVerifies'
  BY <1>14 DEF VerifySessionPin, RecordFailedAttempt, CountedAttempts, memory
<1>15. CASE SessionTimer
  BY <1>15 DEF SessionTimer, ClearSession, memory
<1>16. CASE PollSession
  BY <1>16 DEF PollSession, Watched, ClearSession, memory
<1>17. CASE CheckWallet
  BY <1>17 DEF CheckWallet, WalletExists, memory
<1>18. CASE Tick
  BY <1>18 DEF Tick, Less, memory
<1>19. CASE RecordActivity
  BY <1>19 DEF RecordActivity, Watched, memory
<1>20. CASE Lock
  BY <1>20 DEF Lock, ClearSession, memory
<1>21. CASE Reload
  BY <1>21 DEF Reload, Loading, memory
<1>22. CASE UNCHANGED vars
  BY <1>22 DEF vars, memory
<1> QED
  BY <1>1, <1>2, <1>3, <1>4, <1>5, <1>6, <1>7, <1>8, <1>9, <1>10,
     <1>11, <1>12, <1>13, <1>14, <1>15, <1>16, <1>17, <1>18, <1>19, <1>20, <1>21, <1>22
  DEF Next, Background, User, CallStep

(* Calls that have passed the lockout check and may still refuse their PIN. *)
Pending ==
  {c \in Caller : /\ calls[c] # None
                  /\ calls[c].op \in {"unlock", "backup"}
                  /\ calls[c].at \in {"read", "decrypt"}}

(* Outside a pause every PIN refused has been counted; during a pause no    *)
(* further call passes the check.                                           *)
GuessInv ==
  /\ ~LockedOut => failed < MaxPinAttempts /\ failed <= CountedAttempts(lockout)
  /\ LockedOut => failed + Cardinality(Pending) <= MaxPinAttempts + Cardinality(Caller)

LEMMA PendingFinite ==
  ASSUME NEW S \in SUBSET Caller
  PROVE  /\ IsFiniteSet(S)
         /\ Cardinality(S) \in Nat /\ Cardinality(Caller) \in Nat
         /\ Cardinality(S) <= Cardinality(Caller)
  BY FS_Subset, FS_CardinalityType, WalletSessionConstants
     DEF WalletSessionConstants

(* Counting once more, or twice for one refused PIN. *)
LEMMA Counts ==
  ASSUME NEW l \in Lockout
  PROVE  LET r == RecordFailedAttempt(l)
         IN  /\ r \in Lockout
             /\ l.left > 0 => r.left > 0
             /\ r.left = 0 => /\ CountedAttempts(l) + 1 < MaxPinAttempts
                              /\ CountedAttempts(r) = CountedAttempts(l) + 1
  BY Limits, LockoutType DEF Lockout, RecordFailedAttempt, CountedAttempts

LEMMA CountsTwice ==
  ASSUME NEW l \in Lockout
  PROVE  LET r == RecordFailedAttempt(RecordFailedAttempt(l))
         IN  /\ r \in Lockout
             /\ l.left > 0 => r.left > 0
             /\ r.left = 0 => /\ CountedAttempts(l) + 1 < MaxPinAttempts
                              /\ CountedAttempts(r) >= CountedAttempts(l) + 1
<1> DEFINE q == RecordFailedAttempt(l)
<1> DEFINE r == RecordFailedAttempt(q)
<1>1. /\ q \in Lockout
      /\ l.left > 0 => q.left > 0
      /\ q.left = 0 => /\ CountedAttempts(l) + 1 < MaxPinAttempts
                       /\ CountedAttempts(q) = CountedAttempts(l) + 1
  BY Counts
<1>2. /\ r \in Lockout
      /\ q.left > 0 => r.left > 0
      /\ r.left = 0 => /\ CountedAttempts(q) + 1 < MaxPinAttempts
                       /\ CountedAttempts(r) = CountedAttempts(q) + 1
  BY <1>1, Counts
<1>3. q.left \in Nat /\ CountedAttempts(l) \in Nat
  BY <1>1, Limits DEF Lockout, CountedAttempts
<1> HIDE DEF q, r
<1>4. /\ r \in Lockout
      /\ l.left > 0 => r.left > 0
      /\ r.left = 0 => /\ CountedAttempts(l) + 1 < MaxPinAttempts
                       /\ CountedAttempts(r) >= CountedAttempts(l) + 1
  BY <1>1, <1>2, <1>3
<1> QED BY <1>4 DEF q, r

(* A refused PIN is counted, and during a pause its call is one less. *)
LEMMA RefusedStep ==
  ASSUME WTypeOK, GuessInv, failed' = failed + 1,
         \/ lockout' = RecordFailedAttempt(lockout)
         \/ lockout' = RecordFailedAttempt(RecordFailedAttempt(lockout)),
         LockedOut => Cardinality(Pending') + 1 <= Cardinality(Pending)
  PROVE  GuessInv'
<1>1. lockout \in Lockout
  BY DEF WTypeOK, Lockout
<1>2. /\ lockout' \in Lockout
      /\ lockout.left > 0 => lockout'.left > 0
      /\ lockout'.left = 0 => /\ CountedAttempts(lockout) + 1 < MaxPinAttempts
                             /\ CountedAttempts(lockout') >= CountedAttempts(lockout) + 1
  BY <1>1, Counts, CountsTwice, Limits DEF Lockout, CountedAttempts
<1>3. /\ failed \in Nat /\ lockout.left \in Nat /\ lockout'.left \in Nat
      /\ CountedAttempts(lockout) \in Nat /\ CountedAttempts(lockout') \in Nat
  BY <1>1, <1>2, Limits DEF WTypeOK, Lockout, CountedAttempts
<1>4. /\ Cardinality(Pending) \in Nat /\ Cardinality(Pending') \in Nat
      /\ Cardinality(Caller) \in Nat /\ Cardinality(Pending') <= Cardinality(Caller)
  BY PendingFinite DEF Pending
<1>5. ~LockedOut' => failed' < MaxPinAttempts /\ failed' <= CountedAttempts(lockout)'
  BY <1>2, <1>3, Limits DEF GuessInv, LockedOut
<1>6. LockedOut' => failed' + Cardinality(Pending)' <= MaxPinAttempts + Cardinality(Caller)
  BY <1>3, <1>4, Limits DEF GuessInv, LockedOut
<1> QED BY <1>5, <1>6 DEF GuessInv

(* Nothing is refused, and during a pause no call passes the check. *)
LEMMA QuietStep ==
  ASSUME GuessInv, UNCHANGED <<lockout, failed>>, WTypeOK,
         LockedOut => Pending' \subseteq Pending
  PROVE  GuessInv'
<1>1. LockedOut => Cardinality(Pending') <= Cardinality(Pending)
  BY PendingFinite, FS_Subset DEF Pending
<1>2. Cardinality(Pending) \in Nat /\ Cardinality(Pending') \in Nat /\ Cardinality(Caller) \in Nat
  BY PendingFinite DEF Pending
<1>3. CountedAttempts(lockout)' = CountedAttempts(lockout) /\ LockedOut' = LockedOut
  BY DEF CountedAttempts, LockedOut
<1> QED BY <1>1, <1>2, <1>3, Limits DEF GuessInv, WTypeOK

LEMMA ResetStep ==
  ASSUME lockout' = NoAttempts, failed' = 0
  PROVE  GuessInv'
  BY Limits DEF GuessInv, NoAttempts, LockedOut, CountedAttempts

(* A pending call that returns is pending no more. *)
LEMMA ReturnStep ==
  ASSUME NEW c \in Pending, WTypeOK, calls' = [calls EXCEPT ![c] = None]
  PROVE  Cardinality(Pending') + 1 <= Cardinality(Pending)
<1>1. Pending' = Pending \ {c}
  BY DEF Pending, WTypeOK
<1>2. IsFiniteSet(Pending) /\ Cardinality(Pending) \in Nat
  BY PendingFinite DEF Pending
<1>3. Cardinality(Pending \ {c}) = Cardinality(Pending) - 1
  BY <1>2, FS_RemoveElement
<1> QED BY <1>1, <1>2, <1>3

(* A PIN that is refused counts, and starts a pause when the count is full. *)
LEMMA GuessStep ==
  ASSUME WTypeOK, GuessInv, [Next]_vars
  PROVE  GuessInv'
<1> USE DEF WTypeOK
<1>1. ASSUME NEW c \in Caller, ReadWallet(c)
      PROVE  GuessInv'
  <2>1. Pending' \subseteq Pending
    BY <1>1 DEF ReadWallet, Pending, At
  <2> QED BY <1>1, <2>1, QuietStep DEF ReadWallet, memory
<1>2. ASSUME NEW c \in Caller, ReadFails(c)
      PROVE  GuessInv'
  <2>1. c \in Pending
    BY <1>2 DEF ReadFails, At, Pending
  <2>2. calls' = [calls EXCEPT ![c] = None]
    BY <1>2 DEF ReadFails, Return
  <2>3. Cardinality(Pending') + 1 <= Cardinality(Pending)
    BY <2>1, <2>2, ReturnStep
  <2>4. CASE calls[c].op = "unlock"
    BY <1>2, <2>3, <2>4, RefusedStep DEF ReadFails
  <2>5. CASE calls[c].op # "unlock"
    <3>1. Pending' \subseteq Pending
      BY <2>2 DEF Pending
    <3> QED BY <1>2, <2>5, <3>1, QuietStep DEF ReadFails
  <2> QED BY <2>4, <2>5
<1>3. ASSUME NEW c \in Caller, DecryptsWallet(c)
      PROVE  GuessInv'
  BY <1>3, ResetStep DEF DecryptsWallet
<1>4. ASSUME NEW c \in Caller, RejectsPin(c)
      PROVE  GuessInv'
  <2>1. c \in Pending
    BY <1>4 DEF RejectsPin, At, Pending
  <2>2. calls' = [calls EXCEPT ![c] = None]
    BY <1>4 DEF RejectsPin, Return
  <2>3. Cardinality(Pending') + 1 <= Cardinality(Pending)
    BY <2>1, <2>2, ReturnStep
  <2>4. /\ failed' = failed + 1
        /\ \/ lockout' = RecordFailedAttempt(lockout)
           \/ lockout' = RecordFailedAttempt(RecordFailedAttempt(lockout))
    BY <1>4 DEF RejectsPin, Refuse
  <2> QED BY <2>3, <2>4, RefusedStep
<1>5. ASSUME NEW c \in Caller, FinishUnlock(c)
      PROVE  GuessInv'
  BY <1>5, ResetStep DEF FinishUnlock
<1>6. ASSUME NEW c \in Caller, SaveWallet(c)
      PROVE  GuessInv'
  <2>1. Pending' \subseteq Pending
    BY <1>6 DEF SaveWallet, Pending, At, Continue
  <2> QED BY <1>6, <2>1, QuietStep DEF SaveWallet, memory
<1>7. ASSUME NEW c \in Caller, FinishSave(c)
      PROVE  GuessInv'
  <2>1. Pending' \subseteq Pending
    BY <1>7 DEF FinishSave, Pending, At, Return
  <2> QED BY <1>7, <2>1, QuietStep DEF FinishSave, memory
<1>8. ASSUME NEW c \in Caller, FinishDelete(c)
      PROVE  GuessInv'
  BY <1>8, ResetStep DEF FinishDelete
<1>9. ASSUME NEW c \in Caller, WriteFails(c)
      PROVE  GuessInv'
  <2>1. Pending' \subseteq Pending
    BY <1>9 DEF WriteFails, Pending, At, Return
  <2> QED BY <1>9, <2>1, QuietStep DEF WriteFails, memory
<1>10. ASSUME NEW c \in Caller, NEW pin \in Pin, BeginUnlock(c, pin)
      PROVE  GuessInv'
  BY <1>10, QuietStep DEF BeginUnlock
<1>11. ASSUME NEW c \in Caller, NEW pin \in Pin, BeginBackup(c, pin)
      PROVE  GuessInv'
  BY <1>11, QuietStep DEF BeginBackup
<1>12. ASSUME NEW c \in Caller, NEW pin \in Pin, BeginSave(c, pin)
      PROVE  GuessInv'
  <2>1. Pending' \subseteq Pending
    BY <1>12 DEF BeginSave, Pending, Begin, Request
  <2> QED BY <1>12, <2>1, QuietStep DEF BeginSave, memory
<1>13. ASSUME NEW c \in Caller, BeginDelete(c)
      PROVE  GuessInv'
  <2>1. Pending' \subseteq Pending
    BY <1>13 DEF BeginDelete, Pending, Begin, Request
  <2> QED BY <1>13, <2>1, QuietStep DEF BeginDelete, memory
<1>14. ASSUME NEW pin \in Pin, VerifySessionPin(pin)
      PROVE  GuessInv'
  <2>1. lockout' = RecordFailedAttempt(lockout) /\ failed' = failed + 1 /\ ~LockedOut
    BY <1>14 DEF VerifySessionPin
  <2> QED BY <2>1, RefusedStep
<1>15. CASE SessionTimer
  BY <1>15, QuietStep DEF SessionTimer, Pending
<1>16. CASE PollSession
  BY <1>16, QuietStep DEF PollSession, Pending
<1>17. CASE CheckWallet
  BY <1>17, QuietStep DEF CheckWallet, Pending
<1>18. CASE Tick
  <2>1. Pending' = Pending
    BY <1>18 DEF Tick, Pending
  <2>2. /\ lockout.left \in Nat /\ lockout.age \in Nat /\ lockout.attempts \in Nat
        /\ failed \in Nat
    BY Limits
  <2>3. /\ lockout'.attempts = lockout.attempts
        /\ lockout'.left = Less(lockout.left)
        /\ lockout'.age = IF lockout.age > Duration THEN lockout.age ELSE lockout.age + 1
    BY <1>18 DEF Tick
  <2>4. failed' = IF lockout.left = 1 \/ lockout'.age > Duration THEN 0 ELSE failed
    BY <1>18 DEF Tick
  <2>5. CASE lockout.left <= 1
    <3>1. ~LockedOut'
      BY <2>2, <2>3, <2>5 DEF LockedOut, Less
    <3>2. CASE lockout.left = 1 \/ lockout'.age > Duration
      BY <2>2, <2>3, <2>4, <3>1, <3>2, Limits DEF GuessInv, CountedAttempts
    <3>3. CASE ~(lockout.left = 1 \/ lockout'.age > Duration)
      <4>1. ~LockedOut /\ failed' = failed
        BY <2>2, <2>4, <2>5, <3>3 DEF LockedOut
      <4>2. CountedAttempts(lockout)' = CountedAttempts(lockout)
        BY <2>2, <2>3, <3>3, Limits DEF CountedAttempts
      <4> QED BY <3>1, <4>1, <4>2 DEF GuessInv
    <3> QED BY <3>2, <3>3
  <2>6. CASE lockout.left > 1
    <3>1. LockedOut /\ LockedOut'
      BY <2>2, <2>3, <2>6 DEF LockedOut, Less
    <3>2. failed' <= failed /\ failed' \in Nat
      BY <2>2, <2>4
    <3>3. Cardinality(Pending) \in Nat /\ Cardinality(Caller) \in Nat
      BY PendingFinite DEF Pending
    <3> QED BY <2>1, <2>2, <3>1, <3>2, <3>3, Limits DEF GuessInv
  <2> QED BY <2>2, <2>5, <2>6
<1>19. CASE RecordActivity
  BY <1>19, QuietStep DEF RecordActivity, Pending
<1>20. CASE Lock
  BY <1>20, QuietStep DEF Lock, Pending
<1>21. CASE Reload
  <2>1. Pending' \subseteq Pending
    BY <1>21 DEF Reload, Pending, Loading
  <2> QED BY <1>21, <2>1, QuietStep DEF Reload, memory
<1>22. CASE UNCHANGED vars
  BY <1>22, QuietStep DEF vars, Pending
<1> QED
  BY <1>1, <1>2, <1>3, <1>4, <1>5, <1>6, <1>7, <1>8, <1>9, <1>10,
     <1>11, <1>12, <1>13, <1>14, <1>15, <1>16, <1>17, <1>18, <1>19, <1>20, <1>21, <1>22
  DEF Next, Background, User, CallStep

IInv ==
  /\ WTypeOK
  /\ LockedHoldsNoSession
  /\ SessionGuardsShownWallet
  /\ UnlockedSessionVerifies
  /\ GuessInv

LEMMA Initially == Init => IInv
<1> SUFFICES ASSUME Init PROVE IInv
  OBVIOUS
<1>1. WTypeOK
  <2>1. lockout \in Lockout
    BY LockoutType DEF Init
  <2> QED BY <2>1 DEF Init, WTypeOK, Lockout, Loading
<1>2. LockedHoldsNoSession /\ SessionGuardsShownWallet /\ UnlockedSessionVerifies
  BY
     DEF Init, LockedHoldsNoSession, SessionGuardsShownWallet,
         UnlockedSessionVerifies
<1>3. GuessInv
  BY Limits DEF Init, GuessInv, NoAttempts, LockedOut, CountedAttempts
<1> QED BY <1>1, <1>2, <1>3 DEF IInv

LEMMA Invariance == Spec => []IInv
<1>1. IInv /\ [Next]_vars => IInv'
  BY TypeStep, LockedStep, ShownStep, VerifiesStep, GuessStep DEF IInv
<1> QED BY Initially, <1>1, PTL DEF Spec

(* Every reachable state is well typed: no count or time leaves its range. *)
THEOREM SessionTypes == Spec => []WTypeOK
<1>1. IInv => WTypeOK
  BY DEF IInv
<1> QED BY Invariance, <1>1, PTL

(* No order of unlocks, locks, expiries, deletions and reloads leaves a     *)
(* session, its timer or its PIN behind a locked wallet (useWallet.tsx).    *)
THEOREM LockedIsEmpty == Spec => []LockedHoldsNoSession
<1>1. IInv => LockedHoldsNoSession
  BY DEF IInv
<1> QED BY Invariance, <1>1, PTL

(* The session, the PIN signatures are checked against and the wallet on    *)
(* the screen come from the same call, however many calls overlap.          *)
THEOREM SessionsFit == Spec => []SessionFitsWallet
<1>1. IInv => SessionFitsWallet
  BY DEF IInv, SessionFitsWallet
<1> QED BY Invariance, <1>1, PTL

(* The unlock screen, the phrase and the signatures together see at most    *)
(* MaxAttempts refused PINs before a pause, and one more for every call     *)
(* that was under way when it began.                                        *)
THEOREM GuessesAreBounded == Spec => []GuessesBounded
<1>1. IInv => GuessesBounded
  <2>1. Cardinality(Pending) \in Nat /\ Cardinality(Caller) \in Nat
    BY PendingFinite DEF Pending
  <2> QED BY <2>1, Limits DEF IInv, GuessInv, GuessesBounded, WTypeOK
<1> QED BY Invariance, <1>1, PTL

-----------------------------------------------------------------------------
(* The second factor.                                                      *)

Shown == {"scan", "verify", "backup", "complete"}

(* Codes of later batches have not been given out. *)
GivenOut(codes) == \A code \in codes : code[1] <= batches

(* A verification is under way, with the state it read, and not an opening. *)
IsVerification(c) == checks[c] # Nil /\ checks[c].from \in {"setup", "left", "unlock"}

(* A code that is stored has not been spent, and codes that are spent, are  *)
(* stored or were read by a verification are of batches generated before.   *)
SpentCodesGone ==
  /\ GivenOut(used.once)
  /\ twoFactor # Nil => GivenOut(twoFactor.codes)
  /\ \A c \in Checker : IsVerification(c) => GivenOut(checks[c].loaded.codes)
  /\ twoFactor # Nil /\ ~overwritten => twoFactor.codes \cap used.once = {}

(* The dialog is part of the settings, and its verifications end with it. *)
DialogIsOpen ==
  /\ setup.step # "closed" => screen = "home"
  /\ \A c \in Checker : UnderWay(c, "setup") => setup.step \in Shown

(* A PIN is checked for the screen that is shown, one at a time. *)
PinIsAsked ==
  /\ \A c \in Checker : UnderWay(c, "pin") => screen = "pin" /\ ~IsLocked
  /\ \A c, d \in Checker : UnderWay(c, "pin") /\ UnderWay(d, "pin") => c = d

Calls == [Checker -> Verification \cup Opening \cup {Nil}]
Dialog == [step: SetupStep, secret: 0 .. MaxBatches, codes: SUBSET BackupCode,
           verifying: BOOLEAN]

LEMMA Bounds == MaxBatches \in Nat \ {0} /\ CodeCount \in Nat \ {0} /\ MaxAttempts \in Nat \ {0}
  BY TwoFactorConstants DEF TwoFactorConstants

LEMMA ClosedType == Closed \in Dialog
  BY Bounds DEF Closed, Dialog, SetupStep

LEMMA LeaveType == checks \in Calls => Leave \in Calls
<1> SUFFICES ASSUME checks \in Calls, NEW c \in Checker, checks[c] # Nil
             PROVE  Leave[c] \in Verification \cup Opening
  BY DEF Leave, Calls, UnderWay
<1>1. CASE checks[c] \in Verification
  BY <1>1 DEF Leave, UnderWay, Verification
<1>2. CASE checks[c] \in Opening
  BY <1>2 DEF Leave, UnderWay, Opening
<1> QED BY <1>1, <1>2 DEF Calls

(* Where a call comes from tells a verification from an opening, and what a *)
(* verification loaded is a state.                                          *)
LEMMA CallTypes ==
  ASSUME TFTypeOK, NEW c \in Checker, checks[c] # Nil
  PROVE  /\ checks[c].from \in {"pin", "away", "phrase"} => checks[c] \in Opening
         /\ IsVerification(c) =>
              checks[c] \in Verification /\ checks[c].loaded \in State
  BY DEF TFTypeOK, Verification, Opening, IsVerification

(* What became of a call when its screen was left. *)
LEMMA LeaveFacts ==
  ASSUME TFTypeOK, NEW c \in Checker
  PROVE  /\ Leave[c] = Nil <=> checks[c] = Nil
         /\ Leave[c] # Nil => Leave[c].from \notin {"setup", "pin"}
         /\ Leave[c] # Nil /\ Leave[c].from \in {"left", "unlock"} =>
              IsVerification(c) /\ Leave[c].loaded = checks[c].loaded
<1>1. CASE checks[c] = Nil
  BY <1>1 DEF Leave, UnderWay
<1>2. CASE checks[c] \in Verification
  <2>1. CASE checks[c].from = "setup"
    <3>1. Leave[c] = [checks[c] EXCEPT !.from = "left"] /\ checks[c] # Nil
      BY <1>2, <2>1, Sentinel DEF Leave, UnderWay
    <3>2. Leave[c] \in Verification /\ Leave[c].from = "left" /\ Leave[c].loaded = checks[c].loaded
      BY <1>2, <3>1 DEF Verification
    <3> QED BY <2>1, <3>1, <3>2, Sentinel DEF IsVerification
  <2>2. CASE checks[c].from \in {"left", "unlock"}
    <3>1. Leave[c] = checks[c]
      BY <2>2 DEF Leave, UnderWay
    <3> QED BY <2>2, <3>1 DEF IsVerification
  <2> QED BY <1>2, <2>1, <2>2 DEF Verification
<1>3. CASE checks[c] \in Opening
  <2>1. CASE checks[c].from = "pin"
    <3>1. Leave[c] = [checks[c] EXCEPT !.from = "away"] /\ checks[c] # Nil
      BY <1>3, <2>1, Sentinel DEF Leave, UnderWay
    <3>2. Leave[c] \in Opening /\ Leave[c].from = "away"
      BY <1>3, <3>1 DEF Opening
    <3> QED BY <2>1, <3>1, <3>2, Sentinel
  <2>2. CASE checks[c].from \in {"away", "phrase"}
    <3>1. Leave[c] = checks[c]
      BY <2>2 DEF Leave, UnderWay
    <3> QED BY <2>2, <3>1
  <2> QED BY <1>3, <2>1, <2>2 DEF Opening
<1> QED BY <1>1, <1>2, <1>3 DEF TFTypeOK

LEMMA GoToType ==
  ASSUME NEW s \in {"pin", "public", "home"}, NEW open, GoTo(s, open)
  PROVE  /\ screen' \in {"pin", "totp", "public", "home"}
         /\ attempts' \in 0 .. MaxAttempts
         /\ setup' \in Dialog
  BY Bounds, ClosedType DEF GoTo

LEMMA CodesType == \A n \in Batch : GenerateBackupCodes(n) \subseteq BackupCode
  BY DEF GenerateBackupCodes, BackupCode

(* Every step keeps the types. *)
LEMMA TFTypeStep ==
  ASSUME TFTypeOK, PinIsAsked, [TFNext]_tfVars
  PROVE  TFTypeOK'
<1> USE TwoFactorConstants, Sentinel DEF TFTypeOK, State, Verification, SetupStep,
    Opening, Batch, BackupCode, Typed
<1>1. ASSUME NEW c \in Checker, NEW code \in Typed, SubmitTotp(c, code)
      PROVE  TFTypeOK'
  BY <1>1 DEF SubmitTotp, CodeScreen, BeginVerify, Enabled2FA, VerifyTOTP, unlockVars
<1>2. ASSUME NEW c \in Checker, NEW code \in Typed, SubmitSetup(c, code)
      PROVE  TFTypeOK'
  <2>1. twoFactor \in State
    BY <1>2 DEF SubmitSetup, BeginVerify, Enabled2FA
  <2>2. [from |-> "setup", loaded |-> twoFactor, valid |-> VerifyTOTP(twoFactor.secret, code)]
          \in Verification
    BY <2>1 DEF VerifyTOTP
  <2>3. setup' \in Dialog
    BY <1>2 DEF SubmitSetup, Dialog
  <2> QED BY <1>2, <2>2, <2>3 DEF SubmitSetup, BeginVerify, unlockVars, Dialog
<1>3. ASSUME NEW c \in Checker, FinishTotpUnlock(c)
      PROVE  TFTypeOK'
  <2>1. checks[c].loaded \in State
    BY <1>3, CallTypes DEF FinishTotpUnlock, UnderWay, IsVerification
  <2>2. checks' \in Calls
    BY <1>3, LeaveType DEF FinishTotpUnlock, Calls
  <2>3. setup' \in Dialog
    BY <1>3, GoToType DEF FinishTotpUnlock, Success, Dialog
  <2>4. attempts' \in 0 .. MaxAttempts /\ screen' \in {"pin", "totp", "public", "home"}
    BY <1>3, GoToType DEF FinishTotpUnlock, Success
  <2>5. twoFactor' \in State \cup {Nil} /\ UNCHANGED <<batches, unlocked, used>>
    BY <1>3, <2>1 DEF FinishTotpUnlock, WriteBack
  <2>6. CASE Accepts(c)
    <3>1. overwritten' \in BOOLEAN /\ factor' \in BOOLEAN /\ astray' \in BOOLEAN
      BY <1>3, <2>6, Zenon DEF FinishTotpUnlock, WriteBack, Success
    <3> QED BY <2>2, <2>3, <2>4, <2>5, <3>1 DEF Calls, Dialog
  <2>7. CASE ~Accepts(c)
    <3>1. UNCHANGED <<overwritten, factor, astray>>
      BY <1>3, <2>7 DEF FinishTotpUnlock
    <3> QED BY <2>2, <2>3, <2>4, <2>5, <3>1 DEF Calls, Dialog
  <2> QED BY <2>6, <2>7
<1>4. ASSUME NEW c \in Checker, FinishSetup(c)
      PROVE  TFTypeOK'
  <2>1. checks[c].loaded \in State
    BY <1>4, CallTypes DEF FinishSetup, UnderWay, IsVerification
  <2>2. setup' \in Dialog
    BY <1>4 DEF FinishSetup, Dialog
  <2> QED BY <1>4, <2>1, <2>2 DEF FinishSetup, WriteBack, UnderWay, Accepts, unlockVars, Dialog
<1>5. ASSUME NEW code \in BackupCode, SubmitBackupCode(code)
      PROVE  TFTypeOK'
  <2>1. checks' \in Calls
    BY <1>5, LeaveType DEF SubmitBackupCode, Calls
  <2>2. /\ attempts' \in 0 .. MaxAttempts
        /\ screen' \in {"pin", "totp", "public", "home"}
        /\ setup' \in Dialog
    BY <1>5, GoToType DEF SubmitBackupCode, Success
  <2>3. twoFactor' \in State
    BY <1>5 DEF SubmitBackupCode, Enabled2FA, Spend
  <2>4. used' \in [once: SUBSET BackupCode, again: SUBSET BackupCode]
    BY <1>5 DEF SubmitBackupCode
  <2>5. UNCHANGED <<batches, unlocked, overwritten>> /\ factor' = unlocked /\ astray' = FALSE
    BY <1>5 DEF SubmitBackupCode, Success
  <2> QED BY <2>1, <2>2, <2>3, <2>4, <2>5 DEF Calls, Dialog
<1>6. ASSUME NEW c \in Checker, NEW valid \in BOOLEAN, SubmitPin(c, valid)
      PROVE  TFTypeOK'
  BY <1>6 DEF SubmitPin, UnderWay, IsLocked, unlockVars
<1>7. ASSUME NEW c \in Checker, FinishPin(c)
      PROVE  TFTypeOK'
  <2>1. UNCHANGED <<twoFactor, batches, used, overwritten>>
    BY <1>7 DEF FinishPin
  <2>2. CASE WrongPin(c)
    <3>1. attempts' \in 0 .. MaxAttempts
      BY <1>7, <2>2, Bounds DEF FinishPin, WrongPin, PinIsAsked, UnderWay, IsLocked
    <3>2. UNCHANGED <<screen, unlocked, setup, factor, astray>>
      BY <2>2 DEF WrongPin
    <3>3. checks' \in Calls
      BY <2>2 DEF WrongPin, Calls
    <3> QED BY <2>1, <3>1, <3>2, <3>3 DEF Calls, Dialog
  <2>3. CASE RightPin(c)
    <3>1. /\ attempts' \in 0 .. MaxAttempts
          /\ screen' \in {"pin", "totp", "public", "home"}
          /\ setup' \in Dialog
      BY <2>3, GoToType DEF RightPin, Dialog
    <3>2. checks' \in Calls
      BY <2>3, LeaveType DEF RightPin, Calls
    <3>3. {unlocked', factor', astray'} \subseteq BOOLEAN
      BY <2>3, Zenon DEF RightPin
    <3> QED BY <2>1, <3>1, <3>2, <3>3 DEF Calls, Dialog
  <2> QED BY <1>7, <2>2, <2>3 DEF FinishPin
<1>8. CASE CancelTotp
  BY <1>8 DEF CancelTotp, CodeScreen
<1>9. CASE OpenSetup
  <2>1. setup' \in Dialog
    BY <1>9, ClosedType DEF OpenSetup, Dialog
  <2> QED BY <1>9, <2>1 DEF OpenSetup, unlockVars, Dialog
<1>10. CASE StartSetup
  <2>1. batches + 1 \in Batch /\ batches' \in 0 .. MaxBatches
    BY <1>10, Bounds DEF StartSetup
  <2>2. GenerateBackupCodes(batches + 1) \subseteq BackupCode
    BY <2>1, CodesType
  <2>3. twoFactor' \in State
    BY <1>10, <2>1, <2>2 DEF StartSetup, EnabledState
  <2>4. setup' \in Dialog
    BY <1>10, <2>1, <2>2 DEF StartSetup, Dialog
  <2> QED BY <1>10, <2>1, <2>3, <2>4 DEF StartSetup, unlockVars, Dialog
<1>11. CASE Turn
  BY <1>11 DEF Turn, SetStep, unlockVars
<1>12. CASE RegenerateBackupCodes
  BY <1>12 DEF RegenerateBackupCodes, Manage, Enabled2FA, GenerateBackupCodes, unlockVars
<1>13. CASE Disable
  BY <1>13 DEF Disable, Manage, Closed, Leave, UnderWay, unlockVars
<1>14. CASE CloseSetup
  BY <1>14 DEF CloseSetup, Closed, Leave, UnderWay, unlockVars
<1>15. CASE LockWallet
  <2>1. checks' \in Calls
    BY <1>15, LeaveType DEF LockWallet, Calls
  <2>2. setup' \in Dialog
    BY <1>15, ClosedType DEF LockWallet
  <2>3. screen' \in {"pin", "totp", "public", "home"}
    BY <1>15 DEF LockWallet
  <2>4. attempts' \in 0 .. MaxAttempts
    BY <1>15, Bounds DEF LockWallet
  <2>5. {unlocked', overwritten', factor', astray'} \subseteq BOOLEAN
    BY <1>15, Zenon DEF LockWallet
  <2>6. UNCHANGED <<twoFactor, batches, used>>
    BY <1>15 DEF LockWallet
  <2> QED BY <2>1, <2>2, <2>3, <2>4, <2>5, <2>6 DEF Calls, Dialog
<1>16. CASE ReloadPage
  <2>1. setup' \in Dialog
    BY <1>16, ClosedType DEF ReloadPage
  <2>2. screen' \in {"pin", "totp", "public", "home"}
    BY <1>16 DEF ReloadPage
  <2>3. attempts' \in 0 .. MaxAttempts
    BY <1>16, Bounds DEF ReloadPage
  <2>4. {unlocked', overwritten', factor', astray'} \subseteq BOOLEAN
    BY <1>16, Zenon DEF ReloadPage
  <2>5. UNCHANGED <<twoFactor, batches, used>>
    BY <1>16 DEF ReloadPage
  <2>6. checks' \in Calls
    BY <1>16 DEF ReloadPage, Calls
  <2> QED BY <2>1, <2>2, <2>3, <2>4, <2>5, <2>6 DEF Calls, Dialog
<1>17. CASE UNCHANGED tfVars
  BY <1>17 DEF tfVars
<1>18. ASSUME NEW c \in Checker, NEW valid \in BOOLEAN, BeginPhrase(c, valid)
      PROVE  TFTypeOK'
  BY <1>18 DEF BeginPhrase, UnderWay, unlockVars
<1>19. ASSUME NEW c \in Checker, FinishPhrase(c)
      PROVE  TFTypeOK'
  <2>1. /\ attempts' \in 0 .. MaxAttempts
        /\ screen' \in {"pin", "totp", "public", "home"}
        /\ setup' \in Dialog
    BY <1>19, GoToType DEF FinishPhrase, Dialog
  <2>2. checks' \in Calls
    BY <1>19, LeaveType DEF FinishPhrase, Calls
  <2>3. {unlocked', factor', astray'} \subseteq BOOLEAN
    BY <1>19, Zenon DEF FinishPhrase
  <2>4. UNCHANGED <<twoFactor, batches, used, overwritten>>
    BY <1>19 DEF FinishPhrase
  <2> QED BY <2>1, <2>2, <2>3, <2>4 DEF Calls, Dialog
<1>20. ASSUME NEW s \in {"pin", "public", "home"}, Visit(s)
      PROVE  TFTypeOK'
  BY <1>20 DEF Visit, GoTo, Leave, Closed, UnderWay
<1> QED
  BY <1>1, <1>2, <1>3, <1>4, <1>5, <1>6, <1>7, <1>8, <1>9,
     <1>10, <1>11, <1>12, <1>13, <1>14, <1>15, <1>16, <1>17, <1>18, <1>19, <1>20 DEF TFNext

(* Verifications under way are those that were, with what they read. *)
SameReads ==
  \A c \in Checker : IsVerification(c)' =>
    IsVerification(c) /\ checks'[c].loaded = checks[c].loaded

LEMMA LeaveReads ==
  ASSUME TFTypeOK, \A c \in Checker : checks'[c] # Nil => checks'[c] = Leave[c]
  PROVE  SameReads
<1> SUFFICES ASSUME NEW c \in Checker, IsVerification(c)'
             PROVE  IsVerification(c) /\ checks'[c].loaded = checks[c].loaded
  BY DEF SameReads
<1> QED BY LeaveFacts DEF IsVerification

LEMMA SpentKept ==
  ASSUME SpentCodesGone, SameReads, UNCHANGED <<twoFactor, batches, used, overwritten>>
  PROVE  SpentCodesGone'
  BY DEF SpentCodesGone, SameReads, GivenOut

(* No step brings a spent code back, except a late verification. *)
LEMMA SpentStep ==
  ASSUME TFTypeOK, SpentCodesGone, [TFNext]_tfVars
  PROVE  SpentCodesGone'
<1> USE TwoFactorConstants, Sentinel DEF TFTypeOK, State, Verification, SetupStep,
    Opening, Batch, BackupCode, Typed,
    SpentCodesGone, GivenOut, IsVerification
<1>1. ASSUME NEW c \in Checker, NEW code \in Typed, SubmitTotp(c, code)
      PROVE  SpentCodesGone'
  BY <1>1 DEF SubmitTotp, CodeScreen, BeginVerify, Enabled2FA, VerifyTOTP, unlockVars
<1>2. ASSUME NEW c \in Checker, NEW code \in Typed, SubmitSetup(c, code)
      PROVE  SpentCodesGone'
  BY <1>2 DEF SubmitSetup, BeginVerify, Enabled2FA, VerifyTOTP, unlockVars
<1>3. ASSUME NEW c \in Checker, FinishTotpUnlock(c)
      PROVE  SpentCodesGone'
  <2>1. SameReads
    <3>1. CASE Accepts(c)
      <4>1. \A d \in Checker : checks'[d] # Nil => checks'[d] = Leave[d]
        BY <1>3, <3>1 DEF FinishTotpUnlock, Leave
      <4> QED BY <4>1, LeaveReads
    <3>2. CASE ~Accepts(c)
      BY <1>3, <3>2 DEF FinishTotpUnlock, SameReads
    <3> QED BY <3>1, <3>2
  <2>2. UNCHANGED <<batches, used>>
    BY <1>3 DEF FinishTotpUnlock
  <2>3. GivenOut(checks[c].loaded.codes)
    BY <1>3 DEF FinishTotpUnlock, UnderWay
  <2>4. CASE Accepts(c)
    <3>1. twoFactor' = checks[c].loaded
      BY <1>3, <2>4 DEF FinishTotpUnlock, WriteBack
    <3>2. ~overwritten' => twoFactor' = twoFactor /\ ~overwritten
      BY <1>3, <2>4 DEF FinishTotpUnlock, WriteBack
    <3> QED BY <2>1, <2>2, <2>3, <3>1, <3>2 DEF SameReads
  <2>5. CASE ~Accepts(c)
    <3>1. UNCHANGED <<twoFactor, overwritten>>
      BY <1>3, <2>5 DEF FinishTotpUnlock
    <3> QED BY <2>1, <2>2, <3>1, SpentKept
  <2> QED BY <2>4, <2>5
<1>4. ASSUME NEW c \in Checker, FinishSetup(c)
      PROVE  SpentCodesGone'
  BY <1>4 DEF FinishSetup, WriteBack, UnderWay, Accepts, unlockVars
<1>5. ASSUME NEW code \in BackupCode, SubmitBackupCode(code)
      PROVE  SpentCodesGone'
  BY <1>5 DEF SubmitBackupCode, CodeScreen, Enabled2FA, Spend, Success, GoTo, Leave, UnderWay, Closed
<1>6. ASSUME NEW c \in Checker, NEW valid \in BOOLEAN, SubmitPin(c, valid)
      PROVE  SpentCodesGone'
  BY <1>6 DEF SubmitPin, UnderWay, IsLocked, unlockVars
<1>7. ASSUME NEW c \in Checker, FinishPin(c) \/ FinishPhrase(c)
      PROVE  SpentCodesGone'
  <2>1. UNCHANGED <<twoFactor, batches, used, overwritten>>
    BY <1>7 DEF FinishPin, FinishPhrase
  <2>2. CASE checks' = [checks EXCEPT ![c] = Nil]
    <3>1. SameReads
      BY <2>2 DEF SameReads
    <3> QED BY <2>1, <3>1, SpentKept
  <2>3. CASE checks' = [Leave EXCEPT ![c] = Nil]
    <3>1. \A d \in Checker : checks'[d] # Nil => checks'[d] = Leave[d]
      BY <2>3 DEF Leave
    <3>2. SameReads
      BY <3>1, LeaveReads
    <3> QED BY <2>1, <3>2, SpentKept
  <2> QED BY <1>7, <2>2, <2>3 DEF FinishPin, WrongPin, RightPin, FinishPhrase
<1>8. CASE CancelTotp
  BY <1>8 DEF CancelTotp, CodeScreen
<1>9. CASE OpenSetup
  BY <1>9 DEF OpenSetup, Enabled2FA, Closed, unlockVars
<1>10. CASE StartSetup
  BY <1>10 DEF StartSetup, Intro, EnabledState, GenerateBackupCodes, unlockVars
<1>11. CASE Turn
  BY <1>11 DEF Turn, SetStep, unlockVars
<1>12. CASE RegenerateBackupCodes
  BY <1>12 DEF RegenerateBackupCodes, Manage, Enabled2FA, GenerateBackupCodes, unlockVars
<1>13. CASE Disable
  BY <1>13 DEF Disable, Manage, Closed, Leave, UnderWay, unlockVars
<1>14. CASE CloseSetup
  BY <1>14 DEF CloseSetup, Closed, Leave, UnderWay, unlockVars
<1>15. CASE LockWallet
  BY <1>15 DEF LockWallet, Closed, Leave, UnderWay
<1>16. CASE ReloadPage
  BY <1>16 DEF ReloadPage, Closed
<1>17. CASE UNCHANGED tfVars
  BY <1>17 DEF tfVars
<1>18. ASSUME NEW c \in Checker, NEW valid \in BOOLEAN, BeginPhrase(c, valid)
      PROVE  SpentCodesGone'
  BY <1>18 DEF BeginPhrase, UnderWay, unlockVars
<1>19. ASSUME NEW s \in {"pin", "public", "home"}, Visit(s)
      PROVE  SpentCodesGone'
  BY <1>19 DEF Visit, GoTo, Leave, Closed, UnderWay
<1> QED
  BY <1>1, <1>2, <1>3, <1>4, <1>5, <1>6, <1>7, <1>8, <1>9,
     <1>10, <1>11, <1>12, <1>13, <1>14, <1>15, <1>16, <1>17, <1>18, <1>19 DEF TFNext

(* The dialog and its verifications go together. *)
LEMMA DialogKept ==
  ASSUME DialogIsOpen, UNCHANGED setup, setup.step = "closed" \/ screen' = screen,
         \A c \in Checker : UnderWay(c, "setup")' => UnderWay(c, "setup")
  PROVE  DialogIsOpen'
  BY DEF DialogIsOpen

LEMMA DialogGone ==
  ASSUME TFTypeOK, setup' = Closed,
         \A c \in Checker : checks'[c] # Nil => checks'[c] = Leave[c]
  PROVE  DialogIsOpen'
  BY LeaveFacts DEF DialogIsOpen, UnderWay, Closed

LEMMA DialogStep ==
  ASSUME TFTypeOK, DialogIsOpen, PinIsAsked, [TFNext]_tfVars
  PROVE  DialogIsOpen'
<1>t. checks \in Calls /\ setup \in Dialog
  BY DEF TFTypeOK, Calls, Dialog
<1>1. ASSUME NEW c \in Checker, NEW code \in Typed, SubmitTotp(c, code)
      PROVE  DialogIsOpen'
  <2>1. UNCHANGED <<screen, setup>>
    BY <1>1 DEF SubmitTotp, BeginVerify, unlockVars
  <2>2. \A d \in Checker : UnderWay(d, "setup")' => UnderWay(d, "setup")
    BY <1>1, <1>t DEF SubmitTotp, BeginVerify, UnderWay, Calls
  <2> QED BY <2>1, <2>2, DialogKept
<1>2. ASSUME NEW c \in Checker, NEW code \in Typed, SubmitSetup(c, code)
      PROVE  DialogIsOpen'
  <2>1. UNCHANGED screen /\ setup.step = "verify" /\ setup'.step = "verify"
    BY <1>2, <1>t DEF SubmitSetup, BeginVerify, unlockVars, Dialog
  <2> QED BY <2>1 DEF DialogIsOpen, Shown
<1>3. ASSUME NEW c \in Checker, FinishTotpUnlock(c)
      PROVE  DialogIsOpen'
  <2>1. CASE Accepts(c)
    <3>1. \A d \in Checker : checks'[d] # Nil => checks'[d] = Leave[d]
      BY <1>3, <2>1 DEF FinishTotpUnlock, Leave
    <3>2. setup' = Closed
      BY <1>3, <2>1 DEF FinishTotpUnlock, Success, GoTo
    <3> QED BY <3>1, <3>2, DialogGone
  <2>2. CASE ~Accepts(c)
    <3>1. UNCHANGED <<screen, setup>>
      BY <1>3, <2>2 DEF FinishTotpUnlock
    <3>2. \A d \in Checker : UnderWay(d, "setup")' => UnderWay(d, "setup")
      BY <1>3, <2>2, <1>t DEF FinishTotpUnlock, UnderWay, Calls
    <3> QED BY <3>1, <3>2, DialogKept
  <2> QED BY <2>1, <2>2
<1>4. ASSUME NEW c \in Checker, FinishSetup(c)
      PROVE  DialogIsOpen'
  <2>1. UNCHANGED screen
    BY <1>4 DEF FinishSetup, unlockVars
  <2>2. \A d \in Checker : UnderWay(d, "setup")' => UnderWay(d, "setup")
    BY <1>4, <1>t DEF FinishSetup, UnderWay, Calls
  <2>3. CASE checks[c].from = "left"
    <3>1. UNCHANGED setup
      BY <1>4, <2>3 DEF FinishSetup
    <3> QED BY <2>1, <2>2, <3>1, DialogKept
  <2>4. CASE checks[c].from = "setup"
    <3>1. setup.step \in Shown
      BY <1>4, <2>4 DEF FinishSetup, DialogIsOpen, UnderWay
    <3>2. setup'.step \in Shown
      BY <1>4, <2>4, <1>t, <3>1 DEF FinishSetup, Dialog, Shown
    <3> QED BY <2>1, <3>1, <3>2 DEF DialogIsOpen, Shown
  <2> QED BY <1>4, <2>3, <2>4 DEF FinishSetup, UnderWay
<1>5. ASSUME NEW c \in Checker, FinishPin(c)
      PROVE  DialogIsOpen'
  <2>1. CASE WrongPin(c) \/ (RightPin(c) /\ AsksForCode)
    <3>1. UNCHANGED setup /\ checks' = [checks EXCEPT ![c] = Nil]
      BY <2>1 DEF WrongPin, RightPin
    <3>2. \A d \in Checker : UnderWay(d, "setup")' => UnderWay(d, "setup")
      BY <1>t, <3>1 DEF UnderWay, Calls
    <3>3. setup.step = "closed" \/ screen' = screen
      <4>1. CASE checks[c].from = "pin"
        BY <1>5, <4>1 DEF FinishPin, PinIsAsked, DialogIsOpen, UnderWay
      <4>2. CASE checks[c].from # "pin"
        BY <2>1, <4>2 DEF WrongPin, RightPin
      <4> QED BY <4>1, <4>2
    <3> QED BY <3>1, <3>2, <3>3, DialogKept
  <2>2. CASE RightPin(c) /\ ~AsksForCode
    <3>1. \A d \in Checker : checks'[d] # Nil => checks'[d] = Leave[d]
      BY <2>2 DEF RightPin, Leave
    <3>2. setup' = Closed
      BY <2>2 DEF RightPin, GoTo
    <3> QED BY <3>1, <3>2, DialogGone
  <2> QED BY <1>5, <2>1, <2>2 DEF FinishPin
<1>6. ASSUME NEW c \in Checker, FinishPhrase(c)
      PROVE  DialogIsOpen'
  <2>1. CASE GoTo("home", TRUE) /\ checks' = [Leave EXCEPT ![c] = Nil]
    <3>1. \A d \in Checker : checks'[d] # Nil => checks'[d] = Leave[d]
      BY <2>1 DEF Leave
    <3> QED BY <2>1, <3>1, DialogGone DEF GoTo
  <2>2. CASE checks' = [checks EXCEPT ![c] = Nil] /\ UNCHANGED <<screen, setup>>
    <3>1. \A d \in Checker : UnderWay(d, "setup")' => UnderWay(d, "setup")
      BY <1>t, <2>2 DEF UnderWay, Calls
    <3> QED BY <2>2, <3>1, DialogKept
  <2> QED BY <1>6, <2>1, <2>2 DEF FinishPhrase
<1>7. ASSUME NEW c \in Checker, NEW valid \in BOOLEAN,
             SubmitPin(c, valid) \/ BeginPhrase(c, valid)
      PROVE  DialogIsOpen'
  <2>1. UNCHANGED <<screen, setup>>
    BY <1>7 DEF SubmitPin, BeginPhrase, unlockVars
  <2>2. \A d \in Checker : UnderWay(d, "setup")' => UnderWay(d, "setup")
    BY <1>7, <1>t DEF SubmitPin, BeginPhrase, UnderWay, Calls
  <2> QED BY <2>1, <2>2, DialogKept
<1>8. ASSUME NEW code \in BackupCode, SubmitBackupCode(code)
      PROVE  DialogIsOpen'
  BY <1>8, DialogGone DEF SubmitBackupCode, Success, GoTo
<1>9. ASSUME NEW s \in {"pin", "public", "home"}, Visit(s)
      PROVE  DialogIsOpen'
  BY <1>9, DialogGone DEF Visit, GoTo
<1>10. CASE CancelTotp
  <2>1. setup.step = "closed" /\ UNCHANGED <<setup, checks>>
    BY <1>10 DEF CancelTotp, CodeScreen, DialogIsOpen
  <2> QED BY <2>1, DialogKept DEF UnderWay
<1>11. CASE OpenSetup
  <2>1. screen = "home" /\ UNCHANGED <<screen, checks>> /\ setup.step = "closed"
    BY <1>11 DEF OpenSetup, unlockVars
  <2> QED BY <2>1 DEF DialogIsOpen, UnderWay, Shown
<1>12. CASE StartSetup
  <2>1. setup'.step = "scan" /\ UNCHANGED <<screen, checks>> /\ setup.step = "intro"
    BY <1>12, <1>t DEF StartSetup, Intro, unlockVars, Dialog
  <2> QED BY <2>1 DEF DialogIsOpen, UnderWay, Shown
<1>13. CASE Turn
  <2>1. setup'.step \in Shown /\ UNCHANGED <<screen, checks>> /\ setup.step \in Shown
    BY <1>13, <1>t DEF Turn, SetStep, unlockVars, Dialog, Shown
  <2> QED BY <2>1 DEF DialogIsOpen, UnderWay, Shown
<1>14. CASE RegenerateBackupCodes
  <2>1. setup'.step = setup.step /\ UNCHANGED <<screen, checks>>
    BY <1>14, <1>t DEF RegenerateBackupCodes, unlockVars, Dialog
  <2> QED BY <2>1 DEF DialogIsOpen, UnderWay
<1>15. CASE Disable \/ CloseSetup
  BY <1>15, DialogGone DEF Disable, CloseSetup
<1>16. CASE LockWallet
  <2>1. CASE screen = "home"
    BY <1>16, <2>1, DialogGone DEF LockWallet
  <2>2. CASE screen # "home"
    <3>1. setup.step = "closed" /\ setup' = Closed /\ UNCHANGED checks
      BY <1>16, <2>2 DEF LockWallet, DialogIsOpen
    <3> QED BY <3>1 DEF DialogIsOpen, UnderWay, Shown, Closed
  <2> QED BY <2>1, <2>2
<1>17. CASE ReloadPage
  BY <1>17, DialogGone DEF ReloadPage
<1>18. CASE UNCHANGED tfVars
  <2>1. UNCHANGED <<screen, setup, checks>>
    BY <1>18 DEF tfVars
  <2> QED BY <2>1, DialogKept DEF UnderWay
<1> QED
  BY <1>1, <1>2, <1>3, <1>4, <1>5, <1>6, <1>7, <1>8, <1>9, <1>10,
     <1>11, <1>12, <1>13, <1>14, <1>15, <1>16, <1>17, <1>18 DEF TFNext

(* The PIN input is gone while its PIN is checked, and the check is not its *)
(* screen's any more once that was left.                                    *)
LEMMA PinKept ==
  ASSUME PinIsAsked, UNCHANGED <<screen, attempts>>,
         \A c \in Checker : UnderWay(c, "pin")' => UnderWay(c, "pin")
  PROVE  PinIsAsked'
  BY DEF PinIsAsked, IsLocked

LEMMA PinGone ==
  ASSUME \A c \in Checker : ~UnderWay(c, "pin")'
  PROVE  PinIsAsked'
  BY DEF PinIsAsked

LEMMA LeftNoPin ==
  ASSUME TFTypeOK, \A c \in Checker : checks'[c] # Nil => checks'[c] = Leave[c]
  PROVE  PinIsAsked'
  BY PinGone, LeaveFacts DEF UnderWay

LEMMA PinStep ==
  ASSUME TFTypeOK, PinIsAsked, [TFNext]_tfVars
  PROVE  PinIsAsked'
<1>t. checks \in Calls
  BY DEF TFTypeOK, Calls
<1>1. ASSUME NEW c \in Checker, NEW code \in Typed,
             SubmitTotp(c, code) \/ SubmitSetup(c, code)
      PROVE  PinIsAsked'
  <2>1. UNCHANGED <<screen, attempts>>
    BY <1>1 DEF SubmitTotp, SubmitSetup, BeginVerify, unlockVars
  <2>2. \A d \in Checker : UnderWay(d, "pin")' => UnderWay(d, "pin")
    BY <1>1, <1>t DEF SubmitTotp, SubmitSetup, BeginVerify, UnderWay, Calls
  <2> QED BY <2>1, <2>2, PinKept
<1>2. ASSUME NEW c \in Checker, FinishTotpUnlock(c)
      PROVE  PinIsAsked'
  <2>1. CASE Accepts(c)
    <3>1. \A d \in Checker : checks'[d] # Nil => checks'[d] = Leave[d]
      BY <1>2, <2>1 DEF FinishTotpUnlock, Leave
    <3> QED BY <3>1, LeftNoPin
  <2>2. CASE ~Accepts(c)
    <3>1. UNCHANGED <<screen, attempts>>
      BY <1>2, <2>2 DEF FinishTotpUnlock
    <3>2. \A d \in Checker : UnderWay(d, "pin")' => UnderWay(d, "pin")
      BY <1>2, <2>2, <1>t DEF FinishTotpUnlock, UnderWay, Calls
    <3> QED BY <3>1, <3>2, PinKept
  <2> QED BY <2>1, <2>2
<1>3. ASSUME NEW c \in Checker, FinishSetup(c)
      PROVE  PinIsAsked'
  <2>1. UNCHANGED <<screen, attempts>>
    BY <1>3 DEF FinishSetup, unlockVars
  <2>2. \A d \in Checker : UnderWay(d, "pin")' => UnderWay(d, "pin")
    BY <1>3, <1>t DEF FinishSetup, UnderWay, Calls
  <2> QED BY <2>1, <2>2, PinKept
<1>4. ASSUME NEW c \in Checker, FinishPin(c)
      PROVE  PinIsAsked'
  <2>1. CASE WrongPin(c) \/ (RightPin(c) /\ AsksForCode)
    <3>1. checks' = [checks EXCEPT ![c] = Nil]
      BY <2>1 DEF WrongPin, RightPin
    <3>2. CASE checks[c].from = "pin"
      <4>1. \A d \in Checker : ~UnderWay(d, "pin")'
        BY <1>4, <1>t, <3>1, <3>2 DEF FinishPin, PinIsAsked, UnderWay, Calls
      <4> QED BY <4>1, PinGone
    <3>3. CASE checks[c].from # "pin"
      <4>1. UNCHANGED <<screen, attempts>>
        BY <2>1, <3>3 DEF WrongPin, RightPin
      <4>2. \A d \in Checker : UnderWay(d, "pin")' => UnderWay(d, "pin")
        BY <1>t, <3>1 DEF UnderWay, Calls
      <4> QED BY <4>1, <4>2, PinKept
    <3> QED BY <3>2, <3>3
  <2>2. CASE RightPin(c) /\ ~AsksForCode
    <3>1. \A d \in Checker : checks'[d] # Nil => checks'[d] = Leave[d]
      BY <2>2 DEF RightPin, Leave
    <3> QED BY <3>1, LeftNoPin
  <2> QED BY <1>4, <2>1, <2>2 DEF FinishPin
<1>5. ASSUME NEW c \in Checker, FinishPhrase(c)
      PROVE  PinIsAsked'
  <2>1. CASE checks' = [Leave EXCEPT ![c] = Nil]
    <3>1. \A d \in Checker : checks'[d] # Nil => checks'[d] = Leave[d]
      BY <2>1 DEF Leave
    <3> QED BY <3>1, LeftNoPin
  <2>2. CASE checks' = [checks EXCEPT ![c] = Nil] /\ UNCHANGED <<screen, attempts>>
    <3>1. \A d \in Checker : UnderWay(d, "pin")' => UnderWay(d, "pin")
      BY <1>t, <2>2 DEF UnderWay, Calls
    <3> QED BY <2>2, <3>1, PinKept
  <2> QED BY <1>5, <2>1, <2>2 DEF FinishPhrase
<1>6. ASSUME NEW c \in Checker, NEW valid \in BOOLEAN, SubmitPin(c, valid)
      PROVE  PinIsAsked'
  <2>1. \A d \in Checker : UnderWay(d, "pin")' => d = c
    BY <1>6, <1>t DEF SubmitPin, UnderWay, Calls
  <2>2. screen' = "pin" /\ ~IsLocked'
    BY <1>6 DEF SubmitPin, IsLocked, unlockVars
  <2> QED BY <2>1, <2>2 DEF PinIsAsked
<1>7. ASSUME NEW c \in Checker, NEW valid \in BOOLEAN, BeginPhrase(c, valid)
      PROVE  PinIsAsked'
  <2>1. UNCHANGED <<screen, attempts>>
    BY <1>7 DEF BeginPhrase, unlockVars
  <2>2. \A d \in Checker : UnderWay(d, "pin")' => UnderWay(d, "pin")
    BY <1>7, <1>t DEF BeginPhrase, UnderWay, Calls
  <2> QED BY <2>1, <2>2, PinKept
<1>8. ASSUME NEW code \in BackupCode, SubmitBackupCode(code)
      PROVE  PinIsAsked'
  BY <1>8, LeftNoPin DEF SubmitBackupCode
<1>9. ASSUME NEW s \in {"pin", "public", "home"}, Visit(s)
      PROVE  PinIsAsked'
  BY <1>9, LeftNoPin DEF Visit
<1>10. CASE CancelTotp
  <2>1. \A d \in Checker : ~UnderWay(d, "pin")'
    BY <1>10 DEF CancelTotp, CodeScreen, PinIsAsked, UnderWay
  <2> QED BY <2>1, PinGone
<1>11. CASE OpenSetup \/ StartSetup \/ Turn \/ RegenerateBackupCodes
  <2>1. UNCHANGED <<screen, attempts, checks>>
    BY <1>11 DEF OpenSetup, StartSetup, Turn, RegenerateBackupCodes, unlockVars
  <2> QED BY <2>1, PinKept DEF UnderWay
<1>12. CASE Disable \/ CloseSetup
  BY <1>12, LeftNoPin DEF Disable, CloseSetup
<1>13. CASE LockWallet
  <2>1. CASE screen = "home"
    BY <1>13, <2>1, LeftNoPin DEF LockWallet
  <2>2. CASE screen # "home"
    <3>1. UNCHANGED <<screen, attempts, checks>>
      BY <1>13, <2>2 DEF LockWallet
    <3> QED BY <3>1, PinKept DEF UnderWay
  <2> QED BY <2>1, <2>2
<1>14. CASE ReloadPage
  <2>1. \A d \in Checker : ~UnderWay(d, "pin")'
    BY <1>14 DEF ReloadPage, UnderWay
  <2> QED BY <2>1, PinGone
<1>15. CASE UNCHANGED tfVars
  <2>1. UNCHANGED <<screen, attempts, checks>>
    BY <1>15 DEF tfVars
  <2> QED BY <2>1, PinKept DEF UnderWay
<1> QED
  BY <1>1, <1>2, <1>3, <1>4, <1>5, <1>6, <1>7, <1>8, <1>9,
     <1>10, <1>11, <1>12, <1>13, <1>14, <1>15 DEF TFNext

(* Spending a code that was spent before takes a late verification. *)
LEMMA OnceStep ==
  ASSUME TFTypeOK, SpentCodesGone, BackupCodesOnce, [TFNext]_tfVars
  PROVE  BackupCodesOnce'
<1> USE TwoFactorConstants, Sentinel DEF TFTypeOK, State, Verification, SetupStep,
    Opening, Batch, BackupCode, Typed,
    SpentCodesGone, BackupCodesOnce
<1>1. ASSUME NEW c \in Checker, NEW code \in Typed, SubmitTotp(c, code)
      PROVE  BackupCodesOnce'
  BY <1>1 DEF SubmitTotp, CodeScreen, BeginVerify, Enabled2FA, VerifyTOTP, unlockVars
<1>2. ASSUME NEW c \in Checker, NEW code \in Typed, SubmitSetup(c, code)
      PROVE  BackupCodesOnce'
  BY <1>2 DEF SubmitSetup, BeginVerify, Enabled2FA, VerifyTOTP, unlockVars
<1>3. ASSUME NEW c \in Checker, FinishTotpUnlock(c)
      PROVE  BackupCodesOnce'
  BY <1>3 DEF FinishTotpUnlock, WriteBack, Success, GoTo, Leave, UnderWay, Accepts, Closed
<1>4. ASSUME NEW c \in Checker, FinishSetup(c)
      PROVE  BackupCodesOnce'
  BY <1>4 DEF FinishSetup, WriteBack, UnderWay, Accepts, unlockVars
<1>5. ASSUME NEW code \in BackupCode, SubmitBackupCode(code)
      PROVE  BackupCodesOnce'
  BY <1>5 DEF SubmitBackupCode, CodeScreen, Enabled2FA, Spend, Success, GoTo, Leave, UnderWay, Closed
<1>6. ASSUME NEW c \in Checker, NEW valid \in BOOLEAN, SubmitPin(c, valid)
      PROVE  BackupCodesOnce'
  BY <1>6 DEF SubmitPin, UnderWay, IsLocked, unlockVars
<1>7. ASSUME NEW c \in Checker, FinishPin(c)
      PROVE  BackupCodesOnce'
  <2>1. CASE WrongPin(c)
    BY <1>7, <2>1 DEF FinishPin, WrongPin, UnderWay, Accepts
  <2>2. CASE RightPin(c) /\ AsksForCode
    BY <1>7, <2>2 DEF FinishPin, RightPin, UnderWay, Accepts, AsksForCode, Enabled2FA
  <2>3. CASE RightPin(c) /\ ~AsksForCode
    BY <1>7, <2>3 DEF FinishPin, RightPin, GoTo, Leave, Closed, UnderWay, Accepts, AsksForCode, Enabled2FA
  <2> QED BY <1>7, <2>1, <2>2, <2>3 DEF FinishPin
<1>8. CASE CancelTotp
  BY <1>8 DEF CancelTotp, CodeScreen
<1>9. CASE OpenSetup
  BY <1>9 DEF OpenSetup, Enabled2FA, Closed, unlockVars
<1>10. CASE StartSetup
  BY <1>10 DEF StartSetup, Intro, EnabledState, GenerateBackupCodes, unlockVars
<1>11. CASE Turn
  BY <1>11 DEF Turn, SetStep, unlockVars
<1>12. CASE RegenerateBackupCodes
  BY <1>12 DEF RegenerateBackupCodes, Manage, Enabled2FA, GenerateBackupCodes, unlockVars
<1>13. CASE Disable
  BY <1>13 DEF Disable, Manage, Closed, Leave, UnderWay, unlockVars
<1>14. CASE CloseSetup
  BY <1>14 DEF CloseSetup, Closed, Leave, UnderWay, unlockVars
<1>15. CASE LockWallet
  BY <1>15 DEF LockWallet, Closed, Leave, UnderWay
<1>16. CASE ReloadPage
  BY <1>16 DEF ReloadPage, Closed
<1>17. CASE UNCHANGED tfVars
  BY <1>17 DEF tfVars
<1>18. ASSUME NEW c \in Checker, NEW valid \in BOOLEAN, BeginPhrase(c, valid)
      PROVE  BackupCodesOnce'
  BY <1>18 DEF BeginPhrase, UnderWay, unlockVars
<1>19. ASSUME NEW c \in Checker, FinishPhrase(c)
      PROVE  BackupCodesOnce'
  BY <1>19 DEF FinishPhrase, GoTo, Leave, Closed, UnderWay, Accepts
<1>20. ASSUME NEW s \in {"pin", "public", "home"}, Visit(s)
      PROVE  BackupCodesOnce'
  BY <1>20 DEF Visit, GoTo, Leave, Closed, UnderWay
<1> QED
  BY <1>1, <1>2, <1>3, <1>4, <1>5, <1>6, <1>7, <1>8, <1>9,
     <1>10, <1>11, <1>12, <1>13, <1>14, <1>15, <1>16, <1>17, <1>18, <1>19, <1>20 DEF TFNext

(* A wallet opened by its PIN alone stays at the second step until the user *)
(* leaves the unlock screen.                                                *)
LEMMA FactorStep ==
  ASSUME TFTypeOK, DialogIsOpen, PinIsAsked, SecondFactorAtUnlock, [TFNext]_tfVars
  PROVE  SecondFactorAtUnlock'
<1> USE TwoFactorConstants, Sentinel DEF TFTypeOK, State, Verification, SetupStep,
    Opening, Batch, BackupCode, Typed,
    DialogIsOpen, SecondFactorAtUnlock
<1>1. ASSUME NEW c \in Checker, NEW code \in Typed, SubmitTotp(c, code)
      PROVE  SecondFactorAtUnlock'
  BY <1>1 DEF SubmitTotp, CodeScreen, BeginVerify, Enabled2FA, VerifyTOTP, unlockVars
<1>2. ASSUME NEW c \in Checker, NEW code \in Typed, SubmitSetup(c, code)
      PROVE  SecondFactorAtUnlock'
  BY <1>2 DEF SubmitSetup, BeginVerify, Enabled2FA, VerifyTOTP, unlockVars
<1>3. ASSUME NEW c \in Checker, FinishTotpUnlock(c)
      PROVE  SecondFactorAtUnlock'
  BY <1>3 DEF FinishTotpUnlock, WriteBack, Success, GoTo, Leave, UnderWay, Accepts, Closed
<1>4. ASSUME NEW c \in Checker, FinishSetup(c)
      PROVE  SecondFactorAtUnlock'
  BY <1>4 DEF FinishSetup, WriteBack, UnderWay, Accepts, unlockVars
<1>5. ASSUME NEW code \in BackupCode, SubmitBackupCode(code)
      PROVE  SecondFactorAtUnlock'
  BY <1>5 DEF SubmitBackupCode, CodeScreen, Enabled2FA, Spend, Success, GoTo, Leave, UnderWay, Closed
<1>6. ASSUME NEW c \in Checker, NEW valid \in BOOLEAN, SubmitPin(c, valid)
      PROVE  SecondFactorAtUnlock'
  BY <1>6 DEF SubmitPin, UnderWay, IsLocked, unlockVars
<1>7. ASSUME NEW c \in Checker, FinishPin(c)
      PROVE  SecondFactorAtUnlock'
  <2>1. CASE WrongPin(c)
    BY <1>7, <2>1 DEF FinishPin, WrongPin, UnderWay, Accepts
  <2>2. CASE RightPin(c) /\ AsksForCode
    BY <1>7, <2>2 DEF FinishPin, RightPin, UnderWay, Accepts, AsksForCode, Enabled2FA
  <2>3. CASE RightPin(c) /\ ~AsksForCode
    BY <1>7, <2>3 DEF FinishPin, RightPin, GoTo, Leave, Closed, UnderWay, Accepts, AsksForCode, Enabled2FA
  <2> QED BY <1>7, <2>1, <2>2, <2>3 DEF FinishPin
<1>8. CASE CancelTotp
  BY <1>8 DEF CancelTotp, CodeScreen
<1>9. CASE OpenSetup
  BY <1>9 DEF OpenSetup, Enabled2FA, Closed, unlockVars
<1>10. CASE StartSetup
  BY <1>10 DEF StartSetup, Intro, EnabledState, GenerateBackupCodes, unlockVars
<1>11. CASE Turn
  BY <1>11 DEF Turn, SetStep, unlockVars
<1>12. CASE RegenerateBackupCodes
  BY <1>12 DEF RegenerateBackupCodes, Manage, Enabled2FA, GenerateBackupCodes, unlockVars
<1>13. CASE Disable
  BY <1>13 DEF Disable, Manage, Closed, Leave, UnderWay, unlockVars
<1>14. CASE CloseSetup
  BY <1>14 DEF CloseSetup, Closed, Leave, UnderWay, unlockVars
<1>15. CASE LockWallet
  BY <1>15 DEF LockWallet, Closed, Leave, UnderWay
<1>16. CASE ReloadPage
  BY <1>16 DEF ReloadPage, Closed
<1>17. CASE UNCHANGED tfVars
  BY <1>17 DEF tfVars
<1>18. ASSUME NEW c \in Checker, NEW valid \in BOOLEAN, BeginPhrase(c, valid)
      PROVE  SecondFactorAtUnlock'
  BY <1>18 DEF BeginPhrase, UnderWay, unlockVars
<1>19. ASSUME NEW c \in Checker, FinishPhrase(c)
      PROVE  SecondFactorAtUnlock'
  BY <1>19 DEF FinishPhrase, GoTo, Leave, Closed, UnderWay, Accepts
<1>20. ASSUME NEW s \in {"pin", "public", "home"}, Visit(s)
      PROVE  SecondFactorAtUnlock'
  BY <1>20 DEF Visit, GoTo, Leave, Closed, UnderWay
<1> QED
  BY <1>1, <1>2, <1>3, <1>4, <1>5, <1>6, <1>7, <1>8, <1>9,
     <1>10, <1>11, <1>12, <1>13, <1>14, <1>15, <1>16, <1>17, <1>18, <1>19, <1>20 DEF TFNext

(* The codes shown stay the stored ones while the dialog shows them. *)
LEMMA ShownCodesStep ==
  ASSUME TFTypeOK, DialogIsOpen, ShownCodesWork, [TFNext]_tfVars
  PROVE  ShownCodesWork'
<1> USE TwoFactorConstants, Sentinel DEF TFTypeOK, State, Verification, SetupStep,
    Opening, Batch, BackupCode, Typed,
    DialogIsOpen, Shown, ShownCodesWork
<1>1. ASSUME NEW c \in Checker, NEW code \in Typed, SubmitTotp(c, code)
      PROVE  ShownCodesWork'
  BY <1>1 DEF SubmitTotp, CodeScreen, BeginVerify, Enabled2FA, VerifyTOTP, unlockVars
<1>2. ASSUME NEW c \in Checker, NEW code \in Typed, SubmitSetup(c, code)
      PROVE  ShownCodesWork'
  BY <1>2 DEF SubmitSetup, BeginVerify, Enabled2FA, VerifyTOTP, unlockVars
<1>3. ASSUME NEW c \in Checker, FinishTotpUnlock(c)
      PROVE  ShownCodesWork'
  BY <1>3 DEF FinishTotpUnlock, WriteBack, Success, GoTo, Leave, UnderWay, Accepts, Closed
<1>4. ASSUME NEW c \in Checker, FinishSetup(c)
      PROVE  ShownCodesWork'
  BY <1>4 DEF FinishSetup, WriteBack, UnderWay, Accepts, unlockVars
<1>5. ASSUME NEW code \in BackupCode, SubmitBackupCode(code)
      PROVE  ShownCodesWork'
  BY <1>5 DEF SubmitBackupCode, CodeScreen, Enabled2FA, Spend, Success, GoTo, Leave, UnderWay, Closed
<1>6. ASSUME NEW c \in Checker, NEW valid \in BOOLEAN, SubmitPin(c, valid)
      PROVE  ShownCodesWork'
  BY <1>6 DEF SubmitPin, UnderWay, IsLocked, unlockVars
<1>7. ASSUME NEW c \in Checker, FinishPin(c)
      PROVE  ShownCodesWork'
  <2>1. CASE WrongPin(c)
    BY <1>7, <2>1 DEF FinishPin, WrongPin, UnderWay, Accepts
  <2>2. CASE RightPin(c) /\ AsksForCode
    BY <1>7, <2>2 DEF FinishPin, RightPin, UnderWay, Accepts, AsksForCode, Enabled2FA
  <2>3. CASE RightPin(c) /\ ~AsksForCode
    BY <1>7, <2>3 DEF FinishPin, RightPin, GoTo, Leave, Closed, UnderWay, Accepts, AsksForCode, Enabled2FA
  <2> QED BY <1>7, <2>1, <2>2, <2>3 DEF FinishPin
<1>8. CASE CancelTotp
  BY <1>8 DEF CancelTotp, CodeScreen
<1>9. CASE OpenSetup
  BY <1>9 DEF OpenSetup, Enabled2FA, Closed, unlockVars
<1>10. CASE StartSetup
  BY <1>10 DEF StartSetup, Intro, EnabledState, GenerateBackupCodes, unlockVars
<1>11. CASE Turn
  BY <1>11 DEF Turn, SetStep, unlockVars
<1>12. CASE RegenerateBackupCodes
  BY <1>12 DEF RegenerateBackupCodes, Manage, Enabled2FA, GenerateBackupCodes, unlockVars
<1>13. CASE Disable
  BY <1>13 DEF Disable, Manage, Closed, Leave, UnderWay, unlockVars
<1>14. CASE CloseSetup
  BY <1>14 DEF CloseSetup, Closed, Leave, UnderWay, unlockVars
<1>15. CASE LockWallet
  BY <1>15 DEF LockWallet, Closed, Leave, UnderWay
<1>16. CASE ReloadPage
  BY <1>16 DEF ReloadPage, Closed
<1>17. CASE UNCHANGED tfVars
  BY <1>17 DEF tfVars
<1>18. ASSUME NEW c \in Checker, NEW valid \in BOOLEAN, BeginPhrase(c, valid)
      PROVE  ShownCodesWork'
  BY <1>18 DEF BeginPhrase, UnderWay, unlockVars
<1>19. ASSUME NEW c \in Checker, FinishPhrase(c)
      PROVE  ShownCodesWork'
  BY <1>19 DEF FinishPhrase, GoTo, Leave, Closed, UnderWay, Accepts
<1>20. ASSUME NEW s \in {"pin", "public", "home"}, Visit(s)
      PROVE  ShownCodesWork'
  BY <1>20 DEF Visit, GoTo, Leave, Closed, UnderWay
<1> QED
  BY <1>1, <1>2, <1>3, <1>4, <1>5, <1>6, <1>7, <1>8, <1>9,
     <1>10, <1>11, <1>12, <1>13, <1>14, <1>15, <1>16, <1>17, <1>18, <1>19, <1>20 DEF TFNext

TFInv ==
  /\ TFTypeOK
  /\ SpentCodesGone
  /\ DialogIsOpen
  /\ PinIsAsked
  /\ BackupCodesOnce
  /\ SecondFactorAtUnlock
  /\ ShownCodesWork

LEMMA TFInitially == TFInit => TFInv
<1> SUFFICES ASSUME TFInit PROVE TFInv
  OBVIOUS
<1> USE DEF TFInit
<1>1. TFTypeOK
  <2>1. setup \in Dialog
    BY ClosedType DEF TFInit
  <2>2. checks \in Calls
    BY DEF Calls
  <2>3. batches \in 0 .. MaxBatches /\ attempts \in 0 .. MaxAttempts
    BY Bounds
  <2> QED BY <2>1, <2>2, <2>3 DEF TFTypeOK, Calls, Dialog
<1>2. SpentCodesGone /\ DialogIsOpen /\ PinIsAsked
  BY DEF SpentCodesGone, GivenOut, IsVerification, DialogIsOpen, PinIsAsked, UnderWay, Closed
<1>3. BackupCodesOnce /\ SecondFactorAtUnlock /\ ShownCodesWork
  BY DEF BackupCodesOnce, SecondFactorAtUnlock, ShownCodesWork, Closed
<1> QED BY <1>1, <1>2, <1>3 DEF TFInv

LEMMA TFInvariance == TFSpec => []TFInv
<1>1. TFInv /\ [TFNext]_tfVars => TFInv'
  BY TFTypeStep, SpentStep, DialogStep, PinStep, OnceStep, FactorStep, ShownCodesStep DEF TFInv
<1> QED BY TFInitially, <1>1, PTL DEF TFSpec

(* Every reachable state is well typed. *)
THEOREM TwoFactorTypes == TFSpec => []TFTypeOK
<1>1. TFInv => TFTypeOK
  BY DEF TFInv
<1> QED BY TFInvariance, <1>1, PTL

(* Whatever verifications are under way when a backup code is used: it is   *)
(* accepted once, unless one of them wrote the old list back (verify2FA).   *)
THEOREM BackupCodesWorkOnce == TFSpec => []BackupCodesOnce
<1>1. TFInv => BackupCodesOnce
  BY DEF TFInv
<1> QED BY TFInvariance, <1>1, PTL

(* However many verifications, PIN checks and imports are under way, also of *)
(* screens that were left: a wallet opened by its PIN alone gets past the   *)
(* second step only when the user leaves the unlock screen (handlePinComplete *)
(* of Unlock, verify2FA, the routes of App).                                *)
THEOREM SecondFactorGuards == TFSpec => []SecondFactorAtUnlock
<1>1. TFInv => SecondFactorAtUnlock
  BY DEF TFInv
<1> QED BY TFInvariance, <1>1, PTL

(* The codes the setup shows are the stored ones, unless a late             *)
(* verification wrote over them (TOTPSetup).                                *)
THEOREM ShownCodesAreStored == TFSpec => []ShownCodesWork
<1>1. TFInv => ShownCodesWork
  BY DEF TFInv
<1> QED BY TFInvariance, <1>1, PTL
=============================================================================
