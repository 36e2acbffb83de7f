---------------------- MODULE EpochAgentAccount_proofs ----------------------
(***************************************************************************)
(* The session of an epoch agent account is its owner's grant, whatever    *)
(* venues and receivers call back, for any number of wallets, keys,        *)
(* operations in a bundle, transfers, pauses and sessions.                 *)
(***************************************************************************)
EXTENDS EpochAgentAccount, TLAPS

(* Storage between any two calls: the numbers a session was bound to lie   *)
(* behind the counters, and where they still agree with the epoch the      *)
(* session was configured by the holder of the receipt.                    *)
Sound(c) ==
    /\ c \in Storage
    /\ c.session.mintsToday <= c.session.perDay
    /\ c.session.generation <= c.generation
    /\ c.authorizedEpoch <= c.epoch
    /\ c.authorizedSecurity <= c.security
    /\ c.receipt # Nobody => c.punk = Wrapper
    /\ c.session.owner # Nobody /\ c.epoch = c.authorizedEpoch
         => c.receipt = c.session.owner

(* Storage inside a mint against the storage the mint began with: equal    *)
(* epochs mean that nothing moved, equal generations that the session is   *)
(* the one that was checked.                                               *)
Rolled(s) == [s EXCEPT !.day = Today, !.mintsToday = MintsToday(s)]
Follows(c) ==
    /\ c.epoch >= settled.epoch
    /\ c.security >= settled.security
    /\ c.generation >= settled.generation
    /\ c.nonce = settled.nonce + 1
    /\ c.epoch = settled.epoch
         => c.punk = settled.punk /\ c.receipt = settled.receipt
    /\ c.generation = settled.generation
         => /\ c.session = Rolled(settled.session)
            /\ c.authorizedEpoch = settled.authorizedEpoch
            /\ c.authorizedSecurity = settled.authorizedSecurity

InCall == /\ IntentValid(settled, call)
          /\ Follows(chain)

IInv == /\ Sound(chain) /\ Sound(settled)
        /\ validated \subseteq Ops
        /\ call \in Ops \cup {NoOp}
        /\ minted \subseteq Nat /\ now \in Nat
        /\ \A n \in minted : n < settled.nonce
        /\ Running => InCall
        /\ ~Running => settled = chain

---------------------------------------------------------------------------
(* Days are natural numbers. *)
LEMMA TodayIsNat == ASSUME now \in Nat PROVE Today \in Nat
  BY DayAssumption DEF Today

LEMMA InitSound == Init => IInv
<1> SUFFICES ASSUME Init PROVE IInv
  OBVIOUS
<1>1. chain \in Storage /\ settled = chain
  BY DEF Init, Storage, Session, NoSession
<1>2. Sound(chain) /\ Sound(settled)
  BY <1>1, NamesAssumption DEF Init, Sound, NoSession
<1>3. ~Running
  BY DEF Init, Running
<1> QED
  BY <1>1, <1>2, <1>3 DEF Init, IInv

(* What a call that anyone may make at any time has to show. *)
LEMMA BecomesSound ==
    ASSUME IInv, NEW c, Becomes(c), Sound(c), Running => Follows(c),
           c.nonce = chain.nonce
    PROVE  IInv'
<1>1. CASE Running
  <2>1. settled' = settled /\ chain' = c /\ call' = call /\ now' = now
    BY <1>1 DEF Becomes
  <2>2. Running' /\ InCall'
    BY <1>1, <2>1 DEF IInv, InCall, Running, Follows, Rolled, MintsToday, Today,
        IntentValid, SessionActive, BelowDailyLimit
  <2> QED
    BY <1>1, <2>1, <2>2 DEF IInv, Becomes, Sound
<1>2. CASE ~Running
  <2>1. settled' = c /\ chain' = c /\ ~Running'
    BY <1>2 DEF Becomes, Running
  <2>2. settled'.nonce = settled.nonce
    BY <1>2, <2>1 DEF IInv
  <2> QED
    BY <1>2, <2>1, <2>2 DEF IInv, Becomes, Sound
<1> QED
  BY <1>1, <1>2

LEMMA OwnerCallsSound == IInv /\ OwnerCalls => IInv'
<1> SUFFICES ASSUME IInv, OwnerCalls PROVE IInv'
  OBVIOUS
<1>0. Sound(chain) /\ chain \in Storage /\ (Running => Follows(chain)) /\ Today \in Nat
  BY TodayIsNat DEF IInv, InCall, Sound
<1>t. chain.epoch + 1 \in Nat /\ chain.generation + 1 \in Nat
  BY <1>0 DEF Storage
<1>1. ASSUME NEW l \in Limits, ConfigureAutonomousSession(l) PROVE IInv'
  <2> DEFINE c == [chain EXCEPT
         !.generation = @ + 1,
         !.session = [owner |-> Owner(chain), left |-> l.total, perDay |-> l.perDay,
                      mintsToday |-> 0, day |-> Today, until |-> l.until,
                      generation |-> chain.generation + 1],
         !.authorizedEpoch = chain.epoch,
         !.authorizedSecurity = chain.security]
  <2>1. l.total \in Nat /\ l.perDay \in Nat /\ l.until \in Nat
    BY LimitsAssumption
  <2>2. Owner(chain) = chain.receipt /\ Owner(chain) \in Wallets
    BY <1>0, <1>1 DEF ConfigureAutonomousSession, Wrapped, Owner, Storage
  <2>3. Sound(c)
    <3>1. c \in Storage
      BY <1>0, <2>1, <2>2, <1>t DEF Storage, Session
    <3> QED
      BY <1>0, <2>1, <2>2, <1>t, <3>1 DEF Sound, Storage, Session
  <2>4. Running => Follows(c)
    BY <1>0 DEF Follows, IInv, Sound, Storage
  <2>5. Becomes(c) /\ c.nonce = chain.nonce
    BY <1>0, <1>1 DEF ConfigureAutonomousSession
  <2> QED
    BY <2>3, <2>4, <2>5, BecomesSound
<1>2. ASSUME RevokeAutonomousSession PROVE IInv'
  <2> DEFINE c == [chain EXCEPT !.generation = @ + 1, !.session = NoSession]
  <2>1. Sound(c)
    <3>1. c \in Storage
      BY <1>0, <1>t DEF Storage, Session, NoSession
    <3> QED
      BY <1>0, <1>t, <3>1 DEF Sound, Storage, Session, NoSession
  <2>2. Running => Follows(c)
    BY <1>0 DEF Follows, IInv, Sound, Storage
  <2>3. Becomes(c) /\ c.nonce = chain.nonce
    BY <1>0, <1>2 DEF RevokeAutonomousSession
  <2> QED
    BY <2>1, <2>2, <2>3, BecomesSound
<1>3. ASSUME Wrap PROVE IInv'
  <2> DEFINE c == [chain EXCEPT !.punk = Wrapper, !.receipt = chain.punk, !.epoch = @ + 1]
  <2>1. Sound(c)
    <3>1. c \in Storage
      BY <1>0, <1>3, <1>t DEF Storage, Session, Wrap
    <3> QED
      BY <1>0, <1>3, <1>t, <3>1 DEF Sound, Storage, Session, Wrap
  <2>2. Running => Follows(c)
    BY <1>0 DEF Follows, IInv, Sound, Storage
  <2>3. Becomes(c) /\ c.nonce = chain.nonce
    BY <1>0, <1>3 DEF Wrap
  <2> QED
    BY <2>1, <2>2, <2>3, BecomesSound
<1>4. ASSUME Unwrap PROVE IInv'
  <2> DEFINE c == [chain EXCEPT !.receipt = Nobody, !.epoch = @ + 1, !.punk = chain.receipt]
  <2>0. [Burned(chain) EXCEPT !.punk = chain.receipt] = c
    BY <1>0 DEF Burned, Storage
  <2>1. Sound(c)
    <3>1. c \in Storage
      BY <1>0, <1>4, <1>t, NamesAssumption DEF Storage, Session, Unwrap, Wrapped
    <3> QED
      BY <1>0, <1>4, <1>t, <3>1 DEF Sound, Storage, Session, Unwrap, Wrapped
  <2>2. Running => Follows(c)
    BY <1>0 DEF Follows, IInv, Sound, Storage
  <2>3. Becomes(c) /\ c.nonce = chain.nonce
    BY <1>0, <1>4, <2>0 DEF Unwrap, Storage
  <2> QED
    BY <2>1, <2>2, <2>3, BecomesSound
<1>5. ASSUME NEW to \in Wallets, TransferReceipt(to) PROVE IInv'
  <2> DEFINE c == [chain EXCEPT !.receipt = to, !.epoch = @ + 1]
  <2>1. Sound(c)
    <3>1. c \in Storage
      BY <1>0, <1>5, <1>t DEF Storage, Session, TransferReceipt
    <3> QED
      BY <1>0, <1>5, <1>t, <3>1 DEF Sound, Storage, Session, TransferReceipt
  <2>2. Running => Follows(c)
    BY <1>0 DEF Follows, IInv, Sound, Storage
  <2>3. Becomes(c) /\ c.nonce = chain.nonce
    BY <1>0, <1>5 DEF TransferReceipt
  <2> QED
    BY <2>1, <2>2, <2>3, BecomesSound
<1>6. ASSUME NEW to \in Wallets \cup {Wrapper}, TransferPunk(to) PROVE IInv'
  <2> DEFINE c == [chain EXCEPT !.punk = to]
  <2>1. chain.receipt = Nobody /\ chain.punk # Wrapper
    BY <1>0, <1>6, NamesAssumption DEF Sound, TransferPunk
  <2>2. Sound(c)
    <3>1. c \in Storage
      BY <1>0, <2>1, <1>t DEF Storage, Session
    <3> QED
      BY <1>0, <2>1, <1>t, <3>1 DEF Sound, Storage, Session
  \* A mint begins with the Punk wrapped: if it is not, the epoch moved on.
  <2>3. Running => chain.epoch # settled.epoch
    BY <2>1 DEF IInv, InCall, Follows, IntentValid, SessionActive, EpochValid, Wrapped
  <2>4. Running => Follows(c)
    BY <1>0, <2>3 DEF Follows
  <2>5. Becomes(c) /\ c.nonce = chain.nonce
    BY <1>0, <1>6 DEF TransferPunk
  <2> QED
    BY <2>2, <2>4, <2>5, BecomesSound
<1> QED
  BY <1>1, <1>2, <1>3, <1>4, <1>5, <1>6 DEF OwnerCalls

LEMMA OtherCallsSound == IInv /\ OtherCalls => IInv'
<1> SUFFICES ASSUME IInv, OtherCalls PROVE IInv'
  OBVIOUS
<1>0. Sound(chain) /\ chain \in Storage /\ (Running => Follows(chain))
  BY DEF IInv, InCall, Sound
<1>t. chain.security + 1 \in Nat
  BY <1>0 DEF Storage
<1>1. ASSUME NEW p \in {"NO", "YES"}, SetExecutionPaused(p) PROVE IInv'
  <2> DEFINE c == [chain EXCEPT !.paused = p, !.security = @ + 1]
  <2>1. Sound(c)
    <3>1. c \in Storage
      BY <1>0, <1>t DEF Storage, Session
    <3> QED
      BY <1>0, <1>t, <3>1 DEF Sound, Storage, Session
  <2>2. Running => Follows(c)
    BY <1>0 DEF Follows, IInv, Sound, Storage
  <2>3. Becomes(c) /\ c.nonce = chain.nonce
    BY <1>0, <1>1 DEF SetExecutionPaused
  <2> QED
    BY <2>1, <2>2, <2>3, BecomesSound
<1>2. ASSUME NEW s \in {"EQUIPPED", "UNEQUIPPED"}, ChangeSkill(s) PROVE IInv'
  <2> DEFINE c == [chain EXCEPT !.skill = s]
  <2>1. Sound(c)
    <3>1. c \in Storage
      BY <1>0, <1>t DEF Storage, Session
    <3> QED
      BY <1>0, <1>t, <3>1 DEF Sound, Storage, Session
  <2>2. Running => Follows(c)
    BY <1>0 DEF Follows
  <2>3. Becomes(c) /\ c.nonce = chain.nonce
    BY <1>0, <1>2 DEF ChangeSkill
  <2> QED
    BY <2>1, <2>2, <2>3, BecomesSound
<1> QED
  BY <1>1, <1>2 DEF OtherCalls

LEMMA BundleSound == IInv /\ Bundle => IInv'
<1> SUFFICES ASSUME IInv, Bundle PROVE IInv'
  OBVIOUS
<1>0. /\ Sound(chain) /\ chain \in Storage /\ chain.session \in Session
      /\ Today \in Nat
  BY TodayIsNat DEF IInv, Sound, Storage
<1>t. chain.nonce + 1 \in Nat /\ MintsToday(chain.session) \in Nat
  BY <1>0 DEF Storage, Session, MintsToday
<1>1. ASSUME NEW op \in Signable, ValidateUserOp(op) PROVE IInv'
  <2>1. op \in Ops
    BY <1>0 DEF Signable, Ops, Storage, Session
  <2> QED
    BY <1>1, <2>1 DEF IInv, ValidateUserOp, Running, Sound
<1>2. ASSUME NEW op \in validated, Begin(op) PROVE IInv'
  <2>1. op \in Ops /\ op # NoOp
    BY NamesAssumption DEF IInv, Ops, NoOp
  <2>2. /\ settled = chain /\ IntentValid(chain, op)
        /\ op.nonce = chain.nonce
    BY <1>2 DEF IInv, Begin, IntentValid
  <2>3. /\ chain' = [chain EXCEPT !.session = Rolled(chain.session), !.nonce = chain.nonce + 1]
        /\ settled' = settled /\ call' = op /\ now' = now /\ minted' = minted
        /\ validated' = validated \ {op}
    BY <1>0, <1>2, <2>2 DEF Begin, Rolled, Storage, Session
  <2>4. Rolled(chain.session) \in Session
    BY <1>0, <1>t DEF Rolled, Session
  <2>5. chain' \in Storage
    BY <1>0, <1>t, <2>3, <2>4 DEF Storage
  <2>6. MintsToday(chain.session) <= chain.session.perDay
    BY <1>0, <1>t, <2>2 DEF IntentValid, BelowDailyLimit, Session
  <2>7. Sound(chain')
    BY <1>0, <2>3, <2>4, <2>5, <2>6 DEF Sound, Rolled, Storage, Session
  <2>8. Running' /\ InCall'
    BY <1>0, <2>1, <2>2, <2>3 DEF Running, InCall, Follows, Rolled, MintsToday, Today,
        IntentValid, SessionActive, BelowDailyLimit, Storage, Session
  <2> QED
    BY <2>1, <2>2, <2>3, <2>7, <2>8 DEF IInv, Sound
<1>3. ASSUME NEW op \in validated, Refuse(op) PROVE IInv'
  BY <1>3 DEF IInv, Refuse, Running, Sound
<1>4. ASSUME Finish PROVE IInv'
  <2>1. /\ Running /\ chain.session.left > 0 /\ chain' = Counted(chain)
        /\ settled' = chain' /\ ~Running' /\ now' = now /\ validated' = validated
        /\ minted' = minted \cup {call.nonce} /\ call' = NoOp
    BY <1>4 DEF Finish, Running
  <2>2. /\ chain.nonce = settled.nonce + 1 /\ call.nonce = settled.nonce
        /\ chain.session = Rolled(settled.session)
        /\ MintsToday(settled.session) < settled.session.perDay
    BY <1>0, <1>4 DEF IInv, InCall, Follows, Finish, AuthorityUnchanged, Counted,
        IntentValid, BelowDailyLimit, Storage
  <2>3. chain.session.mintsToday < chain.session.perDay
    BY <2>2 DEF Rolled, IInv, Sound, Storage, Session
  <2>4. chain.session.mintsToday + 1 \in Nat /\ chain.session.left - 1 \in Nat
    BY <1>0, <2>1 DEF Session
  <2>5. [chain.session EXCEPT !.mintsToday = @ + 1, !.left = @ - 1] \in Session
    BY <1>0, <2>4 DEF Session
  <2>6. chain' = [chain EXCEPT !.session =
                    [chain.session EXCEPT !.mintsToday = @ + 1, !.left = @ - 1]]
    BY <1>0, <2>1 DEF Counted, Storage, Session
  <2>7. chain' \in Storage
    BY <1>0, <2>5, <2>6 DEF Storage
  <2>8. Sound(chain')
    <3>1. /\ chain'.session.mintsToday = chain.session.mintsToday + 1
          /\ chain'.session.perDay = chain.session.perDay
          /\ chain'.session.owner = chain.session.owner
          /\ chain'.session.generation = chain.session.generation
      BY <1>0, <2>4, <2>6 DEF Storage, Session
    <3>2. chain'.session.mintsToday <= chain'.session.perDay
      BY <1>0, <2>3, <3>1 DEF Session
    <3>3. /\ chain'.generation = chain.generation /\ chain'.epoch = chain.epoch
          /\ chain'.security = chain.security /\ chain'.receipt = chain.receipt
          /\ chain'.punk = chain.punk /\ chain'.authorizedEpoch = chain.authorizedEpoch
          /\ chain'.authorizedSecurity = chain.authorizedSecurity
      BY <1>0, <2>6 DEF Storage
    <3> QED
      BY <1>0, <2>7, <3>1, <3>2, <3>3 DEF Sound
  <2>9. \A n \in minted' : n < settled'.nonce
    BY <1>0, <2>1, <2>2, <2>6 DEF IInv, Sound, Storage
  <2> QED
    BY <2>1, <2>2, <2>8, <2>9 DEF IInv, Sound, Storage
<1>5. ASSUME RollBack PROVE IInv'
  BY <1>5 DEF IInv, RollBack, Running, Sound
<1> QED
  BY <1>1, <1>2, <1>3, <1>4, <1>5 DEF Bundle

LEMMA NextSound == IInv /\ [Next]_vars => IInv'
<1> SUFFICES ASSUME IInv, [Next]_vars PROVE IInv'
  OBVIOUS
<1>1. CASE OwnerCalls
  BY <1>1, OwnerCallsSound
<1>2. CASE OtherCalls
  BY <1>2, OtherCallsSound
<1>3. CASE Bundle
  BY <1>3, BundleSound
<1>4. CASE Tick
  BY <1>4 DEF IInv, Tick, Running, Sound
<1>5. CASE UNCHANGED vars
  BY <1>5 DEF IInv, vars, Running, Sound, InCall, Follows, Rolled, MintsToday, Today,
      IntentValid, SessionActive, BelowDailyLimit
<1> QED
  BY <1>1, <1>2, <1>3, <1>4, <1>5 DEF Next

LEMMA SoundAlways == Spec => []IInv
  BY InitSound, NextSound, PTL DEF Spec

(* Every variable has its type, and the daily count of a session stays     *)
(* within its limit, also inside a mint that calls back.                   *)
THEOREM TypeCorrect == Spec => []TypeOK
<1>1. IInv => TypeOK
  BY DEF IInv, Sound, TypeOK
<1> QED
  BY <1>1, SoundAlways, PTL

(* Every receipt is backed by its Punk.                                    *)
THEOREM ReceiptsBacked == Spec => []ReceiptsAreBacked
<1>1. IInv => ReceiptsAreBacked
  BY DEF IInv, Sound, ReceiptsAreBacked
<1> QED
  BY <1>1, SoundAlways, PTL

(* A mint ends well only if the epoch, the pause and the session are those *)
(* it was checked against, hence also the owner.                           *)
LEMMA FinishIsSettled ==
    ASSUME IInv, Finish
    PROVE  /\ chain.punk = settled.punk /\ chain.receipt = settled.receipt
           /\ chain.epoch = settled.epoch /\ chain.security = settled.security
           /\ chain.generation = settled.generation
           /\ chain.authorizedEpoch = settled.authorizedEpoch
           /\ chain.authorizedSecurity = settled.authorizedSecurity
           /\ chain.session = Rolled(settled.session)
           /\ chain.nonce = settled.nonce + 1
           /\ chain' = [chain EXCEPT !.session =
                           [chain.session EXCEPT !.mintsToday = @ + 1, !.left = @ - 1]]
<1>0. chain \in Storage /\ chain.session \in Session /\ Follows(chain) /\ IntentValid(settled, call)
  BY DEF IInv, Sound, Storage, InCall, Finish
<1>1. chain' = [chain EXCEPT !.session =
                  [chain.session EXCEPT !.mintsToday = @ + 1, !.left = @ - 1]]
  BY <1>0 DEF Finish, Counted, Storage, Session
<1>2. /\ Counted(chain).epoch = chain.epoch /\ Counted(chain).security = chain.security
      /\ Counted(chain).generation = chain.generation
      /\ Counted(chain).authorizedEpoch = chain.authorizedEpoch
      /\ Counted(chain).authorizedSecurity = chain.authorizedSecurity
  BY <1>0 DEF Counted, Storage
<1>3. /\ chain.epoch = chain.authorizedEpoch /\ chain.security = chain.authorizedSecurity
      /\ chain.generation = settled.generation
  BY <1>2 DEF Finish, AuthorityUnchanged, EpochValid
<1>4. /\ settled.epoch = settled.authorizedEpoch
      /\ settled.security = settled.authorizedSecurity
  BY <1>0 DEF IntentValid, SessionActive, EpochValid
<1> QED
  BY <1>0, <1>1, <1>3, <1>4 DEF Follows

(* A mint that succeeds leaves owner, epoch, pause and session alone, what *)
(* ever its venue called back.                                             *)
THEOREM CallbacksAreHarmless == Spec => CallbacksChangeNothing
<1> DEFINE Harmless ==
         minted' # minted =>
           /\ chain'.punk = settled.punk /\ chain'.receipt = settled.receipt
           /\ chain'.epoch = settled.epoch /\ chain'.security = settled.security
           /\ chain'.generation = settled.generation
           /\ chain'.session.owner = settled.session.owner
<1>1. ASSUME IInv, Finish PROVE Harmless
  <2>1. chain \in Storage /\ chain.session \in Session /\ settled.session \in Session
    BY <1>1 DEF IInv, Sound, Storage
  <2>2. chain.session.owner = settled.session.owner
    BY <1>1, <2>1, FinishIsSettled DEF Rolled, Session
  <2>3. chain'.session.owner = chain.session.owner
    BY <1>1, <2>1, FinishIsSettled DEF Storage, Session
  <2> QED
    BY <1>1, <2>1, <2>2, <2>3, FinishIsSettled DEF Storage
<1>2. ASSUME [Next]_vars, ~Finish PROVE minted' = minted
  BY <1>2 DEF Next, OwnerCalls, OtherCalls, Bundle, vars, Becomes, Tick,
      ConfigureAutonomousSession, RevokeAutonomousSession, Wrap, Unwrap, TransferReceipt,
      TransferPunk, SetExecutionPaused, ChangeSkill, ValidateUserOp, Begin, Refuse, RollBack
<1>3. IInv /\ [Next]_vars => [Harmless]_vars
  BY <1>1, <1>2
<1> QED
  BY <1>3, SoundAlways, PTL DEF Spec, CallbacksChangeNothing

---------------------------------------------------------------------------
(* The account implements OwnerGrant.                                      *)

LEMMA NothingSettled ==
    settled' = settled /\ minted' = minted /\ now' = now => UNCHANGED Grant!vars
  BY DEF Grant!vars, Owner, GrantOf, InForce, Wrapped, NoGrant

(* A transfer or a pause ends the grant: what the session was bound to     *)
(* falls behind the registry and never catches up.                         *)
LEMMA LeftBehind ==
    ASSUME NEW c, ~Wrapped(c) \/ c.epoch # c.authorizedEpoch
                  \/ c.security # c.authorizedSecurity \/ c.session.owner = Nobody
    PROVE  GrantOf(c) = NoGrant
  BY DEF GrantOf, InForce

LEMMA OwnerCallsImplement == IInv /\ OwnerCalls => [Grant!Next]_Grant!vars
<1> SUFFICES ASSUME IInv, OwnerCalls, ~Running PROVE [Grant!Next]_Grant!vars
  BY NothingSettled DEF OwnerCalls, Becomes, ConfigureAutonomousSession,
      RevokeAutonomousSession, Wrap, Unwrap, TransferReceipt, TransferPunk
<1>0. settled = chain /\ chain \in Storage /\ Sound(chain) /\ Today \in Nat
  BY TodayIsNat DEF IInv, Sound
<1>t. /\ chain.epoch \in Nat /\ chain.authorizedEpoch \in Nat /\ chain.generation \in Nat
      /\ chain.authorizedEpoch <= chain.epoch
  BY <1>0 DEF Sound, Storage
<1>1. ASSUME NEW l \in Limits, ConfigureAutonomousSession(l) PROVE Grant!Give
  <2>1. l.total \in Nat /\ l.perDay \in Nat /\ l.until \in Nat
    BY LimitsAssumption
  <2>2. Owner(chain) = chain.receipt /\ Owner(chain) # Nobody /\ Wrapped(chain)
    BY <1>1 DEF ConfigureAutonomousSession, Wrapped, Owner
  <2>3. /\ settled'.session = [owner |-> Owner(chain), left |-> l.total, perDay |-> l.perDay,
                      mintsToday |-> 0, day |-> Today, until |-> l.until,
                      generation |-> chain.generation + 1]
        /\ settled'.generation = chain.generation + 1
        /\ settled'.punk = chain.punk /\ settled'.receipt = chain.receipt
        /\ settled'.epoch = chain.epoch /\ settled'.security = chain.security
        /\ settled'.authorizedEpoch = chain.epoch
        /\ settled'.authorizedSecurity = chain.security
        /\ minted' = minted /\ now' = now
    BY <1>0, <1>1 DEF ConfigureAutonomousSession, Becomes, Storage
  <2>4. Owner(settled') = Owner(chain)
    BY <2>3 DEF Owner
  <2>5. GrantOf(settled') =
          [number |-> chain.generation + 1, by |-> Owner(chain), left |-> l.total,
           perDay |-> l.perDay, until |-> l.until, day |-> Today, mintsToday |-> 0]
    BY <2>2, <2>3 DEF GrantOf, InForce, Wrapped
  <2>6. settled'.generation > settled.generation
    BY <1>0, <1>t, <2>3
  <2> QED
    BY <1>0, <2>1, <2>3, <2>4, <2>5, <2>6 DEF Grant!Give, Grant!Today, Today
<1>2. ASSUME RevokeAutonomousSession PROVE Grant!TakeAway
  <2>1. /\ settled'.session = NoSession
        /\ settled'.generation = chain.generation + 1
        /\ settled'.punk = chain.punk /\ settled'.receipt = chain.receipt
        /\ minted' = minted /\ now' = now
    BY <1>0, <1>2 DEF RevokeAutonomousSession, Becomes, Storage
  <2>2. GrantOf(settled') = NoGrant
    BY <2>1, LeftBehind DEF NoSession
  <2> QED
    BY <1>0, <1>t, <2>1, <2>2 DEF Grant!TakeAway, Owner
<1>3. ASSUME /\ Owner(settled') \in Wallets \cup {Nobody}
             /\ GrantOf(settled') = NoGrant
             /\ settled'.generation = chain.generation
             /\ minted' = minted /\ now' = now
      PROVE  Grant!Move
  BY <1>0, <1>3 DEF Grant!Move
<1>4. ASSUME Wrap \/ Unwrap \/ (\E to \in Wallets : TransferReceipt(to)) PROVE Grant!Move
  <2>1. /\ settled' \in Storage
        /\ settled'.epoch = chain.epoch + 1
        /\ settled'.authorizedEpoch = chain.authorizedEpoch
        /\ settled'.generation = chain.generation
        /\ minted' = minted /\ now' = now
    <3>1. chain.epoch + 1 \in Nat
      BY <1>t
    <3>2. CASE Wrap
      BY <1>0, <3>1, <3>2 DEF Wrap, Becomes, Storage
    <3>3. CASE Unwrap
      BY <1>0, <3>1, <3>3 DEF Unwrap, Burned, Wrapped, Becomes, Storage
    <3>4. CASE \E to \in Wallets : TransferReceipt(to)
      BY <1>0, <3>1, <3>4 DEF TransferReceipt, Becomes, Storage
    <3> QED
      BY <1>4, <3>2, <3>3, <3>4
  <2>2. settled'.epoch # settled'.authorizedEpoch
    BY <1>t, <2>1
  <2>3. Owner(settled') \in Wallets \cup {Nobody}
    BY <2>1 DEF Owner, Storage
  <2> QED
    BY <1>3, <2>1, <2>2, <2>3, LeftBehind
<1>5. ASSUME NEW to \in Wallets \cup {Wrapper}, TransferPunk(to) PROVE Grant!Move
  <2>1. settled' = [chain EXCEPT !.punk = to] /\ minted' = minted /\ now' = now
    BY <1>5 DEF TransferPunk, Becomes
  <2>2. chain.receipt = Nobody
    BY <1>0, <1>5, NamesAssumption DEF Sound, TransferPunk
  <2>3. settled'.receipt = Nobody /\ settled'.generation = chain.generation /\ settled'.punk = to
    BY <1>0, <2>1, <2>2 DEF Storage
  <2>4. ~Wrapped(settled') /\ Owner(settled') \in Wallets \cup {Nobody}
    BY <2>3 DEF Wrapped, Owner
  <2> QED
    BY <1>3, <2>1, <2>3, <2>4, LeftBehind
<1> QED
  BY <1>1, <1>2, <1>4, <1>5 DEF OwnerCalls, Grant!Next

LEMMA OtherCallsImplement == IInv /\ OtherCalls => [Grant!Next]_Grant!vars
<1> SUFFICES ASSUME IInv, OtherCalls, ~Running PROVE [Grant!Next]_Grant!vars
  BY NothingSettled DEF OtherCalls, Becomes, SetExecutionPaused, ChangeSkill
<1>0. /\ settled = chain /\ chain \in Storage
      /\ chain.security \in Nat /\ chain.authorizedSecurity \in Nat
      /\ chain.generation \in Nat /\ chain.authorizedSecurity <= chain.security
  BY DEF IInv, Sound, Storage
<1>1. ASSUME NEW p \in {"NO", "YES"}, SetExecutionPaused(p) PROVE Grant!TakeAway
  <2>1. /\ settled'.security = chain.security + 1
        /\ settled'.authorizedSecurity = chain.authorizedSecurity
        /\ settled'.generation = chain.generation
        /\ settled'.punk = chain.punk /\ settled'.receipt = chain.receipt
        /\ minted' = minted /\ now' = now
    BY <1>0, <1>1 DEF SetExecutionPaused, Becomes, Storage
  <2>2. settled'.security # settled'.authorizedSecurity
    BY <1>0, <2>1
  <2>3. GrantOf(settled') = NoGrant
    BY <2>2, LeftBehind
  <2> QED
    BY <1>0, <2>1, <2>3 DEF Grant!TakeAway, Owner
<1>2. ASSUME NEW s \in {"EQUIPPED", "UNEQUIPPED"}, ChangeSkill(s) PROVE UNCHANGED Grant!vars
  <2>1. settled' = [chain EXCEPT !.skill = s] /\ minted' = minted /\ now' = now
    BY <1>2 DEF ChangeSkill, Becomes
  <2>2. /\ settled'.punk = chain.punk /\ settled'.receipt = chain.receipt
        /\ settled'.epoch = chain.epoch /\ settled'.security = chain.security
        /\ settled'.session = chain.session /\ settled'.generation = chain.generation
        /\ settled'.authorizedEpoch = chain.authorizedEpoch
        /\ settled'.authorizedSecurity = chain.authorizedSecurity
    BY <1>0, <2>1 DEF Storage
  <2> QED
    BY <1>0, <2>1, <2>2 DEF Grant!vars, Owner, GrantOf, InForce, Wrapped
<1> QED
  BY <1>1, <1>2 DEF OtherCalls, Grant!Next

LEMMA FinishImplements == IInv /\ Finish => Grant!Use
<1> SUFFICES ASSUME IInv, Finish PROVE Grant!Use
  OBVIOUS
<1> DEFINE s == settled.session
           t == settled'.session
<1>0. /\ settled \in Storage /\ s \in Session /\ chain \in Storage
      /\ chain.session \in Session /\ Today \in Nat /\ IntentValid(settled, call)
  BY TodayIsNat DEF IInv, Sound, Storage, InCall, Finish
<1>1. /\ t = [chain.session EXCEPT !.mintsToday = @ + 1, !.left = @ - 1]
      /\ settled'.punk = settled.punk /\ settled'.receipt = settled.receipt
      /\ settled'.epoch = settled.epoch /\ settled'.security = settled.security
      /\ settled'.generation = settled.generation
      /\ settled'.authorizedEpoch = settled.authorizedEpoch
      /\ settled'.authorizedSecurity = settled.authorizedSecurity
  BY <1>0, FinishIsSettled DEF Finish, Storage
<1>2. /\ t.owner = s.owner /\ t.perDay = s.perDay /\ t.until = s.until
      /\ t.generation = s.generation /\ t.day = Today
      /\ t.mintsToday = MintsToday(s) + 1 /\ t.left = s.left - 1
  <2>1. /\ chain.session.owner = s.owner /\ chain.session.perDay = s.perDay
        /\ chain.session.until = s.until /\ chain.session.generation = s.generation
        /\ chain.session.day = Today /\ chain.session.mintsToday = MintsToday(s)
        /\ chain.session.left = s.left
    BY <1>0, FinishIsSettled DEF Rolled, Session
  <2> QED
    BY <1>0, <1>1, <2>1 DEF Session
<1>3. /\ Owner(settled) # Nobody /\ s.owner = Owner(settled) /\ s.left # 0
      /\ now <= s.until /\ MintsToday(s) < s.perDay
      /\ InForce(settled)
  BY <1>0 DEF IntentValid, SessionActive, BelowDailyLimit, EpochValid, InForce
<1>4. InForce(settled') /\ Owner(settled') = Owner(settled)
  BY <1>1, <1>2, <1>3 DEF InForce, Wrapped, Owner
<1>5. GrantOf(settled) =
        [number |-> s.generation, by |-> s.owner, left |-> s.left, perDay |-> s.perDay,
         until |-> s.until, day |-> s.day, mintsToday |-> s.mintsToday]
  BY <1>3 DEF GrantOf
<1>6. GrantOf(settled') =
        [number |-> s.generation, by |-> s.owner, left |-> s.left - 1, perDay |-> s.perDay,
         until |-> s.until, day |-> Today, mintsToday |-> MintsToday(s) + 1]
  BY <1>2, <1>4 DEF GrantOf
<1>7. GrantOf(settled).by # NoGrant.by
  BY <1>3, <1>5 DEF NoGrant
<1>8. Grant!UsedToday = MintsToday(s)
  BY <1>5 DEF Grant!UsedToday, Grant!Today, MintsToday, Today
<1>9. call.nonce \notin minted /\ minted' = minted \cup {call.nonce} /\ now' = now
  <2>1. call.nonce = settled.nonce /\ settled.nonce \in Nat
    BY <1>0 DEF IntentValid, Storage
  <2> QED
    BY <2>1 DEF IInv, Finish
<1>10. s.left > 0
  BY <1>0, <1>3 DEF Session
<1>11. /\ GrantOf(settled).number = s.generation /\ GrantOf(settled).by = s.owner
       /\ GrantOf(settled).left = s.left /\ GrantOf(settled).perDay = s.perDay
       /\ GrantOf(settled).until = s.until
  BY <1>5
<1>12. GrantOf(settled') =
         [number |-> GrantOf(settled).number, by |-> GrantOf(settled).by,
          left |-> GrantOf(settled).left - 1, perDay |-> GrantOf(settled).perDay,
          until |-> GrantOf(settled).until, day |-> Grant!Today,
          mintsToday |-> Grant!UsedToday + 1]
  BY <1>6, <1>8, <1>11 DEF Grant!Today, Today
<1>13. \E n \in minted' \ minted : minted' = minted \cup {n}
  BY <1>9
<1>14. GrantOf(settled) # NoGrant
  BY <1>7
<1>15. Grant!UsedToday < GrantOf(settled).perDay
  BY <1>3, <1>8, <1>11
<1> QED
  BY <1>1, <1>3, <1>4, <1>9, <1>10, <1>11, <1>12, <1>13, <1>14, <1>15 DEF Grant!Use

(* The session of an epoch agent account is the grant of OwnerGrant.       *)
THEOREM SessionIsAGrant == Spec => Implements
<1>1. Init => Grant!Init
  <2> SUFFICES ASSUME Init PROVE Grant!Init
    OBVIOUS
  <2>1. PICK w \in Wallets : settled =
                [punk |-> w, receipt |-> Nobody, epoch |-> 0,
                 paused |-> "NO", security |-> 0, skill |-> "UNEQUIPPED",
                 session |-> NoSession, generation |-> 0, nonce |-> 0,
                 authorizedEpoch |-> 0, authorizedSecurity |-> 0]
    BY DEF Init
  <2>2. Owner(settled) = w /\ ~Wrapped(settled) /\ settled.generation = 0
    BY <2>1, NamesAssumption DEF Owner, Wrapped
  <2>3. GrantOf(settled) = NoGrant
    BY <2>2, LeftBehind
  <2> QED
    BY <2>2, <2>3 DEF Init, Grant!Init
<1>2. IInv /\ [Next]_vars => [Grant!Next]_Grant!vars
  <2> SUFFICES ASSUME IInv, [Next]_vars PROVE [Grant!Next]_Grant!vars
    OBVIOUS
  <2>1. CASE OwnerCalls
    BY <2>1, OwnerCallsImplement
  <2>2. CASE OtherCalls
    BY <2>2, OtherCallsImplement
  <2>3. CASE Finish
    BY <2>3, FinishImplements DEF Grant!Next
  <2>4. CASE Bundle /\ ~Finish
    <3>1. settled' = settled /\ minted' = minted /\ now' = now
      BY <2>4 DEF Bundle, ValidateUserOp, Begin, Refuse, RollBack
    <3> QED
      BY <3>1, NothingSettled
  <2>5. CASE Tick
    <3>1. settled' = settled /\ minted' = minted /\ now' > now
      BY <2>5 DEF Tick, IInv
    <3> QED
      BY <3>1 DEF Grant!Next, Grant!Tick, Owner, GrantOf, InForce, Wrapped, NoGrant
  <2>6. CASE UNCHANGED vars
    BY <2>6, NothingSettled DEF vars
  <2> QED
    BY <2>1, <2>2, <2>3, <2>4, <2>5, <2>6 DEF Next
<1> QED
  BY <1>1, <1>2, SoundAlways, PTL DEF Spec, Implements, Grant!Spec
=============================================================================
