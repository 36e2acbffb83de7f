------------------------- MODULE EpochAgentAccount --------------------------
(***************************************************************************)
(* The session of contracts/src/epoch/GoghEpochAgentAccount.sol with the   *)
(* receipt wrapper and the epoch registry it reads, and the session part   *)
(* of GoghPunkAgentAccount.sol it extends.  The holder of the session key  *)
(* may sign any intent at any time.                                        *)
(*                                                                         *)
(* A mint calls venues and receivers that may call anything back, so it    *)
(* is not one step: between Begin and its end every other call may happen, *)
(* and the failure of the mint undoes all of them.  chain is the storage   *)
(* of the contracts, settled what a failure restores it to.                *)
(***************************************************************************)
EXTENDS Integers, FiniteSets

CONSTANTS
    Wallets,        \* who may own the Punk or its receipt
    Wrapper,        \* the session wrapper, as owner of the original Punk
    Nobody,         \* the zero address
    Keys,           \* EntryPoint nonce keys: tell equal operations apart
    Limits,         \* session limits an owner may set: [total, perDay, until]
    DayLength,      \* 1 days, in clock ticks
    MaxBundle,      \* bound: operations validated at a time
    MaxTime,        \* bound: last clock value
    MaxEpoch,       \* bound: transfers of the receipt
    MaxGeneration,  \* bound: sessions configured or revoked
    MaxPauses       \* bound: changes of the guardian's pause

ASSUME NamesAssumption == {Wrapper, Nobody} \cap Wallets = {} /\ Wrapper # Nobody
ASSUME LimitsAssumption ==
    Limits \subseteq {l \in [total : Nat, perDay : Nat, until : Nat] :
                        0 < l.perDay /\ l.perDay <= l.total}
ASSUME DayAssumption == DayLength \in Nat \ {0}

VARIABLES
    chain,      \* storage of account, wrapper, registry and collection
    settled,    \* the storage before the mint in progress; else chain
    validated,  \* operations validated and not yet executed in this bundle
    call,       \* the operation being executed, or NoOp
    minted,     \* history: nonces of the intents that minted
    now         \* block.timestamp

vars == <<chain, settled, validated, call, minted, now>>

NoSession == [owner |-> Nobody, left |-> 0, perDay |-> 0, mintsToday |-> 0,
              day |-> 0, until |-> 0, generation |-> 0]

\* A signed executeSessionAcquisition: the fields its checks tell apart.
Ops == [key : Keys, nonce : Nat, generation : Nat, owner : Wallets]
NoOp == [key |-> 0, nonce |-> 0, generation |-> 0, owner |-> Nobody]
Running == call # NoOp

Today == now \div DayLength

Init ==
    /\ \E w \in Wallets :
        chain = [punk |-> w, receipt |-> Nobody, epoch |-> 0,
                 paused |-> "NO", security |-> 0, skill |-> "UNEQUIPPED",
                 session |-> NoSession, generation |-> 0, nonce |-> 0,
                 authorizedEpoch |-> 0, authorizedSecurity |-> 0]
    /\ settled = chain
    /\ validated = {}
    /\ call = NoOp
    /\ minted = {}
    /\ now = 0

---------------------------------------------------------------------------
(* What the contracts read of each other. *)

Owner(c) == IF c.punk = Wrapper THEN c.receipt ELSE c.punk
Wrapped(c) == c.receipt # Nobody /\ c.punk = Wrapper
Capable(c) == c.skill = "EQUIPPED"

EpochForgotten(c) ==                                                 \* mutant
    /\ c.authorizedEpoch # 0
    /\ Wrapped(c)
    /\ c.paused = "NO"
    /\ c.security = c.authorizedSecurity
EpochValid(c) ==
    /\ c.authorizedEpoch # 0
    /\ Wrapped(c)
    /\ c.paused = "NO"
    /\ c.epoch = c.authorizedEpoch
    /\ c.security = c.authorizedSecurity

SessionActive(c) ==
    /\ Owner(c) # Nobody
    /\ c.session.owner = Owner(c)
    /\ c.session.left # 0
    /\ now <= c.session.until
    /\ EpochValid(c)
    /\ Capable(c)

MintsToday(s) == IF s.day = Today THEN s.mintsToday ELSE 0

OneTooMany(s) == MintsToday(s) <= s.perDay                           \* mutant
BelowDailyLimit(s) == MintsToday(s) < s.perDay

IntentValid(c, op) ==
    /\ SessionActive(c)
    /\ op.owner = Owner(c)
    /\ op.nonce = c.nonce
    /\ op.generation = c.session.generation
    /\ BelowDailyLimit(c.session)

---------------------------------------------------------------------------
(* Calls anyone may make at any time: also from inside a mint. *)

Becomes(c) ==
    /\ chain' = c
    /\ settled' = IF Running THEN settled ELSE c
    /\ UNCHANGED <<validated, call, minted, now>>

ConfigureAutonomousSession(l) ==
    /\ Owner(chain) # Nobody
    /\ l.until > now
    /\ Wrapped(chain) /\ chain.paused = "NO" /\ Capable(chain)
    /\ Becomes([chain EXCEPT
         !.generation = @ + 1,
         !.session = [owner |-> Owner(chain), left |-> l.total, perDay |-> l.perDay,
                      mintsToday |-> 0, day |-> Today, until |-> l.until,
                      generation |-> chain.generation + 1],
         !.authorizedEpoch = chain.epoch,
         !.authorizedSecurity = chain.security])

RevokeAutonomousSession ==
    /\ Owner(chain) # Nobody
    /\ Becomes([chain EXCEPT !.generation = @ + 1, !.session = NoSession])

Wrap ==
    /\ chain.punk \in Wallets
    /\ chain.receipt = Nobody
    /\ Becomes([chain EXCEPT !.punk = Wrapper, !.receipt = chain.punk, !.epoch = @ + 1])

WithoutBurn(c) == [c EXCEPT !.epoch = @ + 1]                         \* mutant
Burned(c) == [c EXCEPT !.receipt = Nobody, !.epoch = @ + 1]

Unwrap ==
    /\ Wrapped(chain)
    /\ Becomes([Burned(chain) EXCEPT !.punk = chain.receipt])

TransferReceipt(to) ==
    /\ chain.receipt # Nobody
    /\ Becomes([chain EXCEPT !.receipt = to, !.epoch = @ + 1])

\* A plain transfer of the original; into the wrapper it strands the Punk.
TransferPunk(to) ==
    /\ chain.punk \in Wallets
    /\ Becomes([chain EXCEPT !.punk = to])

SetExecutionPaused(paused) ==
    /\ chain.paused # paused
    /\ Becomes([chain EXCEPT !.paused = paused, !.security = @ + 1])

ChangeSkill(skill) ==
    /\ chain.skill # skill
    /\ Becomes([chain EXCEPT !.skill = skill])

---------------------------------------------------------------------------
(* The EntryPoint: validates a bundle, then executes its operations. *)

ValidateUserOp(op) ==
    /\ ~Running
    /\ op \notin validated
    /\ IntentValid(chain, op)
    /\ validated' = validated \cup {op}
    /\ UNCHANGED <<chain, settled, call, minted, now>>

\* executeSessionAcquisition up to its call of the venue.
Begin(op) ==
    /\ ~Running
    /\ op \in validated
    /\ IntentValid(chain, op)
    /\ chain' = [chain EXCEPT !.session.day = Today,
                              !.session.mintsToday = MintsToday(chain.session),
                              !.nonce = op.nonce + 1]
    /\ call' = op
    /\ validated' = validated \ {op}
    /\ UNCHANGED <<settled, minted, now>>

\* An operation whose checks fail when it is executed is used up.
Refuse(op) ==
    /\ ~Running
    /\ op \in validated
    /\ ~IntentValid(chain, op)
    /\ validated' = validated \ {op}
    /\ UNCHANGED <<chain, settled, call, minted, now>>

Counted(c) == [c EXCEPT !.session.mintsToday = @ + 1, !.session.left = @ - 1]

SessionForgotten(c) == EpochValid(c) /\ Owner(c) = call.owner        \* mutant
AuthorityUnchanged(c) ==
    /\ EpochValid(c)
    /\ c.generation = settled.generation
    /\ Owner(c) = call.owner
    /\ Capable(c)

\* The rest of it: checked subtraction, then the account's own last checks.
Finish ==
    /\ Running
    /\ chain.session.left > 0
    /\ AuthorityUnchanged(Counted(chain))
    /\ chain' = Counted(chain)
    /\ settled' = chain'
    /\ minted' = minted \cup {call.nonce}
    /\ call' = NoOp
    /\ UNCHANGED <<validated, now>>

\* The venue fails, the asset does not arrive or a last check fails.
RollBack ==
    /\ Running
    /\ chain' = settled
    /\ call' = NoOp
    /\ UNCHANGED <<settled, validated, minted, now>>

\* A bundle is one transaction: no time passes in it.
Tick ==
    /\ ~Running
    /\ validated = {}
    /\ now' = now + 1
    /\ UNCHANGED <<chain, settled, validated, call, minted>>

---------------------------------------------------------------------------
\* The operations the key's holder can usefully sign now.
Signable == [key : Keys, nonce : {chain.nonce}, generation : {chain.session.generation},
             owner : Wallets]

OwnerCalls ==
    \/ chain.generation < MaxGeneration /\ \E l \in Limits : ConfigureAutonomousSession(l)
    \/ chain.generation < MaxGeneration /\ RevokeAutonomousSession
    \/ chain.epoch < MaxEpoch /\ Wrap
    \/ chain.epoch < MaxEpoch /\ Unwrap
    \/ \E to \in Wallets : chain.epoch < MaxEpoch /\ TransferReceipt(to)
    \/ \E to \in Wallets \cup {Wrapper} : TransferPunk(to)

OtherCalls ==
    \/ chain.security < MaxPauses /\ \E p \in {"NO", "YES"} : SetExecutionPaused(p)
    \/ \E skill \in {"EQUIPPED", "UNEQUIPPED"} : ChangeSkill(skill)

Bundle ==
    \/ Cardinality(validated) < MaxBundle /\ \E op \in Signable : ValidateUserOp(op)
    \/ \E op \in validated : Begin(op) \/ Refuse(op)
    \/ Finish
    \/ RollBack

Next == OwnerCalls \/ OtherCalls \/ Bundle \/ (now < MaxTime /\ Tick)

Spec == Init /\ [][Next]_vars

---------------------------------------------------------------------------
Session == [owner : Wallets \cup {Nobody}, left : Nat, perDay : Nat, mintsToday : Nat,
            day : Nat, until : Nat, generation : Nat]
Storage == [punk : Wallets \cup {Wrapper}, receipt : Wallets \cup {Nobody}, epoch : Nat,
            paused : {"NO", "YES"}, security : Nat, skill : {"EQUIPPED", "UNEQUIPPED"},
            session : Session, generation : Nat, nonce : Nat,
            authorizedEpoch : Nat, authorizedSecurity : Nat]

(* Every variable has its type: no counter goes below zero, and the daily  *)
(* count of executeSessionAcquisition never passes the session's limit.    *)
TypeOK ==
    /\ chain \in Storage /\ settled \in Storage
    /\ validated \subseteq Ops
    /\ call \in Ops \cup {NoOp}
    /\ minted \subseteq Nat
    /\ now \in Nat
    /\ chain.session.mintsToday <= chain.session.perDay

(* A receipt of the wrapper is always backed by its Punk: unwrap burns it  *)
(* before the original leaves, and a Punk sent in without wrap gets none.  *)
ReceiptsAreBacked == chain.receipt # Nobody => chain.punk = Wrapper

(* A mint that succeeds went through callbacks that changed neither the    *)
(* owner, the epoch, the pause nor the session: whatever else happened in  *)
(* it was rolled back, although transfers are allowed in a callback.       *)
CallbacksChangeNothing ==
    [][minted' # minted =>
         /\ chain'.punk = settled.punk /\ chain'.receipt = settled.receipt
         /\ chain'.epoch = settled.epoch /\ chain'.security = settled.security
         /\ chain'.generation = settled.generation
         /\ chain'.session.owner = settled.session.owner]_vars

(* The account implements OwnerGrant: the session is in force exactly      *)
(* while its epoch and security generation are the registry's.  A pause    *)
(* changes the latter, so the pause flag need not be asked.                *)
NoGrant == [number |-> 0, by |-> Nobody, left |-> 0, perDay |-> 0, until |-> 0,
            day |-> 0, mintsToday |-> 0]
InForce(c) ==
    /\ c.session.owner # Nobody
    /\ Wrapped(c)
    /\ c.epoch = c.authorizedEpoch
    /\ c.security = c.authorizedSecurity
GrantOf(c) ==
    IF InForce(c)
    THEN [number |-> c.session.generation, by |-> c.session.owner, left |-> c.session.left,
          perDay |-> c.session.perDay, until |-> c.session.until, day |-> c.session.day,
          mintsToday |-> c.session.mintsToday]
    ELSE NoGrant
Grant == INSTANCE OwnerGrant WITH
    Holders <- Wallets \cup {Nobody}, owner <- Owner(settled), grant <- GrantOf(settled),
    last <- settled.generation, bought <- minted
Implements == Grant!Spec
=============================================================================
