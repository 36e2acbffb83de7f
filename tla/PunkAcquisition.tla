--------------------------- MODULE PunkAcquisition ---------------------------
(***************************************************************************)
(* One Punk Account that buys art with the money it holds, and the three   *)
(* contracts that decide whether it may: the owner's policy                *)
(* (BrokerPolicyModule, with the automated SeaDrop route of its V2), the   *)
(* registry of agents and the registry of adapters.                        *)
(*                                                                         *)
(* Authority hangs on whoever holds the Punk at the moment of a call, so   *)
(* the same storage is read under one owner and then under another.  Four  *)
(* counters keep those readings apart: the policy's version, its           *)
(* permission generation, the agents' generation and the account's nonce.  *)
(*                                                                         *)
(* Abstractions.  An adapter stands for the venue it serves and the        *)
(* selector it builds calls with, which are fixed by its registration; the *)
(* owner's three permissions for them stay apart.  A limit on a single     *)
(* purchase is one number: the caps per transaction, per mint, per resale  *)
(* and per slippage are all of that form.  A venue's maximum is none or no *)
(* obstacle.  A purchase whose call fails or delivers nothing is rolled    *)
(* back whole, so it is not a step; nor is one the account cannot pay for. *)
(* The owner's own call is his signature used at once.                     *)
(***************************************************************************)
EXTENDS Integers, Sequences, FiniteSets, Functions

CONSTANTS
    Wallets,        \* those who may hold the Punk
    Agents,         \* the hosted agents
    Collections,
    Adapters,
    Kind,           \* what an adapter trades with: "MINT" or "MARKETPLACE"
    SeaDrop,        \* the adapter of the automated route
    Currencies,
    Native,         \* the chain's own currency
    Mandates,       \* the configurations an owner may choose
    Limits,         \* the limits an owner may give another currency
    Caps,           \* the daily counts the automated route accepts
    Prices,
    Terms,          \* for how long an owner lets an agent buy
    DayLength,      \* the ticks of a day
    DaysInWeek,
    V2,             \* whether the policy has the automated SeaDrop route
    Spoken,         \* the permissions an owner changes in this instance
    Switches,       \* the settings of the mint controls he chooses from
    MaxVersion, MaxAgentGeneration, MaxNonce, MaxSigned,    \* bounds
    MaxTime, MaxSales, MaxGuardian

ASSUME AcquisitionAssumption ==
    /\ SeaDrop \in Adapters /\ Kind[SeaDrop] = "MINT" /\ Native \in Currencies
    /\ DayLength \in Nat \ {0} /\ DaysInWeek \in Nat \ {0}
    /\ Prices \subseteq Nat /\ Terms \subseteq Nat \ {0} /\ V2 \in BOOLEAN
    /\ MaxTime \in Nat
    /\ \A m \in Mandates : m.age \in Nat /\ m.each <= m.day /\ m.day <= m.week
    /\ \A l \in Limits : l.each <= l.day /\ l.day <= l.week

VARIABLES
    holder,         \* the owner of the Punk, and so of its account
    policy,         \* PolicyState: config, configuredBy, version, generation, paused
    permission,     \* what the owner allows or denies: each word with its generation
                    \* and, as a history no guard reads, by whom it was said
    currency,       \* which currencies are allowed, with what limits, likewise
    mintControls,   \* which mints are switched on, likewise
    usage,          \* per currency: the day and the week last used, and what they spent
    acquisitions,   \* the day last used and its count of purchases
    nonce,          \* the account's acquisitionNonce
    authorization,  \* the agent registry's word on each agent
    agentGeneration,
    globalAgent,    \* until when the guardian approves an agent, 0 when he does not
    features,       \* the feature flags that are on
    paused,         \* the registries and the policy the guardian has paused
    active,         \* the adapters the guardian keeps active
    signed,         \* the intents a holder has signed
    now,
    bought,         \* history: the purchases made
    retracted,      \* history: the signed intents their holder has since taken back
    consent,        \* history: who let which agent buy, until when, and was not revoked
    refused,        \* history: the collections this holder has denied
    automated,      \* history: nothing but the automated route was set up since
    sales, acts     \* how often the Punk changed hands and the guardian acted

policyVars == <<policy, permission, currency, mintControls>>
usageVars == <<usage, acquisitions, nonce, bought>>
agentVars == <<authorization, agentGeneration, consent>>
guardianVars == <<globalAgent, features, paused, active, acts>>
vars == <<holder, policyVars, usageVars, agentVars, guardianVars,
          signed, now, retracted, refused, automated, sales>>

Nobody == "nobody"
\* the flags that some check reads
Flags == {"approval", "purchases", "mints", "unknown", "selling"}
DayOf(t) == t \div DayLength
WeekOf(t) == t \div (DayLength * DaysInWeek)

(* What an owner gives permission for, one setter each.                    *)
Keys == ({"adapter", "venue", "selector", "maximum"} \X Adapters)
        \cup ({"collection"} \X Collections)
Route(a) == {"adapter", "venue", "selector"} \X {a}
Deniable(k) == k[1] \in {"selector", "collection"}

ASSUME ChoicesAssumption ==
    /\ Spoken \subseteq Keys
    /\ Switches \subseteq SUBSET {"ownerApproved", "free", "paid"}

Types(a) == IF Kind[a] = "MINT" THEN {"MINT", "FREE_MINT"} ELSE {"SECONDARY_BUY"}
NoLimits == [each |-> 0, day |-> 0, week |-> 0]
Disabled == [mode |-> "DISABLED", each |-> 0, day |-> 0, week |-> 0, count |-> 0,
             age |-> 0, allowlist |-> TRUE, unknown |-> FALSE]
Automated(cap) ==
    [mode |-> "AUTONOMOUS", each |-> 0, day |-> 0, week |-> 0, count |-> cap,
     age |-> 1, allowlist |-> FALSE, unknown |-> TRUE]

StampVersion(status) == [status |-> status, generation |-> policy.version, by |-> holder]  \* mutant
Stamp(status) == [status |-> status, generation |-> policy.generation, by |-> holder]

InitPolicy ==
    /\ policy = [config |-> Disabled, configuredBy |-> Nobody, version |-> 0,
                 generation |-> 0, paused |-> FALSE]
    /\ permission = [k \in Keys |-> [status |-> "none", generation |-> 0, by |-> Nobody]]
    /\ currency = [c \in Currencies |->
                     [allowed |-> FALSE, limits |-> NoLimits, generation |-> 0, by |-> Nobody]]
    /\ mintControls = [on |-> {}, generation |-> 0, by |-> Nobody]

InitAccount ==
    /\ holder \in Wallets
    /\ usage = [c \in Currencies |-> [day |-> 0, week |-> 0, spentToday |-> 0, spentThisWeek |-> 0]]
    /\ acquisitions = [day |-> 0, today |-> 0]
    /\ nonce = 0 /\ bought = <<>>
    /\ authorization = [a \in Agents |->
                          [active |-> FALSE, owner |-> Nobody, until |-> 0, generation |-> 0]]
    /\ agentGeneration = 0
    \* the guardian has released the product; his later acts are steps
    /\ globalAgent = [a \in Agents |-> MaxTime + 1]
    /\ features = {"approval", "purchases", "mints", "unknown"}
    /\ paused = {} /\ active = Adapters /\ acts = 0
    /\ signed = {} /\ retracted = {} /\ consent = {} /\ refused = {} /\ automated = FALSE
    /\ now = 1 /\ sales = 0

Init == InitPolicy /\ InitAccount

(***************************************************************************)
(* The owner's policy.                                                     *)
(***************************************************************************)
IsCurrent(generation) ==
    /\ generation # 0 /\ generation = policy.generation
    /\ holder = policy.configuredBy
Allowed(k) == IsCurrent(permission[k].generation) /\ permission[k].status = "allowed"
Denied(k) == IsCurrent(permission[k].generation) /\ permission[k].status = "denied"
Controls == IF IsCurrent(mintControls.generation) THEN mintControls.on ELSE {}

\* every word of the owner takes back what he signed before it
TakeBack == retracted' = retracted \cup signed
OwnerSpeaks ==
    /\ policy.version < MaxVersion
    /\ TakeBack
    /\ UNCHANGED <<holder, usageVars, agentVars, guardianVars, signed, now, sales>>
OwnerEdits ==
    /\ holder = policy.configuredBy
    /\ policy' = [policy EXCEPT !.version = @ + 1]
    /\ automated' = FALSE
    /\ OwnerSpeaks

FeatureFor(mode) ==
    CASE mode = "APPROVAL_REQUIRED" -> {"approval"}
      [] mode = "AUTONOMOUS" -> {"purchases"}
      [] OTHER -> {}

SameGeneration == policy.generation  \* mutant
NextGeneration == policy.generation + 1

ConfigurePolicy ==
    \E m \in Mandates :
      /\ m.mode # "DISABLED" => m.age > 0
      /\ FeatureFor(m.mode) \subseteq features
      /\ policy' = [policy EXCEPT !.config = m, !.configuredBy = holder, !.version = @ + 1,
                      !.generation = IF policy.configuredBy = holder THEN @ ELSE NextGeneration]
      /\ automated' = FALSE
      /\ OwnerSpeaks
      /\ UNCHANGED <<permission, currency, mintControls, refused>>

PauseKeepsVersion == \E p \in BOOLEAN : (p \/ policy.configuredBy = holder) /\ policy' = [policy EXCEPT !.paused = p] /\ OwnerSpeaks /\ UNCHANGED <<permission, currency, mintControls, refused, automated>>  \* mutant
SetAccountPaused ==
    \E p \in BOOLEAN :
      /\ p \/ policy.configuredBy = holder
      /\ policy' = [policy EXCEPT !.paused = p, !.version = @ + 1]
      /\ OwnerSpeaks
      /\ UNCHANGED <<permission, currency, mintControls, refused, automated>>

SetPermission ==
    \E k \in Spoken, status \in {"none", "allowed", "denied"} :
      /\ status = "denied" => Deniable(k)
      /\ permission' = [permission EXCEPT ![k] = Stamp(status)]
      /\ refused' = IF k[1] # "collection" THEN refused
                    ELSE IF status = "denied" THEN refused \cup {k[2]} ELSE refused \ {k[2]}
      /\ OwnerEdits
      /\ UNCHANGED <<currency, mintControls>>

SetCurrencyPolicy ==
    \E c \in Currencies, ok \in BOOLEAN, l \in Limits :
      /\ currency' = [currency EXCEPT ![c] =
                        [allowed |-> ok, limits |-> l, generation |-> policy.generation,
                         by |-> holder]]
      /\ OwnerEdits
      /\ UNCHANGED <<permission, mintControls, refused>>

SetMintControls ==
    \E on \in Switches :
      /\ mintControls' = [on |-> on, generation |-> policy.generation, by |-> holder]
      /\ OwnerEdits
      /\ UNCHANGED <<permission, currency, refused>>

(* The whole zero-spend envelope of the SeaDrop route in one call, and its *)
(* removal in one call.  Both start a new generation, so nothing else that *)
(* was ever allowed remains.                                               *)
SeaDropKeys == {"adapter", "venue", "selector", "maximum"} \X {SeaDrop}

ReplacePolicy(config, words, on, pause) ==
    LET generation == NextGeneration
    IN /\ policy' = [config |-> config, configuredBy |-> holder, version |-> policy.version + 1,
                     generation |-> generation, paused |-> pause]
       /\ permission' = [k \in Keys |->
             IF k \in SeaDropKeys
             THEN [status |-> words[k[1]], generation |-> generation, by |-> holder]
             ELSE permission[k]]
       /\ currency' = [currency EXCEPT ![Native] =
             [allowed |-> ~pause, limits |-> NoLimits, generation |-> generation,
              by |-> holder]]
       /\ mintControls' = [on |-> on, generation |-> generation, by |-> holder]
       /\ OwnerSpeaks
       /\ UNCHANGED refused

RouteOpen == [adapter |-> "allowed", venue |-> "allowed", selector |-> "allowed",
              maximum |-> "none"]
RouteShut == [adapter |-> "none", venue |-> "none", selector |-> "denied", maximum |-> "none"]

ConfigureAutomatedSeaDrop ==
    \E cap \in Caps :
      /\ V2
      /\ {"purchases", "mints", "unknown"} \subseteq features /\ "selling" \notin features
      /\ ReplacePolicy(Automated(cap), RouteOpen, {"free"}, FALSE)
      /\ automated' = TRUE

DisableAutomatedSeaDrop ==
    /\ V2
    /\ ReplacePolicy(Disabled, RouteShut, {}, TRUE)
    /\ automated' = FALSE

(***************************************************************************)
(* The agents' registry: a word of the holder, dated and numbered.         *)
(***************************************************************************)
Registers == UNCHANGED <<holder, policyVars, usageVars, guardianVars, signed, now,
                         retracted, refused, automated, sales>>

AuthorizeAgent ==
    \E a \in Agents, term \in Terms :
      /\ globalAgent[a] >= now
      /\ now + term <= globalAgent[a]
      /\ authorization' = [authorization EXCEPT ![a] =
            [active |-> TRUE, owner |-> holder, until |-> now + term,
             generation |-> agentGeneration]]
      /\ consent' = consent \cup {<<holder, a, now + term>>}
      /\ UNCHANGED agentGeneration
      /\ Registers

RevokeAgent ==
    \E a \in Agents :
      /\ authorization' = [authorization EXCEPT ![a].active = FALSE]
      /\ consent' = {c \in consent : c[2] # a}
      /\ UNCHANGED agentGeneration
      /\ Registers

RevokeAllAgents ==
    /\ agentGeneration < MaxAgentGeneration
    /\ agentGeneration' = agentGeneration + 1
    /\ consent' = {}
    /\ UNCHANGED authorization
    /\ Registers

AnyOwnersAgent(a) == "agents" \notin paused /\ globalAgent[a] >= now /\ authorization[a].active /\ authorization[a].until >= now /\ authorization[a].generation = agentGeneration  \* mutant
IsAuthorized(a) ==
    /\ "agents" \notin paused
    /\ globalAgent[a] >= now
    /\ authorization[a].active
    /\ authorization[a].until >= now
    /\ authorization[a].generation = agentGeneration
    /\ authorization[a].owner = holder

(***************************************************************************)
(* Purchases.  An intent binds the holder, the nonce and the version it    *)
(* was made under; the adapter's call pays at most its price.              *)
(***************************************************************************)
Intents(n) ==
    [owner : {holder}, nonce : {n}, version : {policy.version}, adapter : Adapters,
     type : {"MINT", "FREE_MINT", "SECONDARY_BUY"}, collection : Collections,
     currency : Currencies, price : Prices, expiresAt : {now + policy.config.age}]
ProperIntents(n) ==
    {i \in Intents(n) : /\ i.type \in Types(i.adapter)
                        /\ i.type = "FREE_MINT" => i.price = 0}

LimitsIn(c) == IF c = Native THEN policy.config ELSE currency[c].limits

ModeAllows(i, approved) ==
    IF approved
    THEN /\ "approval" \in features
         /\ policy.config.mode \in {"APPROVAL_REQUIRED", "AUTONOMOUS"}
    ELSE /\ "purchases" \in features
         /\ policy.config.mode = "AUTONOMOUS"
         /\ Kind[i.adapter] = "MINT" => "mints" \in features

AutomatedCollection(i, approved) ==
    /\ V2 /\ ~approved /\ i.type = "FREE_MINT" /\ i.adapter = SeaDrop
    /\ ~policy.config.allowlist /\ policy.config.unknown
    /\ {"purchases", "mints", "unknown"} \subseteq features

\* what the owner's mandate lets the account buy of a collection he said nothing of
UnknownAllowed(i, approved) ==
    \/ AutomatedCollection(i, approved)
    \/ /\ Kind[i.adapter] = "MARKETPLACE"
       /\ ~policy.config.allowlist /\ policy.config.unknown
       /\ approved \/ "unknown" \in features

CollectionAllowed(i, approved) ==
    LET k == <<"collection", i.collection>>
    IN ~Denied(k) /\ (Allowed(k) \/ UnknownAllowed(i, approved))

SwitchFor(paid, approved) ==
    IF approved THEN "ownerApproved" ELSE IF paid = 0 THEN "free" ELSE "paid"
MintAllowed(i, paid, approved) ==
    Kind[i.adapter] = "MINT" =>
        /\ i.type = "FREE_MINT" => paid = 0
        /\ SwitchFor(paid, approved) \in Controls

AdapterValid(a) == "adapters" \notin paused /\ a \in active

SpentToday(c) == IF usage[c].day = DayOf(now) THEN usage[c].spentToday ELSE 0
WeekRollsDaily(c) == IF usage[c].day = DayOf(now) THEN usage[c].spentThisWeek ELSE 0  \* mutant
SpentThisWeek(c) == IF usage[c].week = WeekOf(now) THEN usage[c].spentThisWeek ELSE 0
AcquiredToday == IF acquisitions.day = DayOf(now) THEN acquisitions.today ELSE 0

\* the checks of validateAndConsume, in its order
PolicyAllows(i, paid, approved) ==
    /\ "policy" \notin paused
    /\ ~policy.paused
    /\ policy.configuredBy = holder
    /\ i.version = policy.version
    /\ ModeAllows(i, approved)
    /\ i.owner = holder /\ now <= i.expiresAt
    /\ Allowed(<<"adapter", i.adapter>>)
    /\ AdapterValid(i.adapter)
    /\ Allowed(<<"venue", i.adapter>>)
    /\ CollectionAllowed(i, approved)
    /\ paid <= i.price
    /\ MintAllowed(i, paid, approved)
    /\ ~Denied(<<"selector", i.adapter>>) /\ Allowed(<<"selector", i.adapter>>)
    /\ IsCurrent(currency[i.currency].generation) /\ currency[i.currency].allowed
    /\ paid > 0 => Allowed(<<"maximum", i.adapter>>)
    /\ paid <= LimitsIn(i.currency).each
    /\ SpentToday(i.currency) + paid <= LimitsIn(i.currency).day
    /\ SpentThisWeek(i.currency) + paid <= LimitsIn(i.currency).week
    /\ AcquiredToday + 1 <= policy.config.count

Consume(i, paid) ==
    /\ usage' = [usage EXCEPT ![i.currency] =
          [day |-> DayOf(now), week |-> WeekOf(now),
           spentToday |-> SpentToday(i.currency) + paid,
           spentThisWeek |-> SpentThisWeek(i.currency) + paid]]
    /\ acquisitions' = [day |-> DayOf(now), today |-> AcquiredToday + 1]

\* the envelope the account itself checks before it asks anyone
Envelope(i) == i.owner = holder /\ i.version = policy.version /\ i.nonce = nonce

SameNonce(n) == n  \* mutant
NextNonce(n) == n + 1

ExecuteAcquisition(i, paid, approved, actor) ==
    /\ nonce < MaxNonce
    /\ Envelope(i)
    /\ PolicyAllows(i, paid, approved)
    /\ Consume(i, paid)
    /\ nonce' = NextNonce(i.nonce)
    /\ bought' = Append(bought, [intent |-> i, paid |-> paid, at |-> now,
                                 approved |-> approved, actor |-> actor])
    /\ UNCHANGED <<holder, policyVars, agentVars, guardianVars, signed, now,
                   retracted, refused, automated, sales>>

Sign ==
    \E n \in {nonce, nonce + 1} : \E i \in ProperIntents(n) :
      /\ policy.version > 0 /\ policy.config.age > 0 /\ nonce < MaxNonce
      /\ Cardinality(signed) < MaxSigned
      /\ signed' = signed \cup {i}
      /\ UNCHANGED <<holder, policyVars, usageVars, agentVars, guardianVars, now,
                     retracted, refused, automated, sales>>

\* anyone may carry a signed intent to the account; the signature must be the holder's
ExecuteApprovedAcquisition ==
    \E i \in signed, paid \in Prices :
      /\ i.owner = holder
      /\ ExecuteAcquisition(i, paid, TRUE, holder)

ExecuteAutonomousAcquisition ==
    \E a \in Agents, i \in ProperIntents(nonce), paid \in Prices :
      /\ policy.config.age > 0
      /\ IsAuthorized(a)
      /\ ExecuteAcquisition(i, paid, FALSE, a)

CancelPendingAcquisitions ==
    \E n \in (nonce + 1)..MaxNonce :
      /\ nonce' = n
      /\ retracted' = retracted \cup {i \in signed : i.nonce < n}
      /\ UNCHANGED <<holder, policyVars, usage, acquisitions, bought, agentVars, guardianVars,
                     signed, now, refused, automated, sales>>

(***************************************************************************)
(* Around them: the Punk is sold, the guardian acts, time passes.          *)
(***************************************************************************)
Sell ==
    \E w \in Wallets \ {holder} :
      /\ sales < MaxSales
      /\ holder' = w /\ sales' = sales + 1
      /\ refused' = {}
      /\ UNCHANGED <<policyVars, usageVars, agentVars, guardianVars, signed, now,
                     retracted, automated>>

Guards == /\ acts < MaxGuardian
          /\ acts' = acts + 1
          /\ UNCHANGED <<holder, policyVars, usageVars, agentVars, signed, now,
                         retracted, refused, automated, sales>>

SetFeatureFlags ==
    \E f \in SUBSET Flags :
      /\ {"mints", "unknown"} \cap f # {} => "purchases" \in f
      /\ features' = f
      /\ Guards /\ UNCHANGED <<globalAgent, paused, active>>

SetGloballyPaused ==
    \E which \in {"policy", "agents", "adapters"} :
      /\ paused' = IF which \in paused THEN paused \ {which} ELSE paused \cup {which}
      /\ Guards /\ UNCHANGED <<globalAgent, features, active>>

ConfigureGlobalAgent ==
    \E a \in Agents, until \in {0} \cup ((now + 1)..(MaxTime + 1)) :
      /\ globalAgent' = [globalAgent EXCEPT ![a] = until]
      /\ Guards /\ UNCHANGED <<features, paused, active>>

SetAdapterActive ==
    \E a \in Adapters :
      /\ active' = IF a \in active THEN active \ {a} ELSE active \cup {a}
      /\ Guards /\ UNCHANGED <<globalAgent, features, paused>>

Tick == /\ now < MaxTime
        /\ now' = now + 1
        /\ UNCHANGED <<holder, policyVars, usageVars, agentVars, guardianVars, signed,
                       retracted, refused, automated, sales>>

Next == \/ ConfigurePolicy \/ SetAccountPaused \/ SetPermission \/ SetCurrencyPolicy
        \/ SetMintControls \/ ConfigureAutomatedSeaDrop \/ DisableAutomatedSeaDrop
        \/ AuthorizeAgent \/ RevokeAgent \/ RevokeAllAgents
        \/ Sign \/ ExecuteApprovedAcquisition \/ ExecuteAutonomousAcquisition
        \/ CancelPendingAcquisitions
        \/ Sell \/ SetFeatureFlags \/ SetGloballyPaused \/ ConfigureGlobalAgent
        \/ SetAdapterActive \/ Tick

Spec == Init /\ [][Next]_vars

(***************************************************************************)
(* Properties.                                                             *)
(***************************************************************************)
Stamped == [status : {"none", "allowed", "denied"}, generation : Nat, by : Wallets \cup {Nobody}]

(* Every variable keeps its shape: the counters count, every stamp carries *)
(* a generation, every history names wallets and intents that exist.       *)
AcquisitionTypeOK ==
    /\ holder \in Wallets
    /\ policy \in [config : Mandates \cup {Disabled} \cup {Automated(cap) : cap \in Caps},
                   configuredBy : Wallets \cup {Nobody}, version : Nat,
                   generation : Nat, paused : BOOLEAN]
    /\ policy.generation <= policy.version
    /\ permission \in [Keys -> Stamped]
    /\ \A k \in Keys : /\ permission[k].generation <= policy.generation
                       /\ permission[k].status = "denied" => Deniable(k)
    /\ currency \in [Currencies ->
          [allowed : BOOLEAN, limits : Limits \cup {NoLimits},
           generation : 0..policy.generation, by : Wallets \cup {Nobody}]]
    /\ mintControls \in [on : SUBSET {"ownerApproved", "free", "paid"},
                         generation : 0..policy.generation, by : Wallets \cup {Nobody}]
    /\ usage \in [Currencies -> [day : Nat, week : Nat, spentToday : Nat, spentThisWeek : Nat]]
    /\ acquisitions \in [day : Nat, today : Nat]
    /\ nonce \in Nat /\ agentGeneration \in Nat /\ now \in Nat
    /\ authorization \in [Agents -> [active : BOOLEAN, owner : Wallets \cup {Nobody},
                                     until : Nat, generation : 0..agentGeneration]]
    /\ globalAgent \in [Agents -> Nat]
    /\ features \subseteq Flags
    /\ paused \subseteq {"policy", "agents", "adapters"}
    /\ active \subseteq Adapters
    /\ retracted \subseteq signed
    /\ consent \subseteq Wallets \X Agents \X Nat
    /\ refused \subseteq Collections
    /\ automated \in BOOLEAN /\ sales \in Nat /\ acts \in Nat

Buys == bought' # bought
Newest == bought'[Len(bought')]

(* A purchase on a signature is one the present holder signed and has not  *)
(* taken back: by a change of his policy, of a permission or of the pause  *)
(* (and lifting the pause does not give it back), or by cancelling its     *)
(* nonce.  Nobody can keep a signature for a better day.                   *)
SignaturesDieWithTheirTerms ==
    [][Buys /\ Newest.approved =>
         /\ Newest.intent.owner = holder
         /\ Newest.intent \in signed \ retracted]_vars

(* An agent buys only under a holder who let it, for a time not yet over,  *)
(* and after no revocation, by him or by a holder since, that named it or  *)
(* all agents.                                                             *)
AgentsAreLet ==
    [][Buys /\ ~Newest.approved =>
         \E c \in consent : c[1] = holder /\ c[2] = Newest.actor /\ c[3] >= now]_vars

(* The permissions a purchase p rests on: those of its route, the venue's  *)
(* maximum when it pays, and its collection's unless the mandate lets the  *)
(* account buy of collections its owner said nothing of.                   *)
Grounds(p) ==
    Route(p.intent.adapter)
    \cup {k \in {<<"maximum", p.intent.adapter>>} : p.paid > 0}
    \cup {k \in {<<"collection", p.intent.collection>>} : ~UnknownAllowed(p.intent, p.approved)}

(* All a purchase rests on is the present holder's own word: the mandate,  *)
(* every permission, the currency with its limits, and the switch of its   *)
(* kind of mint.  None is inherited from an earlier holder of the Punk,    *)
(* whoever configured what in between and whoever buys it back.            *)
NoInheritedPermission ==
    [][Buys =>
         /\ policy.configuredBy = holder
         /\ \A k \in Grounds(Newest) :
                permission[k].by = holder /\ permission[k].status = "allowed"
         /\ currency[Newest.intent.currency].by = holder
         /\ currency[Newest.intent.currency].allowed
         /\ Kind[Newest.intent.adapter] = "MINT" =>
                /\ mintControls.by = holder
                /\ SwitchFor(Newest.paid, Newest.approved) \in mintControls.on]_vars

(* The nonces of the purchases rise: no intent is executed twice, and none *)
(* after a later one or below a cancellation.                              *)
EachIntentOnce ==
    \A m, n \in DOMAIN bought :
        m < n => bought[m].intent.nonce < bought[n].intent.nonce

\* The purchases of a history in a day, in a week, and what those in a currency paid.
InDay(b, d) == {n \in DOMAIN b : DayOf(b[n].at) = d}
InWeek(b, w) == {n \in DOMAIN b : WeekOf(b[n].at) = w}
Payments(b) == [n \in DOMAIN b |-> b[n].paid]
Paid(b, c, when) == SumFunctionOnSet(Payments(b), {n \in when : b[n].intent.currency = c})

(* What was paid in a currency during this day and this week of the clock, *)
(* and how often anything was bought today, stay within the limits in      *)
(* force at each purchase: counted over the purchases themselves, however  *)
(* the buckets of usage rolled, and whoever bought.                        *)
BudgetsHold ==
    [][Buys =>
         LET c == Newest.intent.currency
         IN /\ Paid(bought', c, InDay(bought', DayOf(now))) <= LimitsIn(c).day
            /\ Paid(bought', c, InWeek(bought', WeekOf(now))) <= LimitsIn(c).week
            /\ Cardinality(InDay(bought', DayOf(now))) <= policy.config.count]_vars

(* Whatever the account was allowed to do before, once its owner set up    *)
(* the automated SeaDrop route and nothing after it, all it buys is free   *)
(* mints through that route's adapter, and it pays nothing for them.       *)
AutomatedSpendsNothing ==
    [][Buys /\ automated =>
         /\ Newest.intent.type = "FREE_MINT" /\ Newest.intent.adapter = SeaDrop
         /\ Newest.paid = 0 /\ ~Newest.approved]_vars

(* A collection that the holder has denied, and not since allowed or       *)
(* cleared, is not bought from: "Explicit collection denials still win".   *)
DenialStands == [][Buys => Newest.intent.collection \notin refused]_vars
=============================================================================
