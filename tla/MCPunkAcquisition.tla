-------------------------- MODULE MCPunkAcquisition --------------------------
(* Small instances of PunkAcquisition.                                      *)
EXTENDS PunkAcquisition, TLC

CONSTANTS Alice, Bob, Agent, Drop, Market, Art, Ether, Token

MCKind == [a \in Adapters |-> IF a = Market THEN "MARKETPLACE" ELSE "MINT"]

Mandate(mode, each, day, week, count, allowlist) ==
    [mode |-> mode, each |-> each, day |-> day, week |-> week, count |-> count,
     age |-> 1, allowlist |-> allowlist, unknown |-> ~allowlist]
Steady == Mandate("AUTONOMOUS", 1, 1, 1, 1, TRUE)
Asking == Mandate("APPROVAL_REQUIRED", 1, 1, 1, 2, TRUE)
Wide == Mandate("AUTONOMOUS", 1, 2, 3, 3, TRUE)
Narrow == Mandate("AUTONOMOUS", 1, 1, 1, 2, TRUE)
OneMandate == {Steady}
LifeMandates == {Wide, Narrow, Asking}

OneLimit == {[each |-> 1, day |-> 1, week |-> 1]}
NoLimit == {}

NoWords == {}
ArtWords == {<<"collection", Art>>}
RouteWords == {<<"adapter", Drop>>, <<"collection", Art>>}
NoSwitches == {}
AllSwitches == {{}, {"ownerApproved", "free", "paid"}}

(* Alice has set the account up call by call: everything it may trade with *)
(* is allowed, in the first generation.                                    *)
Permitted(version, mandates, currencies) ==
    /\ holder = Alice
    /\ policy \in {[config |-> m, configuredBy |-> Alice, version |-> version,
                    generation |-> 1, paused |-> FALSE] : m \in mandates}
    /\ permission = [k \in Keys |-> [status |-> "allowed", generation |-> 1, by |-> Alice]]
    /\ currency = [c \in Currencies |->
                     [allowed |-> c \in currencies,
                      by |-> IF c \in currencies THEN Alice ELSE Nobody,
                      generation |-> IF c \in currencies THEN 1 ELSE 0,
                      limits |-> IF c \in currencies \ {Native} /\ Limits # {}
                                 THEN CHOOSE l \in Limits : TRUE ELSE NoLimits]]
    /\ mintControls = [on |-> {"ownerApproved", "free", "paid"}, generation |-> 1,
                       by |-> Alice]

(* The same account later in its life, with part of what the bounds allow  *)
(* behind it, so that one run asks three questions: whose word a purchase  *)
(* rests on, how much is bought over days, and how long a signature holds. *)
Lived ==
    /\ usage = [c \in Currencies |->
                  [day |-> 0, week |-> 0, spentToday |-> 0, spentThisWeek |-> 0]]
    /\ acquisitions = [day |-> 0, today |-> 0] /\ bought = <<>>
    /\ authorization = [a \in Agents |->
                          [active |-> FALSE, owner |-> Nobody, until |-> 0, generation |-> 0]]
    /\ features = {"approval", "purchases", "mints", "unknown"}
    /\ paused = {} /\ consent = {} /\ refused = {} /\ automated = FALSE

\* What Bob signed when the Punk was his ran out with the first word of Alice.
OnceSigned ==
    /\ signed = {[owner |-> Bob, nonce |-> 0, version |-> 1, adapter |-> Drop,
                  type |-> "MINT", collection |-> Art, currency |-> Ether,
                  price |-> 1, expiresAt |-> 1]}
    /\ retracted = signed

\* The early nonces were cancelled and the clock has run.
Tenure ==
    /\ Permitted(MaxVersion - 3, {Narrow}, Currencies)
    /\ nonce = MaxNonce - 1 /\ now = MaxTime /\ sales = 0 /\ agentGeneration = 0
    /\ globalAgent = [a \in Agents |-> MaxTime + 4] /\ active = Adapters
    /\ acts = MaxGuardian /\ OnceSigned /\ Lived

\* Alice has bought the Punk back and revoked all agents then; the guardian has
\* retired the market.
Budget ==
    /\ Permitted(MaxVersion - 1, {Wide, Narrow}, {Native})
    /\ nonce = 0 /\ now = 1 /\ sales = MaxSales /\ agentGeneration = MaxAgentGeneration
    /\ globalAgent = [a \in Agents |-> 5] /\ active = {Drop}
    /\ acts = MaxGuardian /\ OnceSigned /\ Lived

\* Alice has every purchase ask for her signature.  Either she may change her mind
\* twice, or the guardian acts, once.
Signature ==
    /\ \/ Permitted(MaxVersion - 2, {Asking}, {Native}) /\ acts = MaxGuardian /\ sales = 0
       \/ Permitted(MaxVersion - 1, {Asking}, {Native}) /\ acts = 0 /\ sales = MaxSales
    /\ nonce = MaxNonce - 2 /\ now = MaxTime
    /\ agentGeneration = MaxAgentGeneration
    /\ globalAgent = [a \in Agents |-> 0] /\ active = {Drop}
    /\ signed = {} /\ retracted = {} /\ Lived

\* Bob had set everything up.  Alice has bought the Punk, configured and allowed
\* it all anew but for one permission, or the currencies, or the switches: what
\* is still written there is Bob's.
Renewing ==
    \E forgotten \in {{}} \cup {{k} : k \in Keys}, spend, switched \in BOOLEAN :
        LET generation(new) == IF new THEN 2 ELSE 1
            by(new) == IF new THEN Alice ELSE Bob
            word(new) == [status |-> "allowed", generation |-> generation(new), by |-> by(new)]
        IN  /\ forgotten = {} \/ (spend /\ switched)
            /\ holder = Alice
            /\ policy = [config |-> Narrow, configuredBy |-> Alice, paused |-> FALSE,
                         version |-> MaxVersion - 1, generation |-> 2]
            /\ permission = [k \in Keys |-> word(k \notin forgotten)]
            /\ currency = [c \in Currencies |->
                             [allowed |-> TRUE, by |-> by(spend),
                              generation |-> generation(spend),
                              limits |-> IF c = Native THEN NoLimits
                                         ELSE CHOOSE l \in Limits : TRUE]]
            /\ mintControls = [on |-> {"ownerApproved", "free", "paid"},
                               generation |-> generation(switched), by |-> by(switched)]
            /\ nonce = MaxNonce - 1 /\ now = MaxTime /\ sales = MaxSales
            /\ agentGeneration = MaxAgentGeneration
            /\ globalAgent = [a \in Agents |-> MaxTime + 4] /\ active = Adapters
            /\ acts = MaxGuardian /\ OnceSigned /\ Lived

LifeSpec == (Tenure \/ Budget \/ Signature \/ Renewing) /\ [][Next]_vars
=============================================================================
