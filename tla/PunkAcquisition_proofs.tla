----------------------- MODULE PunkAcquisition_proofs -----------------------
(***************************************************************************)
(* What a Punk Account may buy, for any number of wallets, agents,         *)
(* adapters, mandates and sales.                                           *)
(***************************************************************************)
EXTENDS PunkAcquisition, SumTheorems, TLAPS

Owners == Wallets \cup {Nobody}
Configs == Mandates \cup {Disabled} \cup {Automated(cap) : cap \in Caps}
Policies == [config : Configs, configuredBy : Owners, version : Nat,
             generation : Nat, paused : BOOLEAN]
IntentRecords == [owner : Wallets, nonce : Nat, version : Nat, adapter : Adapters,
                  type : {"MINT", "FREE_MINT", "SECONDARY_BUY"}, collection : Collections,
                  currency : Currencies, price : Nat, expiresAt : Nat]
Purchases == [intent : IntentRecords, paid : Nat, at : Nat, approved : BOOLEAN,
              actor : Wallets \cup Agents]

(* The policy: a stamp of the current generation was written by the wallet *)
(* that configured the policy, for a new configurator starts a new         *)
(* generation.                                                             *)
PolicyTyped == /\ holder \in Wallets
               /\ policy \in Policies
               /\ permission \in [Keys -> Stamped]
OneAuthor ==
    \A k \in Keys :
        /\ permission[k].generation <= policy.generation
        /\ permission[k].generation # 0 /\ permission[k].generation = policy.generation
             => permission[k].by = policy.configuredBy

(* The agents: an authorization that is active in the current generation   *)
(* is one its owner gave and nobody took back.                             *)
AgentsTyped ==
    /\ agentGeneration \in Nat
    /\ authorization \in [Agents -> [active : BOOLEAN, owner : Owners, until : Nat,
                                     generation : Nat]]
LiveIsLet ==
    \A a \in Agents :
        /\ authorization[a].generation <= agentGeneration
        /\ authorization[a].active /\ authorization[a].generation = agentGeneration
             => <<authorization[a].owner, a, authorization[a].until>> \in consent

(* The account: purchases lie below the nonce, and what was taken back is  *)
(* behind the policy's version or the nonce.                               *)
AccountTyped ==
    /\ nonce \in Nat /\ now \in Nat
    /\ signed \subseteq IntentRecords
    /\ bought \in Seq(Purchases)
BelowTheNonce == \A n \in DOMAIN bought : bought[n].intent.nonce < nonce
Ordered == EachIntentOnce
TakenBackIsDead ==
    /\ retracted \subseteq signed
    /\ \A i \in signed : i.version <= policy.version
    /\ \A i \in retracted : i.version < policy.version \/ i.nonce < nonce

IInv == /\ PolicyTyped /\ OneAuthor
        /\ AgentsTyped /\ LiveIsLet
        /\ AccountTyped /\ BelowTheNonce /\ Ordered /\ TakenBackIsDead

USE DEF policyVars, usageVars, agentVars, guardianVars

-----------------------------------------------------------------------------
(* Init establishes the invariant.                                         *)
LEMMA InitIInv ==
    ASSUME AcquisitionAssumption, Init PROVE IInv
<1> USE DEF Init, InitPolicy, InitAccount
<1>1. PolicyTyped
  BY DEF PolicyTyped, Policies, Configs, Owners, Stamped
<1>2. OneAuthor
  BY DEF OneAuthor
<1>3. AgentsTyped /\ LiveIsLet
  BY DEF AgentsTyped, LiveIsLet, Owners
<1>4. AccountTyped /\ BelowTheNonce /\ Ordered /\ TakenBackIsDead
  BY DEF AccountTyped, BelowTheNonce, Ordered, EachIntentOnce, TakenBackIsDead
<1> QED BY <1>1, <1>2, <1>3, <1>4 DEF IInv

-----------------------------------------------------------------------------
(* The parts of a policy, and the ways the pause and a permission edit it.  *)
LEMMA PolicyParts ==
    ASSUME NEW p \in Policies
    PROVE  /\ p.version + 1 \in Nat /\ p.generation \in Nat /\ p.generation + 1 \in Nat
           /\ p.configuredBy \in Owners
BY DEF Policies

LEMMA Pauses ==
    ASSUME NEW p \in Policies, NEW b \in BOOLEAN, NEW q,
           q = [p EXCEPT !.paused = b, !.version = @ + 1]
    PROVE  /\ q \in Policies /\ q.configuredBy = p.configuredBy
           /\ q.generation = p.generation /\ q.version = p.version + 1
<1>1. p.version + 1 \in Nat
  BY PolicyParts
<1> QED BY <1>1, Zenon DEF Policies

LEMMA Edits ==
    ASSUME NEW p \in Policies, NEW q, q = [p EXCEPT !.version = @ + 1]
    PROVE  /\ q \in Policies /\ q.configuredBy = p.configuredBy
           /\ q.generation = p.generation /\ q.version = p.version + 1
<1>1. p.version + 1 \in Nat
  BY PolicyParts
<1> QED BY <1>1, Zenon DEF Policies

(* A replacement of the policy starts a generation that no stamp outside   *)
(* it has.                                                                 *)
LEMMA ReplacementKeepsPolicy ==
    ASSUME PolicyTyped, OneAuthor,
           NEW config \in Configs, NEW words \in {RouteOpen, RouteShut}, NEW on,
           NEW pause \in BOOLEAN, ReplacePolicy(config, words, on, pause)
    PROVE  PolicyTyped' /\ OneAuthor'
<1> DEFINE generation == policy.generation + 1
           stamp(s) == [status |-> s, generation |-> generation, by |-> holder]
<1>1. /\ policy' = [config |-> config, configuredBy |-> holder, version |-> policy.version + 1,
                    generation |-> generation, paused |-> pause]
      /\ permission' = [k \in Keys |-> IF k \in SeaDropKeys THEN stamp(words[k[1]])
                                       ELSE permission[k]]
      /\ holder' = holder
  BY DEF ReplacePolicy, NextGeneration, OwnerSpeaks
<1>2. \A k \in SeaDropKeys : words[k[1]] \in {"none", "allowed", "denied"}
  BY DEF SeaDropKeys, RouteOpen, RouteShut
<1>3. \A k \in Keys : \/ permission'[k] = permission[k]
                      \/ /\ permission'[k].by = holder
                         /\ permission'[k].generation = generation
                         /\ permission'[k] \in Stamped
  <2>1. \A s \in {"none", "allowed", "denied"} :
            stamp(s) \in Stamped /\ stamp(s).by = holder /\ stamp(s).generation = generation
    BY DEF PolicyTyped, Policies, Stamped
  <2> QED BY <1>1, <1>2, <2>1
<1>4. PolicyTyped'
  <2>1. policy' \in Policies
    BY <1>1 DEF PolicyTyped, Policies, Owners
  <2>2. permission' \in [Keys -> Stamped]
    BY <1>1, <1>3 DEF PolicyTyped
  <2> QED BY <1>1, <2>1, <2>2 DEF PolicyTyped
<1>5. OneAuthor'
  BY <1>1, <1>3 DEF PolicyTyped, Policies, OneAuthor, Stamped
<1> QED BY <1>4, <1>5

(* Whoever edits the policy's permissions is the one who configured it, and*)
(* whoever configures it anew ends every stamp before.                     *)
LEMMA PolicyStep ==
    ASSUME AcquisitionAssumption, PolicyTyped, OneAuthor, [Next]_vars
    PROVE  PolicyTyped' /\ OneAuthor'
<1> USE DEF PolicyTyped, OneAuthor
<1>0. policy.generation \in Nat /\ policy.configuredBy \in Owners
  BY PolicyParts
<1>e. ASSUME policy' = [policy EXCEPT !.version = @ + 1], holder' = holder,
             permission' = permission
      PROVE PolicyTyped' /\ OneAuthor'
  <2>1. /\ policy' \in Policies /\ policy'.configuredBy = policy.configuredBy
        /\ policy'.generation = policy.generation
    BY <1>e, Edits
  <2> QED BY <1>e, <2>1
<1>1. CASE ConfigurePolicy
  <2>1. PICK m \in Mandates :
            /\ policy' = [policy EXCEPT !.config = m, !.configuredBy = holder,
                             !.version = @ + 1,
                             !.generation = IF policy.configuredBy = holder THEN @
                                            ELSE NextGeneration]
            /\ holder' = holder /\ permission' = permission
    BY <1>1 DEF ConfigurePolicy, OwnerSpeaks
  <2>2. m \in Configs /\ holder \in Owners
    BY DEF Configs, Owners
  <2> DEFINE g == IF policy.configuredBy = holder THEN policy.generation
                  ELSE policy.generation + 1
  <2>3. /\ g \in Nat
        /\ policy' = [policy EXCEPT !.config = m, !.configuredBy = holder,
                         !.version = @ + 1, !.generation = g]
    BY <1>0, <2>1, PolicyParts DEF NextGeneration
  <2>a. \/ policy.configuredBy = holder /\ g = policy.generation
        \/ g = policy.generation + 1
    OBVIOUS
  <2> HIDE DEF g
  <2>4. policy' \in Policies /\ policy'.configuredBy = holder /\ policy'.generation = g
    <3>1. policy \in Policies /\ policy.version + 1 \in Nat
      BY PolicyParts
    <3> QED BY <2>2, <2>3, <3>1, Zenon DEF Policies
  <2>5. \A k \in Keys : permission[k].generation \in Nat
    BY DEF Stamped
  <2> QED BY <1>0, <2>1, <2>a, <2>4, <2>5
<1>2. CASE SetAccountPaused
  <2>1. PICK p \in BOOLEAN : /\ policy' = [policy EXCEPT !.paused = p, !.version = @ + 1]
                            /\ holder' = holder /\ permission' = permission
    BY <1>2 DEF SetAccountPaused, OwnerSpeaks
  <2>2. /\ policy' \in Policies /\ policy'.configuredBy = policy.configuredBy
        /\ policy'.generation = policy.generation
    BY <2>1, Pauses
  <2> QED BY <2>1, <2>2
<1>3. CASE SetPermission
  <2>1. PICK k \in Spoken, status \in {"none", "allowed", "denied"} :
            /\ permission' = [permission EXCEPT ![k] = Stamp(status)]
            /\ policy' = [policy EXCEPT !.version = @ + 1]
            /\ holder' = holder /\ holder = policy.configuredBy
    BY <1>3 DEF SetPermission, OwnerEdits, OwnerSpeaks
  <2>2. /\ policy' \in Policies /\ policy'.configuredBy = policy.configuredBy
        /\ policy'.generation = policy.generation
    BY <2>1, Edits
  <2>3. /\ Stamp(status) \in Stamped /\ Stamp(status).by = holder
        /\ Stamp(status).generation = policy.generation
    BY <1>0 DEF Stamp, Stamped
  <2>4. permission' \in [Keys -> Stamped]
    BY <2>1, <2>3
  <2>5. ASSUME NEW j \in Keys PROVE
            /\ permission'[j].generation <= policy'.generation
            /\ permission'[j].generation # 0 /\ permission'[j].generation = policy'.generation
                 => permission'[j].by = policy'.configuredBy
    <3>1. CASE j = k
      BY <1>0, <2>1, <2>2, <2>3, <3>1
    <3>2. CASE j # k
      BY <2>1, <2>2, <3>2
    <3> QED BY <3>1, <3>2
  <2> QED BY <2>1, <2>2, <2>4, <2>5
<1>4. CASE SetCurrencyPolicy
  BY <1>4, <1>e DEF SetCurrencyPolicy, OwnerEdits, OwnerSpeaks
<1>5. CASE SetMintControls
  BY <1>5, <1>e DEF SetMintControls, OwnerEdits, OwnerSpeaks
<1>6. CASE ConfigureAutomatedSeaDrop
  <2>1. PICK cap \in Caps : ReplacePolicy(Automated(cap), RouteOpen, {"free"}, FALSE)
    BY <1>6 DEF ConfigureAutomatedSeaDrop
  <2>2. Automated(cap) \in Configs
    BY DEF Configs
  <2> QED BY <2>1, <2>2, ReplacementKeepsPolicy
<1>7. CASE DisableAutomatedSeaDrop
  <2>1. ReplacePolicy(Disabled, RouteShut, {}, TRUE)
    BY <1>7 DEF DisableAutomatedSeaDrop
  <2>2. Disabled \in Configs
    BY DEF Configs
  <2> QED BY <2>1, <2>2, ReplacementKeepsPolicy
<1>8. CASE Sell
  BY <1>8 DEF Sell
<1>9. CASE AuthorizeAgent \/ RevokeAgent \/ RevokeAllAgents
  BY <1>9 DEF AuthorizeAgent, RevokeAgent, RevokeAllAgents, Registers
<1>10. CASE Sign \/ CancelPendingAcquisitions \/ Tick
  BY <1>10 DEF Sign, CancelPendingAcquisitions, Tick
<1>11. CASE ExecuteApprovedAcquisition \/ ExecuteAutonomousAcquisition
  BY <1>11 DEF ExecuteApprovedAcquisition, ExecuteAutonomousAcquisition, ExecuteAcquisition
<1>12. CASE SetFeatureFlags \/ SetGloballyPaused \/ ConfigureGlobalAgent \/ SetAdapterActive
  BY <1>12 DEF SetFeatureFlags, SetGloballyPaused, ConfigureGlobalAgent, SetAdapterActive, Guards
<1>13. CASE UNCHANGED vars
  BY <1>13 DEF vars
<1> QED BY <1>1, <1>2, <1>3, <1>4, <1>5, <1>6, <1>7, <1>8, <1>9, <1>10, <1>11, <1>12, <1>13
        DEF Next

(* An authorization is written with its consent, a revocation of one agent *)
(* ends its flag, and a revocation of all starts a new generation.         *)
LEMMA AgentsStep ==
    ASSUME AcquisitionAssumption, PolicyTyped, AccountTyped, AgentsTyped, LiveIsLet, [Next]_vars
    PROVE  AgentsTyped' /\ LiveIsLet'
<1> USE DEF AgentsTyped, LiveIsLet
<1>1. CASE AuthorizeAgent
  <2>1. PICK a \in Agents, term \in Terms :
            /\ authorization' = [authorization EXCEPT ![a] =
                 [active |-> TRUE, owner |-> holder, until |-> now + term,
                  generation |-> agentGeneration]]
            /\ consent' = consent \cup {<<holder, a, now + term>>}
            /\ agentGeneration' = agentGeneration
    BY <1>1 DEF AuthorizeAgent
  <2>2. now + term \in Nat /\ holder \in Owners
    BY DEF AcquisitionAssumption, PolicyTyped, AccountTyped, Owners
  <2> QED BY <2>1, <2>2
<1>2. CASE RevokeAgent
  <2>1. PICK a \in Agents :
            /\ authorization' = [authorization EXCEPT ![a].active = FALSE]
            /\ consent' = {c \in consent : c[2] # a}
            /\ agentGeneration' = agentGeneration
    BY <1>2 DEF RevokeAgent
  <2>2. AgentsTyped'
    BY <2>1
  <2>3. ASSUME NEW b \in Agents PROVE
            /\ authorization'[b].generation <= agentGeneration'
            /\ authorization'[b].active /\ authorization'[b].generation = agentGeneration'
                 => <<authorization'[b].owner, b, authorization'[b].until>> \in consent'
    <3>1. CASE b = a
      BY <2>1, <3>1
    <3>2. CASE b # a
      BY <2>1, <3>2
    <3> QED BY <3>1, <3>2
  <2> QED BY <2>2, <2>3
<1>3. CASE RevokeAllAgents
  <2>1. /\ agentGeneration' = agentGeneration + 1 /\ authorization' = authorization
        /\ consent' = {}
    BY <1>3 DEF RevokeAllAgents
  <2>2. \A a \in Agents : /\ authorization[a].generation \in Nat
                          /\ authorization[a].generation <= agentGeneration
    OBVIOUS
  <2> QED BY <2>1, <2>2
<1>4. CASE UNCHANGED agentVars
  BY <1>4
<1>5. ConfigurePolicy \/ SetAccountPaused \/ SetPermission \/ SetCurrencyPolicy
        \/ SetMintControls \/ ConfigureAutomatedSeaDrop \/ DisableAutomatedSeaDrop
        => UNCHANGED agentVars
  BY DEF ConfigurePolicy, SetAccountPaused, SetPermission, SetCurrencyPolicy, SetMintControls,
         ConfigureAutomatedSeaDrop, DisableAutomatedSeaDrop, ReplacePolicy, OwnerEdits, OwnerSpeaks
<1>6. Sign \/ ExecuteApprovedAcquisition \/ ExecuteAutonomousAcquisition
        \/ CancelPendingAcquisitions \/ Sell \/ Tick => UNCHANGED agentVars
  BY DEF Sign, ExecuteApprovedAcquisition, ExecuteAutonomousAcquisition, ExecuteAcquisition,
         CancelPendingAcquisitions, Sell, Tick
<1>7. SetFeatureFlags \/ SetGloballyPaused \/ ConfigureGlobalAgent \/ SetAdapterActive
        => UNCHANGED agentVars
  BY DEF SetFeatureFlags, SetGloballyPaused, ConfigureGlobalAgent, SetAdapterActive, Guards
<1> QED BY <1>1, <1>2, <1>3, <1>4, <1>5, <1>6, <1>7 DEF Next, vars

(* An intent made now is a record of this version and this holder.         *)
LEMMA IntentsTyped ==
    ASSUME AcquisitionAssumption, PolicyTyped, AccountTyped, NEW n \in Nat,
           NEW i \in ProperIntents(n)
    PROVE  i \in IntentRecords /\ i.version = policy.version /\ i.owner = holder
<1>1. policy.version \in Nat /\ policy.config \in Configs
  BY DEF PolicyTyped, Policies
<1>2. policy.config.age \in Nat
  BY <1>1 DEF Configs, Disabled, Automated, AcquisitionAssumption
<1>3. i \in Intents(n)
  BY DEF ProperIntents
<1>4. now + policy.config.age \in Nat /\ holder \in Wallets /\ Prices \subseteq Nat
  BY <1>2 DEF AccountTyped, AcquisitionAssumption, PolicyTyped
<1> QED BY <1>1, <1>3, <1>4 DEF Intents, IntentRecords

(* Every word of the owner about the policy moves its version.             *)
LEMMA OwnerMovesVersion ==
    ASSUME PolicyTyped,
           \/ ConfigurePolicy \/ SetAccountPaused \/ SetPermission \/ SetCurrencyPolicy
           \/ SetMintControls \/ ConfigureAutomatedSeaDrop \/ DisableAutomatedSeaDrop
    PROVE  policy'.version = policy.version + 1 /\ OwnerSpeaks
<1> USE DEF PolicyTyped
<1>1. CASE ConfigurePolicy
  BY <1>1 DEF ConfigurePolicy, Policies
<1>2. CASE SetAccountPaused
  BY <1>2 DEF SetAccountPaused, Policies
<1>3. CASE SetPermission \/ SetCurrencyPolicy \/ SetMintControls
  BY <1>3, Edits DEF SetPermission, SetCurrencyPolicy, SetMintControls, OwnerEdits
<1>4. CASE ConfigureAutomatedSeaDrop \/ DisableAutomatedSeaDrop
  BY <1>4 DEF ConfigureAutomatedSeaDrop, DisableAutomatedSeaDrop, ReplacePolicy
<1> QED BY <1>1, <1>2, <1>3, <1>4

(* The steps that touch neither the signatures nor the purchases.          *)
LEMMA ElsewhereSteps ==
    ASSUME \/ AuthorizeAgent \/ RevokeAgent \/ RevokeAllAgents \/ Sell
           \/ SetFeatureFlags \/ SetGloballyPaused \/ ConfigureGlobalAgent \/ SetAdapterActive
           \/ UNCHANGED vars
    PROVE  UNCHANGED <<signed, retracted, nonce, bought, now, policy>>
BY DEF AuthorizeAgent, RevokeAgent, RevokeAllAgents, Registers, Sell, SetFeatureFlags,
       SetGloballyPaused, ConfigureGlobalAgent, SetAdapterActive, Guards, vars

(* Every purchase of the history is one.                                   *)
LEMMA BoughtIsPurchases ==
    ASSUME AccountTyped PROVE \A n \in DOMAIN bought : bought[n] \in Purchases
<1>1. bought \in Seq(Purchases)
  BY DEF AccountTyped
<1> HIDE DEF Purchases
<1> QED BY <1>1

(* A purchase is appended, at the nonce it uses up.                        *)
LEMMA PurchaseKeepsAccount ==
    ASSUME AcquisitionAssumption, AccountTyped, BelowTheNonce, Ordered, TakenBackIsDead,
           NEW i \in IntentRecords, NEW paid \in Prices, NEW approved \in BOOLEAN,
           NEW actor \in Wallets \cup Agents, ExecuteAcquisition(i, paid, approved, actor)
    PROVE  /\ AccountTyped' /\ BelowTheNonce' /\ Ordered' /\ TakenBackIsDead'
           /\ Newest = [intent |-> i, paid |-> paid, at |-> now, approved |-> approved,
                        actor |-> actor]
<1> DEFINE b == [intent |-> i, paid |-> paid, at |-> now, approved |-> approved, actor |-> actor]
<1>1. /\ bought' = Append(bought, b) /\ nonce' = i.nonce + 1 /\ i.nonce = nonce
      /\ UNCHANGED <<signed, retracted, now, policy>>
  BY DEF ExecuteAcquisition, NextNonce, Envelope
<1>2. b \in Purchases
  BY DEF Purchases, AccountTyped, AcquisitionAssumption
<1>3. b.intent.nonce = nonce
  BY <1>1
<1> HIDE DEF b
<1>4. AccountTyped'
  BY <1>1, <1>2 DEF AccountTyped
<1>5. /\ DOMAIN bought' = 1..(Len(bought) + 1) /\ DOMAIN bought = 1..Len(bought)
      /\ \A n \in DOMAIN bought : bought'[n] = bought[n]
      /\ bought'[Len(bought) + 1] = b /\ Len(bought') = Len(bought) + 1
  BY <1>1, <1>2 DEF AccountTyped
<1>6. BelowTheNonce' /\ Ordered'
  <2>1. \A n \in DOMAIN bought : bought[n].intent.nonce \in Nat /\ bought[n].intent.nonce < nonce
    BY BoughtIsPurchases DEF BelowTheNonce, Purchases, IntentRecords
  <2>2. nonce' = nonce + 1 /\ nonce \in Nat
    BY <1>1 DEF AccountTyped
  <2>3. BelowTheNonce'
    BY <1>3, <1>5, <2>1, <2>2 DEF BelowTheNonce
  <2>4. Ordered'
    BY <1>3, <1>5, <2>1 DEF Ordered, EachIntentOnce, AccountTyped
  <2> QED BY <2>3, <2>4
<1>7. TakenBackIsDead'
  <2>1. \A j \in signed : j.nonce \in Nat /\ nonce' = nonce + 1 /\ nonce \in Nat
    BY <1>1 DEF AccountTyped, IntentRecords
  <2> QED BY <1>1, <2>1 DEF TakenBackIsDead
<1>8. Newest = b
  BY <1>5 DEF Newest
<1> QED BY <1>4, <1>6, <1>7, <1>8 DEF b

(* The account's part of the invariant.                                    *)
LEMMA AccountStep ==
    ASSUME AcquisitionAssumption, PolicyTyped, AccountTyped, BelowTheNonce, Ordered,
           TakenBackIsDead, [Next]_vars
    PROVE  AccountTyped' /\ BelowTheNonce' /\ Ordered' /\ TakenBackIsDead'
<1>0. /\ policy.version \in Nat /\ nonce \in Nat /\ now \in Nat
      /\ \A j \in signed : j.nonce \in Nat /\ j.version \in Nat
  BY DEF PolicyTyped, Policies, AccountTyped, IntentRecords
<1>1. CASE \/ ConfigurePolicy \/ SetAccountPaused \/ SetPermission \/ SetCurrencyPolicy
           \/ SetMintControls \/ ConfigureAutomatedSeaDrop \/ DisableAutomatedSeaDrop
  <2>1. /\ policy'.version = policy.version + 1 /\ retracted' = retracted \cup signed
        /\ UNCHANGED <<signed, nonce, bought, now>>
    BY <1>1, OwnerMovesVersion DEF OwnerSpeaks, TakeBack
  <2>2. TakenBackIsDead'
    BY <1>0, <2>1 DEF TakenBackIsDead
  <2> QED BY <2>1, <2>2 DEF AccountTyped, BelowTheNonce, Ordered, EachIntentOnce
<1>2. CASE Sign
  <2>n. PICK n \in {nonce, nonce + 1} : \E i \in ProperIntents(n) :
            signed' = signed \cup {i} /\ UNCHANGED <<retracted, nonce, bought, now, policy>>
    BY <1>2 DEF Sign
  <2>1. PICK i \in ProperIntents(n) :
            signed' = signed \cup {i} /\ UNCHANGED <<retracted, nonce, bought, now, policy>>
    BY <2>n
  <2>2. i \in IntentRecords /\ i.version = policy.version
    BY <1>0, IntentsTyped
  <2>3. AccountTyped'
    BY <2>1, <2>2 DEF AccountTyped
  <2>4. TakenBackIsDead'
    BY <1>0, <2>1, <2>2 DEF TakenBackIsDead
  <2> QED BY <2>1, <2>3, <2>4 DEF BelowTheNonce, Ordered, EachIntentOnce
<1>3. CASE ExecuteApprovedAcquisition
  <2>1. PICK i \in signed, paid \in Prices : ExecuteAcquisition(i, paid, TRUE, holder)
    BY <1>3 DEF ExecuteApprovedAcquisition
  <2>2. i \in IntentRecords /\ holder \in Wallets \cup Agents
    BY DEF AccountTyped, PolicyTyped
  <2> QED BY <2>1, <2>2, PurchaseKeepsAccount
<1>4. CASE ExecuteAutonomousAcquisition
  <2>1. PICK a \in Agents, i \in ProperIntents(nonce), paid \in Prices :
            ExecuteAcquisition(i, paid, FALSE, a)
    BY <1>4 DEF ExecuteAutonomousAcquisition
  <2>2. i \in IntentRecords
    BY <1>0, IntentsTyped
  <2> QED BY <2>1, <2>2, PurchaseKeepsAccount
<1>5. CASE CancelPendingAcquisitions
  <2>1. PICK n \in (nonce + 1)..MaxNonce :
            /\ nonce' = n /\ retracted' = retracted \cup {i \in signed : i.nonce < n}
            /\ UNCHANGED <<signed, bought, now, policy>>
    BY <1>5 DEF CancelPendingAcquisitions
  <2>2. n \in Nat /\ nonce < n
    BY <1>0, <2>1
  <2>3. AccountTyped'
    BY <2>1, <2>2 DEF AccountTyped
  <2>4. TakenBackIsDead'
    BY <1>0, <2>1, <2>2 DEF TakenBackIsDead
  <2>5. \A m \in DOMAIN bought : bought[m].intent.nonce \in Nat
    BY BoughtIsPurchases DEF Purchases, IntentRecords
  <2>6. BelowTheNonce' /\ Ordered'
    BY <1>0, <2>1, <2>2, <2>5 DEF BelowTheNonce, Ordered, EachIntentOnce
  <2> QED BY <2>3, <2>4, <2>6
<1>6. CASE Tick
  BY <1>0, <1>6 DEF Tick, AccountTyped, BelowTheNonce, Ordered, EachIntentOnce, TakenBackIsDead
<1>7. CASE UNCHANGED <<signed, retracted, nonce, bought, now, policy>>
  BY <1>7 DEF AccountTyped, BelowTheNonce, Ordered, EachIntentOnce, TakenBackIsDead
<1> QED BY <1>1, <1>2, <1>3, <1>4, <1>5, <1>6, <1>7, ElsewhereSteps DEF Next

-----------------------------------------------------------------------------
(* The invariant holds of every behaviour.                                 *)
LEMMA IInvHolds == ASSUME AcquisitionAssumption PROVE Spec => []IInv
<1>1. Init => IInv
  BY InitIInv
<1>2. IInv /\ [Next]_vars => IInv'
  BY PolicyStep, AgentsStep, AccountStep DEF IInv
<1> QED BY <1>1, <1>2, PTL DEF Spec

(* A purchase comes from one of two calls, and passed every check of both  *)
(* the account and the policy.                                             *)
LEMMA WhatWasBought ==
    ASSUME AcquisitionAssumption, IInv, [Next]_vars, Buys
    PROVE  /\ Newest.intent \in IntentRecords /\ Newest.approved \in BOOLEAN
           /\ Envelope(Newest.intent)
           /\ PolicyAllows(Newest.intent, Newest.paid, Newest.approved)
           /\ Newest.approved => Newest.intent \in signed
           /\ ~Newest.approved => Newest.actor \in Agents /\ IsAuthorized(Newest.actor)
<1> USE DEF Buys
<1>0. /\ PolicyTyped /\ AccountTyped /\ BelowTheNonce /\ Ordered /\ TakenBackIsDead
      /\ nonce \in Nat /\ holder \in Wallets
  BY DEF IInv, AccountTyped, PolicyTyped
<1>1. CASE ExecuteApprovedAcquisition
  <2>1. PICK i \in signed, paid \in Prices : ExecuteAcquisition(i, paid, TRUE, holder)
    BY <1>1 DEF ExecuteApprovedAcquisition
  <2>2. i \in IntentRecords /\ holder \in Wallets \cup Agents
    BY <1>0 DEF AccountTyped
  <2>3. Newest = [intent |-> i, paid |-> paid, at |-> now, approved |-> TRUE, actor |-> holder]
    BY <1>0, <2>1, <2>2, PurchaseKeepsAccount
  <2>4. Envelope(i) /\ PolicyAllows(i, paid, TRUE)
    BY <2>1 DEF ExecuteAcquisition
  <2>5. Newest.intent = i /\ Newest.paid = paid /\ Newest.approved = TRUE
    BY <2>3, Zenon
  <2> QED BY <2>2, <2>4, <2>5, Zenon
<1>2. CASE ExecuteAutonomousAcquisition
  <2>1. PICK a \in Agents, i \in ProperIntents(nonce), paid \in Prices :
            IsAuthorized(a) /\ ExecuteAcquisition(i, paid, FALSE, a)
    BY <1>2 DEF ExecuteAutonomousAcquisition
  <2>2. i \in IntentRecords
    BY <1>0, IntentsTyped
  <2>3. Newest = [intent |-> i, paid |-> paid, at |-> now, approved |-> FALSE, actor |-> a]
    BY <1>0, <2>1, <2>2, PurchaseKeepsAccount
  <2>4. Envelope(i) /\ PolicyAllows(i, paid, FALSE)
    BY <2>1 DEF ExecuteAcquisition
  <2>5. /\ Newest.intent = i /\ Newest.paid = paid /\ Newest.approved = FALSE
        /\ Newest.actor = a
    BY <2>3, Zenon
  <2> QED BY <2>1, <2>2, <2>4, <2>5, Zenon
<1>3. CASE \/ ConfigurePolicy \/ SetAccountPaused \/ SetPermission \/ SetCurrencyPolicy
           \/ SetMintControls \/ ConfigureAutomatedSeaDrop \/ DisableAutomatedSeaDrop
  BY <1>0, <1>3, OwnerMovesVersion DEF OwnerSpeaks
<1>4. CASE Sign \/ CancelPendingAcquisitions \/ Tick
  BY <1>4 DEF Sign, CancelPendingAcquisitions, Tick
<1> QED BY <1>1, <1>2, <1>3, <1>4, ElsewhereSteps DEF Next

(* No intent is executed twice, and none after a later one: the nonce the  *)
(* account checks and then moves orders every purchase.                    *)
THEOREM IntentsRunOnce == ASSUME AcquisitionAssumption PROVE Spec => []EachIntentOnce
<1>1. IInv => EachIntentOnce
  BY DEF IInv, Ordered
<1> QED BY <1>1, IInvHolds, PTL

(* A purchase on a signature executes one that its holder signed and has   *)
(* not taken back: what he took back is behind the version or the nonce,   *)
(* and the account compares both.                                          *)
THEOREM SignaturesDie ==
    ASSUME AcquisitionAssumption PROVE Spec => SignaturesDieWithTheirTerms
<1>1. ASSUME IInv, [Next]_vars, Buys, Newest.approved
      PROVE  Newest.intent.owner = holder /\ Newest.intent \in signed \ retracted
  <2>1. Envelope(Newest.intent) /\ Newest.intent \in signed /\ Newest.intent \in IntentRecords
    BY <1>1, WhatWasBought
  <2>2. /\ \A i \in retracted : i.version < policy.version \/ i.nonce < nonce
        /\ policy.version \in Nat /\ nonce \in Nat
    BY <1>1 DEF IInv, TakenBackIsDead, PolicyTyped, Policies, AccountTyped
  <2> HIDE DEF Newest
  <2> QED BY <2>1, <2>2 DEF Envelope
<1>2. IInv /\ [Next]_vars =>
        [Buys /\ Newest.approved =>
           Newest.intent.owner = holder /\ Newest.intent \in signed \ retracted]_vars
  BY <1>1
<1> QED BY <1>2, IInvHolds, PTL DEF Spec, SignaturesDieWithTheirTerms

(* An agent that buys has the present holder's consent, given, not over    *)
(* and not taken back: the live authorization the registry reads is one    *)
(* whose consent is still there.                                           *)
THEOREM AgentsHaveConsent == ASSUME AcquisitionAssumption PROVE Spec => AgentsAreLet
<1>1. ASSUME IInv, [Next]_vars, Buys, ~Newest.approved
      PROVE  \E c \in consent : c[1] = holder /\ c[2] = Newest.actor /\ c[3] >= now
  <2>1. Newest.actor \in Agents /\ IsAuthorized(Newest.actor)
    BY <1>1, WhatWasBought
  <2> DEFINE a == Newest.actor
             c == <<authorization[a].owner, a, authorization[a].until>>
  <2>2. c \in consent
    BY <1>1, <2>1 DEF IInv, LiveIsLet, IsAuthorized
  <2>3. c[1] = holder /\ c[2] = a /\ c[3] >= now
    BY <2>1 DEF IsAuthorized
  <2> QED BY <2>2, <2>3
<1>2. IInv /\ [Next]_vars =>
        [Buys /\ ~Newest.approved =>
           \E c \in consent : c[1] = holder /\ c[2] = Newest.actor /\ c[3] >= now]_vars
  BY <1>1
<1> QED BY <1>2, IInvHolds, PTL DEF Spec, AgentsAreLet

-----------------------------------------------------------------------------
(* The automated route: no permission outside it belongs to the generation *)
(* that opened it, for as long as its owner sets up nothing else.          *)
RouteAlone == automated => \A k \in Keys \ SeaDropKeys :
                              permission[k].generation < policy.generation

(* Opening the route starts a generation that no other stamp has; every    *)
(* other word of the owner ends the automation, and no one else writes.    *)
LEMMA RouteStep ==
    ASSUME AcquisitionAssumption, PolicyTyped, OneAuthor, RouteAlone, [Next]_vars
    PROVE  RouteAlone'
<1>0. policy.generation \in Nat /\ policy \in Policies
  BY PolicyParts DEF PolicyTyped
<1>1. CASE \/ ConfigurePolicy \/ SetPermission \/ SetCurrencyPolicy \/ SetMintControls
           \/ DisableAutomatedSeaDrop
  BY <1>1 DEF ConfigurePolicy, SetPermission, SetCurrencyPolicy, SetMintControls, OwnerEdits,
              DisableAutomatedSeaDrop, RouteAlone
<1>2. CASE ConfigureAutomatedSeaDrop
  <2>1. PICK cap \in Caps : ReplacePolicy(Automated(cap), RouteOpen, {"free"}, FALSE)
    BY <1>2 DEF ConfigureAutomatedSeaDrop
  <2>2. /\ policy'.generation = policy.generation + 1
        /\ \A k \in Keys \ SeaDropKeys : permission'[k] = permission[k]
    BY <2>1 DEF ReplacePolicy, NextGeneration
  <2>3. \A k \in Keys : /\ permission[k].generation \in Nat
                        /\ permission[k].generation <= policy.generation
    BY DEF PolicyTyped, OneAuthor, Stamped
  <2> QED BY <1>0, <2>2, <2>3 DEF RouteAlone
<1>3. CASE SetAccountPaused
  <2>1. PICK p \in BOOLEAN : /\ policy' = [policy EXCEPT !.paused = p, !.version = @ + 1]
                            /\ permission' = permission /\ automated' = automated
    BY <1>3 DEF SetAccountPaused
  <2>2. policy'.generation = policy.generation
    BY <1>0, <2>1, Pauses
  <2> QED BY <2>1, <2>2 DEF RouteAlone
<1>4. CASE UNCHANGED <<automated, permission, policy>>
  BY <1>4 DEF RouteAlone
<1>5. AuthorizeAgent \/ RevokeAgent \/ RevokeAllAgents \/ Sign \/ ExecuteApprovedAcquisition
        \/ ExecuteAutonomousAcquisition \/ CancelPendingAcquisitions \/ Sell \/ Tick
        => UNCHANGED <<automated, permission, policy>>
  BY DEF AuthorizeAgent, RevokeAgent, RevokeAllAgents, Registers, Sign,
         ExecuteApprovedAcquisition, ExecuteAutonomousAcquisition, ExecuteAcquisition,
         CancelPendingAcquisitions, Sell, Tick
<1>6. SetFeatureFlags \/ SetGloballyPaused \/ ConfigureGlobalAgent \/ SetAdapterActive
        \/ UNCHANGED vars => UNCHANGED <<automated, permission, policy>>
  BY DEF SetFeatureFlags, SetGloballyPaused, ConfigureGlobalAgent, SetAdapterActive, Guards, vars
<1> QED BY <1>1, <1>2, <1>3, <1>4, <1>5, <1>6 DEF Next

(* While nothing but the automated route is set up, whatever the account   *)
(* buys is a free mint of that route, by an agent and for nothing.         *)
THEOREM AutomationIsFree ==
    ASSUME AcquisitionAssumption PROVE Spec => AutomatedSpendsNothing
<1>1. Init => RouteAlone
  BY DEF Init, InitAccount, RouteAlone
<1>2. IInv /\ RouteAlone /\ [Next]_vars => RouteAlone'
  BY RouteStep DEF IInv
<1>3. ASSUME IInv, RouteAlone, [Next]_vars, Buys, automated
      PROVE  /\ Newest.intent.type = "FREE_MINT" /\ Newest.intent.adapter = SeaDrop
             /\ Newest.paid = 0 /\ ~Newest.approved
  <2>1. /\ PolicyAllows(Newest.intent, Newest.paid, Newest.approved)
        /\ Newest.intent.adapter \in Adapters /\ Newest.intent.collection \in Collections
    BY <1>3, WhatWasBought DEF IntentRecords
  <2> HIDE DEF Newest
  <2>2. \A k \in Keys : Allowed(k) => k \in SeaDropKeys
    <3>1. policy.generation \in Nat
      BY <1>3 DEF IInv, PolicyTyped, Policies
    <3> QED BY <1>3, <3>1 DEF RouteAlone, Allowed, IsCurrent
  <2>3. Newest.intent.adapter = SeaDrop
    BY <2>1, <2>2 DEF PolicyAllows, Keys, SeaDropKeys
  <2>4. ~Allowed(<<"collection", Newest.intent.collection>>)
    BY <2>1, <2>2 DEF Keys, SeaDropKeys
  <2>5. Kind[SeaDrop] = "MINT"
    BY DEF AcquisitionAssumption
  <2>6. AutomatedCollection(Newest.intent, Newest.approved)
    BY <2>1, <2>3, <2>4, <2>5 DEF PolicyAllows, CollectionAllowed, UnknownAllowed
  <2> QED BY <2>1, <2>3, <2>5, <2>6 DEF AutomatedCollection, PolicyAllows, MintAllowed
<1>4. IInv /\ RouteAlone /\ [Next]_vars =>
        [Buys /\ automated =>
           /\ Newest.intent.type = "FREE_MINT" /\ Newest.intent.adapter = SeaDrop
           /\ Newest.paid = 0 /\ ~Newest.approved]_vars
  BY <1>3
<1> QED BY <1>1, <1>2, <1>4, IInvHolds, PTL DEF Spec, AutomatedSpendsNothing
-----------------------------------------------------------------------------
(* The books of usage: the bucket of a currency holds what its purchases   *)
(* of the bucket's day and week paid, and none of them is later than the   *)
(* bucket; in the same way the count of purchases.                         *)
BooksTyped ==
    /\ usage \in [Currencies -> [day : Nat, week : Nat, spentToday : Nat, spentThisWeek : Nat]]
    /\ acquisitions \in [day : Nat, today : Nat]
Bucket(c) ==
    /\ usage[c].spentToday = Paid(bought, c, InDay(bought, usage[c].day))
    /\ usage[c].spentThisWeek = Paid(bought, c, InWeek(bought, usage[c].week))
    /\ \A n \in DOMAIN bought : bought[n].intent.currency = c =>
          DayOf(bought[n].at) <= usage[c].day /\ WeekOf(bought[n].at) <= usage[c].week
    /\ usage[c].day <= DayOf(now) /\ usage[c].week <= WeekOf(now)
Count ==
    /\ acquisitions.today = Cardinality(InDay(bought, acquisitions.day))
    /\ \A n \in DOMAIN bought : DayOf(bought[n].at) <= acquisitions.day
    /\ acquisitions.day <= DayOf(now)
Books == BooksTyped /\ (\A c \in Currencies : Bucket(c)) /\ Count

\* Days and weeks are numbered, and the numbers do not fall.
LEMMA Division ==
    ASSUME NEW t \in Nat, NEW d \in Nat \ {0}
    PROVE  t \div d \in Nat /\ (t + 1) \div d >= t \div d
OBVIOUS

LEMMA Calendar ==
    ASSUME AcquisitionAssumption, NEW t \in Nat
    PROVE  /\ DayOf(t) \in Nat /\ WeekOf(t) \in Nat
           /\ DayOf(t + 1) >= DayOf(t) /\ WeekOf(t + 1) >= WeekOf(t)
<1>1. DayLength \in Nat \ {0} /\ DaysInWeek \in Nat \ {0}
  BY DEF AcquisitionAssumption
<1>2. DayLength * DaysInWeek \in Nat \ {0}
  BY <1>1
<1> QED BY <1>1, <1>2, Division DEF DayOf, WeekOf

\* The payments of a history are numbers, and those of some purchases add up.
LEMMA PaymentsTyped ==
    ASSUME NEW b \in Seq(Purchases)
    PROVE  \A n \in DOMAIN b : Payments(b)[n] = b[n].paid /\ Payments(b)[n] \in Nat
<1>1. \A n \in DOMAIN b : b[n] \in Purchases
  <2> HIDE DEF Purchases
  <2> QED OBVIOUS
<1>2. \A p \in Purchases : p.paid \in Nat
  BY DEF Purchases
<1> QED BY <1>1, <1>2 DEF Payments

LEMMA PaidTyped ==
    ASSUME NEW b \in Seq(Purchases), NEW c, NEW when, when \subseteq DOMAIN b
    PROVE  IsFiniteSet(when) /\ Paid(b, c, when) \in Nat
<1>1. IsFiniteSet(DOMAIN b)
  BY FS_Interval
<1>2. IsFiniteSet(when) /\ IsFiniteSet({n \in when : b[n].intent.currency = c})
  BY <1>1, FS_Subset
<1>3. \A n \in {m \in when : b[m].intent.currency = c} : Payments(b)[n] \in Nat
  BY PaymentsTyped
<1> QED BY <1>2, <1>3, SumType DEF Paid

\* A purchase more adds what it paid, to the sums it counts for.
LEMMA PaidGrows ==
    ASSUME NEW b \in Seq(Purchases), NEW x \in Purchases, NEW c,
           NEW when, when \subseteq DOMAIN b
    PROVE  LET a == Append(b, x)
           IN  /\ Paid(a, c, when) = Paid(b, c, when)
               /\ Paid(a, c, when \cup {Len(b) + 1}) =
                    Paid(b, c, when) + (IF x.intent.currency = c THEN x.paid ELSE 0)
<1> DEFINE a == Append(b, x)
           n == Len(b) + 1
           old == {m \in when : b[m].intent.currency = c}
<1>0. x.paid \in Nat
  BY DEF Purchases
<1> HIDE DEF Purchases
<1>1. /\ a \in Seq(Purchases) /\ DOMAIN a = DOMAIN b \cup {n} /\ n \notin DOMAIN b /\ a[n] = x
      /\ \A m \in DOMAIN b : a[m] = b[m]
  OBVIOUS
<1> HIDE DEF a, n
<1>2. /\ {m \in when : a[m].intent.currency = c} = old
      /\ IsFiniteSet(old) /\ n \notin old /\ old \subseteq DOMAIN b
  BY <1>1, PaidTyped, FS_Subset
<1>3. /\ \A m \in old : Payments(b)[m] = Payments(a)[m] /\ Payments(b)[m] \in Int
      /\ Payments(a)[n] = x.paid
  BY <1>1, <1>2, PaymentsTyped
<1>o. old = {m \in when : b[m].intent.currency = c}
  OBVIOUS
<1> HIDE DEF old
<1>4. Paid(a, c, when) = Paid(b, c, when)
  <2>1. SumFunctionOnSet(Payments(b), old) = SumFunctionOnSet(Payments(a), old)
    BY <1>2, <1>3, SumSame
  <2> QED BY <1>2, <1>o, <2>1 DEF Paid
<1>5. CASE x.intent.currency = c
  <2>1. {m \in when \cup {n} : a[m].intent.currency = c} = old \cup {n}
    BY <1>1, <1>2, <1>5
  <2>2. SumFunctionOnSet(Payments(a), old \cup {n}) =
          SumFunctionOnSet(Payments(b), old) + Payments(a)[n]
    <3>1. Payments(a)[n] \in Int
      BY <1>0, <1>3
    <3>2. \A m \in old : Payments(b)[m] \in Int /\ Payments(b)[m] = Payments(a)[m]
      BY <1>3
    <3>3. IsFiniteSet(old) /\ n \notin old
      BY <1>2
    <3>4. ASSUME NEW f, NEW g, NEW S, NEW e, IsFiniteSet(S), e \notin S, g[e] \in Int,
                 \A m \in S : f[m] \in Int /\ f[m] = g[m]
          PROVE  SumFunctionOnSet(g, S \cup {e}) = SumFunctionOnSet(f, S) + g[e]
      BY <3>4, SumGains
    <3> QED BY <3>1, <3>2, <3>3, <3>4
  <2>3. Paid(a, c, when \cup {n}) = Paid(b, c, when) + x.paid
    BY <1>3, <1>o, <2>1, <2>2 DEF Paid
  <2> QED BY <1>4, <1>5, <2>3 DEF a, n
<1>6. CASE x.intent.currency # c
  <2>1. {m \in when \cup {n} : a[m].intent.currency = c} =
          {m \in when : a[m].intent.currency = c}
    BY <1>1, <1>6
  <2>2. Paid(a, c, when \cup {n}) = Paid(b, c, when)
    BY <1>4, <2>1 DEF Paid
  <2>3. Paid(b, c, when) \in Nat
    BY PaidTyped
  <2> QED BY <1>4, <1>6, <2>2, <2>3 DEF a, n
<1> QED BY <1>5, <1>6

LEMMA DatesGrow ==
    ASSUME NEW b \in Seq(Purchases), NEW x \in Purchases, NEW d
    PROVE  LET a == Append(b, x)
               n == Len(b) + 1
           IN  /\ InDay(b, d) \subseteq DOMAIN b /\ InWeek(b, d) \subseteq DOMAIN b
               /\ InDay(a, d) = IF DayOf(x.at) = d THEN InDay(b, d) \cup {n} ELSE InDay(b, d)
               /\ InWeek(a, d) = IF WeekOf(x.at) = d THEN InWeek(b, d) \cup {n} ELSE InWeek(b, d)
<1> DEFINE a == Append(b, x)
           n == Len(b) + 1
<1> HIDE DEF Purchases
<1>1. /\ DOMAIN a = DOMAIN b \cup {n} /\ n \notin DOMAIN b /\ a[n] = x
      /\ \A m \in DOMAIN b : a[m] = b[m]
  OBVIOUS
<1> HIDE DEF a, n
<1> QED BY <1>1 DEF InDay, InWeek, a, n

\* What the code reads from a bucket, rolled over or not, is what was paid, and how
\* often anything was bought.
LEMMA BucketsAreBooks ==
    ASSUME AcquisitionAssumption, AccountTyped, Books
    PROVE  /\ \A c \in Currencies :
                /\ SpentToday(c) = Paid(bought, c, InDay(bought, DayOf(now)))
                /\ SpentThisWeek(c) = Paid(bought, c, InWeek(bought, WeekOf(now)))
           /\ AcquiredToday = Cardinality(InDay(bought, DayOf(now)))
<1>0. /\ \A n \in DOMAIN bought : bought[n].at \in Nat
      /\ \A n \in DOMAIN bought : DayOf(bought[n].at) \in Nat /\ WeekOf(bought[n].at) \in Nat
      /\ DayOf(now) \in Nat /\ WeekOf(now) \in Nat
  <2>1. \A n \in DOMAIN bought : bought[n].at \in Nat
    BY BoughtIsPurchases DEF Purchases
  <2> QED BY <2>1, Calendar DEF AccountTyped
<1>1. ASSUME NEW c \in Currencies
      PROVE  /\ SpentToday(c) = Paid(bought, c, InDay(bought, DayOf(now)))
             /\ SpentThisWeek(c) = Paid(bought, c, InWeek(bought, WeekOf(now)))
  <2>1. Bucket(c) /\ usage[c].day \in Nat /\ usage[c].week \in Nat
    BY DEF Books, BooksTyped
  <2>2. ASSUME usage[c].day # DayOf(now) PROVE Paid(bought, c, InDay(bought, DayOf(now))) = 0
    <3>1. {n \in InDay(bought, DayOf(now)) : bought[n].intent.currency = c} = {}
      BY <1>0, <2>1, <2>2 DEF Bucket, InDay
    <3> QED BY <3>1, SumEmpty DEF Paid
  <2>3. ASSUME usage[c].week # WeekOf(now) PROVE Paid(bought, c, InWeek(bought, WeekOf(now))) = 0
    <3>1. {n \in InWeek(bought, WeekOf(now)) : bought[n].intent.currency = c} = {}
      BY <1>0, <2>1, <2>3 DEF Bucket, InWeek
    <3> QED BY <3>1, SumEmpty DEF Paid
  <2> QED BY <2>1, <2>2, <2>3 DEF Bucket, SpentToday, SpentThisWeek
<1>2. AcquiredToday = Cardinality(InDay(bought, DayOf(now)))
  <2>1. CASE acquisitions.day = DayOf(now)
    BY <2>1 DEF Books, Count, AcquiredToday
  <2>2. CASE acquisitions.day # DayOf(now)
    <3>1. acquisitions.day \in Nat
      BY DEF Books, BooksTyped
    <3>2. InDay(bought, DayOf(now)) = {}
      BY <1>0, <2>2, <3>1 DEF Books, Count, InDay
    <3> QED BY <2>2, <3>2, FS_EmptySet DEF AcquiredToday
  <2> QED BY <2>1, <2>2
<1> QED BY <1>1, <1>2

(* A purchase goes into the bucket of its day and week, and no other       *)
(* bucket counts it.                                                       *)
LEMMA PurchaseKeepsBooks ==
    ASSUME AcquisitionAssumption, AccountTyped, Books, NEW i \in IntentRecords,
           NEW paid \in Prices, NEW approved \in BOOLEAN, NEW actor \in Wallets \cup Agents,
           ExecuteAcquisition(i, paid, approved, actor)
    PROVE  Books'
<1> DEFINE x == [intent |-> i, paid |-> paid, at |-> now, approved |-> approved, actor |-> actor]
           c == i.currency
           today == DayOf(now)
           week == WeekOf(now)
<1>1. /\ bought' = Append(bought, x) /\ now' = now /\ paid \in Nat
      /\ usage' = [usage EXCEPT ![c] = [day |-> today, week |-> week,
                                        spentToday |-> SpentToday(c) + paid,
                                        spentThisWeek |-> SpentThisWeek(c) + paid]]
      /\ acquisitions' = [day |-> today, today |-> AcquiredToday + 1]
  BY DEF ExecuteAcquisition, Consume, AcquisitionAssumption
<1>2. /\ x \in Purchases /\ x.intent.currency = c /\ x.paid = paid /\ x.at = now
      /\ c \in Currencies
  BY <1>1 DEF Purchases, IntentRecords, AccountTyped
<1>3. today \in Nat /\ week \in Nat /\ bought \in Seq(Purchases)
  BY Calendar DEF AccountTyped
<1> HIDE DEF x, today, week, c, Purchases
<1>4. /\ DOMAIN bought' = DOMAIN bought \cup {Len(bought) + 1}
      /\ Len(bought) + 1 \notin DOMAIN bought
      /\ bought'[Len(bought) + 1] = x
      /\ \A n \in DOMAIN bought : bought'[n] = bought[n]
  BY <1>1, <1>2, <1>3
<1>5. \A d : /\ InDay(bought, d) \subseteq DOMAIN bought /\ InWeek(bought, d) \subseteq DOMAIN bought
             /\ InDay(bought', d) = IF today = d THEN InDay(bought, d) \cup {Len(bought) + 1}
                                    ELSE InDay(bought, d)
             /\ InWeek(bought', d) = IF week = d THEN InWeek(bought, d) \cup {Len(bought) + 1}
                                     ELSE InWeek(bought, d)
  BY <1>1, <1>2, <1>3, DatesGrow DEF today, week
<1>6. ASSUME NEW e, NEW when, when \subseteq DOMAIN bought
      PROVE  /\ Paid(bought', e, when) = Paid(bought, e, when)
             /\ Paid(bought', e, when \cup {Len(bought) + 1}) =
                  Paid(bought, e, when) + (IF c = e THEN paid ELSE 0)
             /\ Paid(bought, e, when) \in Nat
  BY <1>1, <1>2, <1>3, <1>6, PaidGrows, PaidTyped
<1>s. ASSUME NEW e, NEW d
      PROVE  /\ Paid(bought', e, InDay(bought', d)) =
                  Paid(bought, e, InDay(bought, d)) + (IF c = e /\ today = d THEN paid ELSE 0)
             /\ Paid(bought', e, InWeek(bought', d)) =
                  Paid(bought, e, InWeek(bought, d)) + (IF c = e /\ week = d THEN paid ELSE 0)
  <2>1. InDay(bought, d) \subseteq DOMAIN bought /\ InWeek(bought, d) \subseteq DOMAIN bought
    BY <1>5
  <2>2. PICK when : when = InDay(bought, d)
    OBVIOUS
  <2>3. PICK then : then = InWeek(bought, d)
    OBVIOUS
  <2>4. /\ Paid(bought', e, when) = Paid(bought, e, when)
        /\ Paid(bought', e, when \cup {Len(bought) + 1}) =
             Paid(bought, e, when) + (IF c = e THEN paid ELSE 0)
        /\ Paid(bought, e, when) \in Nat
    BY <1>6, <2>1, <2>2
  <2>5. /\ Paid(bought', e, then) = Paid(bought, e, then)
        /\ Paid(bought', e, then \cup {Len(bought) + 1}) =
             Paid(bought, e, then) + (IF c = e THEN paid ELSE 0)
        /\ Paid(bought, e, then) \in Nat
    BY <1>6, <2>1, <2>3
  <2>6. /\ InDay(bought', d) = IF today = d THEN when \cup {Len(bought) + 1} ELSE when
        /\ InWeek(bought', d) = IF week = d THEN then \cup {Len(bought) + 1} ELSE then
    BY <1>5, <2>2, <2>3
  <2>7. Paid(bought', e, InDay(bought', d)) =
           Paid(bought, e, when) + (IF c = e /\ today = d THEN paid ELSE 0)
    <3>1. CASE today = d
      BY <2>4, <2>6, <3>1
    <3>2. CASE today # d
      BY <2>4, <2>6, <3>2
    <3> QED BY <3>1, <3>2
  <2>8. Paid(bought', e, InWeek(bought', d)) =
           Paid(bought, e, then) + (IF c = e /\ week = d THEN paid ELSE 0)
    <3>1. CASE week = d
      BY <2>5, <2>6, <3>1
    <3>2. CASE week # d
      BY <2>5, <2>6, <3>2
    <3> QED BY <3>1, <3>2
  <2> QED BY <2>2, <2>3, <2>7, <2>8
<1>p. \A e, d : /\ Paid(bought, e, InDay(bought, d)) \in Nat
                /\ Paid(bought, e, InWeek(bought, d)) \in Nat
  BY <1>3, <1>5, PaidTyped
<1>7. /\ \A e \in Currencies :
            /\ SpentToday(e) = Paid(bought, e, InDay(bought, today))
            /\ SpentThisWeek(e) = Paid(bought, e, InWeek(bought, week))
      /\ AcquiredToday = Cardinality(InDay(bought, today))
  BY BucketsAreBooks DEF today, week
<1>8. \A n \in DOMAIN bought : DayOf(bought[n].at) \in Nat /\ WeekOf(bought[n].at) \in Nat
  BY BoughtIsPurchases, Calendar DEF Purchases
<1>9. BooksTyped'
  <2>1. SpentToday(c) \in Nat /\ SpentThisWeek(c) \in Nat
    BY <1>2, <1>7, <1>p
  <2>2. AcquiredToday \in Nat
    BY <1>5, <1>7, PaidTyped, FS_CardinalityType, <1>3
  <2>3. /\ SpentToday(c) + paid \in Nat /\ SpentThisWeek(c) + paid \in Nat
        /\ AcquiredToday + 1 \in Nat
    BY <1>1, <2>1, <2>2
  <2> QED BY <1>1, <1>3, <2>3 DEF Books, BooksTyped
<1>10. ASSUME NEW e \in Currencies PROVE Bucket(e)'
  <2>1. Bucket(e) /\ usage[e].day \in Nat /\ usage[e].week \in Nat
    BY DEF Books, BooksTyped
  <2>2. CASE e = c
    <3>1. /\ usage'[e].day = today /\ usage'[e].week = week
          /\ usage'[e].spentToday = SpentToday(c) + paid
          /\ usage'[e].spentThisWeek = SpentThisWeek(c) + paid
      BY <1>1, <1>2, <2>2 DEF Books, BooksTyped
    <3>2. /\ Paid(bought', e, InDay(bought', today)) = SpentToday(c) + paid
          /\ Paid(bought', e, InWeek(bought', week)) = SpentThisWeek(c) + paid
      BY <1>2, <1>s, <1>7, <2>2
    <3>3. \A n \in DOMAIN bought : bought[n].intent.currency = c =>
              DayOf(bought[n].at) <= today /\ WeekOf(bought[n].at) <= week
      BY <1>3, <1>8, <2>1, <2>2 DEF Bucket, today, week
    <3>4. \A n \in DOMAIN bought' : bought'[n].intent.currency = e =>
              DayOf(bought'[n].at) <= today /\ WeekOf(bought'[n].at) <= week
      BY <1>2, <1>3, <1>4, <2>2, <3>3 DEF today, week
    <3>5. DayOf(now') = today /\ WeekOf(now') = week
      BY <1>1 DEF today, week
    <3> QED BY <1>3, <3>1, <3>2, <3>4, <3>5 DEF Bucket
  <2>3. CASE e # c
    <3>1. usage'[e] = usage[e]
      BY <1>1, <2>3 DEF Books, BooksTyped
    <3>2. /\ Paid(bought', e, InDay(bought', usage[e].day)) = usage[e].spentToday
          /\ Paid(bought', e, InWeek(bought', usage[e].week)) = usage[e].spentThisWeek
      <4>1. /\ usage[e].spentToday = Paid(bought, e, InDay(bought, usage[e].day))
            /\ usage[e].spentThisWeek = Paid(bought, e, InWeek(bought, usage[e].week))
        BY <2>1 DEF Bucket
      <4> QED BY <1>s, <1>p, <2>3, <4>1
    <3>3. \A n \in DOMAIN bought' : bought'[n].intent.currency = e =>
              DayOf(bought'[n].at) <= usage[e].day /\ WeekOf(bought'[n].at) <= usage[e].week
      BY <1>2, <1>4, <2>1, <2>3 DEF Bucket
    <3>4. usage[e].day <= DayOf(now') /\ usage[e].week <= WeekOf(now')
      BY <1>1, <2>1 DEF Bucket
    <3> QED BY <3>1, <3>2, <3>3, <3>4 DEF Bucket
  <2> QED BY <2>2, <2>3
<1>11. Count'
  <2>1. acquisitions'.day = today /\ acquisitions'.today = AcquiredToday + 1
    BY <1>1
  <2>2. Cardinality(InDay(bought', today)) = AcquiredToday + 1
    <3>1. IsFiniteSet(InDay(bought, today)) /\ Len(bought) + 1 \notin InDay(bought, today)
      BY <1>3, <1>4, <1>5, PaidTyped
    <3> QED BY <1>5, <1>7, <3>1, FS_AddElement
  <2>3. /\ \A n \in DOMAIN bought : DayOf(bought[n].at) <= acquisitions.day
        /\ acquisitions.day \in Nat /\ acquisitions.day <= today
    BY DEF Books, BooksTyped, Count, today
  <2>4. \A n \in DOMAIN bought' : DayOf(bought'[n].at) <= today
    BY <1>2, <1>3, <1>4, <1>8, <2>3 DEF today
  <2>5. DayOf(now') = today
    BY <1>1 DEF today
  <2> QED BY <1>3, <2>1, <2>2, <2>4, <2>5 DEF Count
<1> QED BY <1>9, <1>10, <1>11 DEF Books

\* Nothing else writes the buckets or the purchases.
LEMMA BooksAside ==
    ASSUME [Next]_vars
    PROVE  \/ ExecuteApprovedAcquisition \/ ExecuteAutonomousAcquisition
           \/ UNCHANGED <<usage, acquisitions, bought>> /\ (now' = now \/ now' = now + 1)
<1>1. CASE \/ ConfigurePolicy \/ SetAccountPaused \/ SetPermission \/ SetCurrencyPolicy
           \/ SetMintControls \/ ConfigureAutomatedSeaDrop \/ DisableAutomatedSeaDrop
  BY <1>1 DEF ConfigurePolicy, SetAccountPaused, SetPermission, SetCurrencyPolicy, SetMintControls,
         ConfigureAutomatedSeaDrop, DisableAutomatedSeaDrop, ReplacePolicy, OwnerEdits, OwnerSpeaks
<1>2. CASE AuthorizeAgent \/ RevokeAgent \/ RevokeAllAgents
  BY <1>2 DEF AuthorizeAgent, RevokeAgent, RevokeAllAgents, Registers
<1>3. CASE Sign \/ CancelPendingAcquisitions \/ Sell \/ Tick \/ UNCHANGED vars
  BY <1>3 DEF Sign, CancelPendingAcquisitions, Sell, Tick, vars
<1>4. CASE SetFeatureFlags \/ SetGloballyPaused \/ ConfigureGlobalAgent \/ SetAdapterActive
  BY <1>4 DEF SetFeatureFlags, SetGloballyPaused, ConfigureGlobalAgent, SetAdapterActive, Guards
<1> QED BY <1>1, <1>2, <1>3, <1>4 DEF Next

LEMMA BooksStep ==
    ASSUME AcquisitionAssumption, IInv, Books, [Next]_vars PROVE Books'
<1>0. AccountTyped /\ PolicyTyped /\ nonce \in Nat
  BY DEF IInv, AccountTyped
<1>1. CASE ExecuteApprovedAcquisition
  <2>1. PICK i \in signed, paid \in Prices : ExecuteAcquisition(i, paid, TRUE, holder)
    BY <1>1 DEF ExecuteApprovedAcquisition
  <2>2. i \in IntentRecords /\ holder \in Wallets \cup Agents
    BY <1>0 DEF AccountTyped, PolicyTyped
  <2> QED BY <1>0, <2>1, <2>2, PurchaseKeepsBooks
<1>2. CASE ExecuteAutonomousAcquisition
  <2>1. PICK a \in Agents, i \in ProperIntents(nonce), paid \in Prices :
            ExecuteAcquisition(i, paid, FALSE, a)
    BY <1>2 DEF ExecuteAutonomousAcquisition
  <2>2. i \in IntentRecords
    BY <1>0, IntentsTyped
  <2> QED BY <1>0, <2>1, <2>2, PurchaseKeepsBooks
<1>3. CASE UNCHANGED <<usage, acquisitions, bought>> /\ (now' = now \/ now' = now + 1)
  <2>1. /\ DayOf(now) \in Nat /\ WeekOf(now) \in Nat /\ DayOf(now') \in Nat /\ WeekOf(now') \in Nat
        /\ DayOf(now') >= DayOf(now) /\ WeekOf(now') >= WeekOf(now)
    <3>1. now \in Nat /\ now + 1 \in Nat
      BY <1>0 DEF AccountTyped
    <3>2. CASE now' = now
      BY <3>1, <3>2, Calendar
    <3>3. CASE now' = now + 1
      BY <3>1, <3>3, Calendar
    <3> QED BY <1>3, <3>2, <3>3
  <2>2. BooksTyped'
    BY <1>3 DEF Books, BooksTyped
  <2>3. ASSUME NEW c \in Currencies PROVE Bucket(c)'
    <3>1. Bucket(c) /\ usage[c].day \in Nat /\ usage[c].week \in Nat
      BY DEF Books, BooksTyped
    <3> QED BY <1>3, <2>1, <3>1 DEF Bucket
  <2>4. Count'
    BY <1>3, <2>1 DEF Books, BooksTyped, Count
  <2> QED BY <2>2, <2>3, <2>4 DEF Books
<1> QED BY <1>1, <1>2, <1>3, BooksAside

LEMMA InitBooks == ASSUME AcquisitionAssumption, Init PROVE Books
<1>1. /\ usage = [c \in Currencies |-> [day |-> 0, week |-> 0, spentToday |-> 0, spentThisWeek |-> 0]]
      /\ acquisitions = [day |-> 0, today |-> 0] /\ bought = <<>> /\ now = 1
  BY DEF Init, InitAccount
<1>2. \A c, d : Paid(bought, c, InDay(bought, d)) = 0 /\ Paid(bought, c, InWeek(bought, d)) = 0
  <2>1. ASSUME NEW c, NEW d
        PROVE  /\ {n \in InDay(bought, d) : bought[n].intent.currency = c} = {}
               /\ {n \in InWeek(bought, d) : bought[n].intent.currency = c} = {}
    BY <1>1 DEF InDay, InWeek
  <2> QED BY <2>1, SumEmpty DEF Paid
<1>3. Cardinality(InDay(bought, 0)) = 0
  <2>1. InDay(bought, 0) = {}
    BY <1>1 DEF InDay
  <2> QED BY <2>1, FS_EmptySet
<1>4. DayOf(now) \in Nat /\ WeekOf(now) \in Nat
  BY <1>1, Calendar
<1> QED BY <1>1, <1>2, <1>3, <1>4 DEF Books, BooksTyped, Bucket, Count

(* A purchase keeps what was paid in its currency today and this week, and *)
(* how often anything was bought today, within the limits: the buckets     *)
(* that are checked hold just these sums.                                  *)
THEOREM BudgetsAreKept == ASSUME AcquisitionAssumption PROVE Spec => BudgetsHold
<1>1. Init => Books
  BY InitBooks
<1>2. IInv /\ Books /\ [Next]_vars => Books'
  BY BooksStep
<1>3. ASSUME IInv, Books, [Next]_vars, Buys
      PROVE  LET c == Newest.intent.currency
             IN /\ Paid(bought', c, InDay(bought', DayOf(now))) <= LimitsIn(c).day
                /\ Paid(bought', c, InWeek(bought', WeekOf(now))) <= LimitsIn(c).week
                /\ Cardinality(InDay(bought', DayOf(now))) <= policy.config.count
  <2>1. PICK i \in IntentRecords, paid \in Prices, approved \in BOOLEAN,
             actor \in Wallets \cup Agents : ExecuteAcquisition(i, paid, approved, actor)
    <3>1. ExecuteApprovedAcquisition \/ ExecuteAutonomousAcquisition
      BY <1>3, BooksAside DEF Buys
    <3>2. AccountTyped /\ PolicyTyped /\ nonce \in Nat
      BY <1>3 DEF IInv, AccountTyped
    <3>3. CASE ExecuteApprovedAcquisition
      BY <3>2, <3>3 DEF ExecuteApprovedAcquisition, AccountTyped, PolicyTyped
    <3>4. CASE ExecuteAutonomousAcquisition
      BY <3>2, <3>4, IntentsTyped DEF ExecuteAutonomousAcquisition
    <3> QED BY <3>1, <3>3, <3>4
  <2> DEFINE c == i.currency
  <2>2. Newest = [intent |-> i, paid |-> paid, at |-> now, approved |-> approved, actor |-> actor]
    BY <1>3, <2>1, PurchaseKeepsAccount DEF IInv
  <2>3. Newest.intent.currency = c
    BY <2>2, Zenon
  <2>4. /\ SpentToday(c) + paid <= LimitsIn(c).day
        /\ SpentThisWeek(c) + paid <= LimitsIn(c).week
        /\ AcquiredToday + 1 <= policy.config.count
    BY <2>1 DEF ExecuteAcquisition, PolicyAllows
  <2>5. /\ Paid(bought', c, InDay(bought', DayOf(now))) = SpentToday(c) + paid
        /\ Paid(bought', c, InWeek(bought', WeekOf(now))) = SpentThisWeek(c) + paid
        /\ Cardinality(InDay(bought', DayOf(now))) = AcquiredToday + 1
    <3>1. c \in Currencies /\ Books' /\ BooksTyped
      BY <1>3, <2>1, PurchaseKeepsBooks DEF IInv, IntentRecords, Books
    <3>2. /\ usage' = [usage EXCEPT ![c] =
                [day |-> DayOf(now), week |-> WeekOf(now), spentToday |-> SpentToday(c) + paid,
                 spentThisWeek |-> SpentThisWeek(c) + paid]]
          /\ acquisitions' = [day |-> DayOf(now), today |-> AcquiredToday + 1]
      BY <2>1 DEF ExecuteAcquisition, Consume
    <3>3. Bucket(c)' /\ Count'
      BY <3>1 DEF Books
    <3>4. /\ usage'[c].day = DayOf(now) /\ usage'[c].week = WeekOf(now)
          /\ usage'[c].spentToday = SpentToday(c) + paid
          /\ usage'[c].spentThisWeek = SpentThisWeek(c) + paid
      BY <3>1, <3>2 DEF BooksTyped
    <3>5. /\ usage'[c].spentToday = Paid(bought', c, InDay(bought', usage'[c].day))
          /\ usage'[c].spentThisWeek = Paid(bought', c, InWeek(bought', usage'[c].week))
          /\ acquisitions'.today = Cardinality(InDay(bought', acquisitions'.day))
      BY <3>3 DEF Bucket, Count
    <3> QED BY <3>2, <3>4, <3>5
  <2> HIDE DEF Newest, c
  <2> QED BY <2>3, <2>4, <2>5
<1>4. IInv /\ Books /\ [Next]_vars =>
        [Buys => LET c == Newest.intent.currency
                 IN /\ Paid(bought', c, InDay(bought', DayOf(now))) <= LimitsIn(c).day
                    /\ Paid(bought', c, InWeek(bought', WeekOf(now))) <= LimitsIn(c).week
                    /\ Cardinality(InDay(bought', DayOf(now))) <= policy.config.count]_vars
  BY <1>3
<1> QED BY <1>1, <1>2, <1>4, IInvHolds, PTL DEF Spec, BudgetsHold

-----------------------------------------------------------------------------
(* Types.  What the proofs above did not need: the owner's other words, the *)
(* guardian's settings and the histories.                                  *)
LimitStamps(g) == [allowed : BOOLEAN, limits : Limits \cup {NoLimits},
                   generation : 0..g, by : Wallets \cup {Nobody}]
SwitchStamps(g) == [on : SUBSET {"ownerApproved", "free", "paid"},
                    generation : 0..g, by : Wallets \cup {Nobody}]
WordsTyped ==
    /\ policy.generation <= policy.version
    /\ \A k \in Keys : permission[k].status = "denied" => Deniable(k)
    /\ currency \in [Currencies -> LimitStamps(policy.generation)]
    /\ mintControls \in SwitchStamps(policy.generation)
    /\ refused \subseteq Collections /\ automated \in BOOLEAN
GuardsTyped ==
    /\ globalAgent \in [Agents -> Nat] /\ features \subseteq Flags
    /\ paused \subseteq {"policy", "agents", "adapters"} /\ active \subseteq Adapters
    /\ consent \subseteq Wallets \X Agents \X Nat
    /\ sales \in Nat /\ acts \in Nat

\* What is of an old generation stays so.
LEMMA StampsStay ==
    ASSUME NEW g \in Nat, NEW h \in Nat, g <= h
    PROVE  /\ \A m \in SwitchStamps(g) : m \in SwitchStamps(h)
           /\ \A f \in [Currencies -> LimitStamps(g)] : f \in [Currencies -> LimitStamps(h)]
<1>1. 0..g \subseteq 0..h
  OBVIOUS
<1> QED BY <1>1, Zenon DEF SwitchStamps, LimitStamps

LEMMA ReplacementTypes ==
    ASSUME AcquisitionAssumption, PolicyTyped, WordsTyped, NEW config,
           NEW words \in {RouteOpen, RouteShut}, NEW on \in SUBSET {"ownerApproved", "free", "paid"},
           NEW pause \in BOOLEAN, automated' \in BOOLEAN,
           ReplacePolicy(config, words, on, pause)
    PROVE  WordsTyped'
<1> DEFINE g == policy.generation
           h == policy.generation + 1
           edit == [allowed |-> ~pause, limits |-> NoLimits, generation |-> h, by |-> holder]
<1>0. holder \in Wallets /\ g \in Nat /\ h \in Nat /\ g <= h /\ policy.version \in Nat /\ Native \in Currencies
  BY PolicyParts DEF PolicyTyped, Policies, AcquisitionAssumption
<1>1. /\ policy'.generation = h /\ policy'.version = policy.version + 1
      /\ permission' = [k \in Keys |->
             IF k \in SeaDropKeys
             THEN [status |-> words[k[1]], generation |-> h, by |-> holder]
             ELSE permission[k]]
      /\ currency' = [currency EXCEPT ![Native] = edit]
      /\ mintControls' = [on |-> on, generation |-> h, by |-> holder]
      /\ refused' = refused
  BY DEF ReplacePolicy, NextGeneration
<1>2. \A k \in Keys : permission'[k].status = "denied" => Deniable(k)
  <2>1. ASSUME NEW k \in SeaDropKeys PROVE words[k[1]] = "denied" => Deniable(k)
    BY DEF SeaDropKeys, RouteOpen, RouteShut, Deniable
  <2> QED BY <1>1, <2>1 DEF WordsTyped
<1>3. currency' \in [Currencies -> LimitStamps(h)]
  <2>1. currency \in [Currencies -> LimitStamps(h)]
    BY <1>0, StampsStay DEF WordsTyped
  <2>2. edit \in LimitStamps(h)
    BY <1>0 DEF LimitStamps
  <2> HIDE DEF edit, h
  <2> QED BY <1>1, <2>1, <2>2
<1>4. mintControls' \in SwitchStamps(h)
  BY <1>0, <1>1 DEF SwitchStamps
<1> QED BY <1>0, <1>1, <1>2, <1>3, <1>4 DEF WordsTyped

LEMMA WordsStep ==
    ASSUME AcquisitionAssumption, PolicyTyped, WordsTyped, [Next]_vars PROVE WordsTyped'
<1>0. /\ policy \in Policies /\ policy.generation \in Nat /\ policy.version \in Nat
      /\ holder \in Wallets /\ permission \in [Keys -> Stamped]
  BY PolicyParts DEF PolicyTyped, Policies
<1>k. ASSUME NEW g \in Nat, policy'.generation = g, policy.generation <= g,
             policy'.version = policy.version + 1, g <= policy'.version,
             permission' = permission, currency' = currency, mintControls' = mintControls,
             refused' = refused, automated' \in BOOLEAN
      PROVE  WordsTyped'
  BY <1>0, <1>k, StampsStay DEF WordsTyped
<1>1. CASE ConfigurePolicy
  <2>1. /\ policy'.version = policy.version + 1
        /\ policy'.generation = policy.generation \/ policy'.generation = policy.generation + 1
        /\ UNCHANGED <<permission, currency, mintControls, refused>> /\ automated' \in BOOLEAN
    BY <1>0, <1>1 DEF ConfigurePolicy, NextGeneration, Policies
  <2>2. policy.generation <= policy.version
    BY DEF WordsTyped
  <2> QED BY <1>0, <1>k, <2>1, <2>2
<1>2. CASE SetAccountPaused
  <2>1. /\ policy'.version = policy.version + 1 /\ policy'.generation = policy.generation
        /\ UNCHANGED <<permission, currency, mintControls, refused, automated>>
    BY <1>0, <1>2, Pauses DEF SetAccountPaused
  <2> QED BY <1>0, <1>k, <2>1 DEF WordsTyped
<1>e. ASSUME OwnerEdits
      PROVE  /\ policy'.version = policy.version + 1 /\ policy'.generation = policy.generation
             /\ automated' \in BOOLEAN /\ policy'.generation <= policy'.version
  <2>1. policy' = [policy EXCEPT !.version = @ + 1] /\ automated' = FALSE
    BY <1>e DEF OwnerEdits
  <2>2. policy'.version = policy.version + 1 /\ policy'.generation = policy.generation
    BY <1>0, <2>1, Edits
  <2>3. policy.generation <= policy.version
    BY DEF WordsTyped
  <2>4. automated' \in BOOLEAN
    BY <2>1
  <2>5. policy.version \in Nat /\ policy.generation \in Nat
    BY <1>0
  <2> QED BY <2>2, <2>3, <2>4, <2>5
<1>3. CASE SetPermission
  <2>1. PICK k \in Spoken, status \in {"none", "allowed", "denied"} :
            /\ status = "denied" => Deniable(k)
            /\ permission' = [permission EXCEPT ![k] = Stamp(status)]
            /\ refused' = IF k[1] # "collection" THEN refused
                          ELSE IF status = "denied" THEN refused \cup {k[2]} ELSE refused \ {k[2]}
            /\ OwnerEdits /\ UNCHANGED <<currency, mintControls>>
    BY <1>3 DEF SetPermission
  <2>2. k \in Keys
    BY ChoicesAssumption
  <2>3. refused' \subseteq Collections
    <3>1. k[1] = "collection" => k[2] \in Collections
      BY <2>2 DEF Keys
    <3> QED BY <2>1, <3>1 DEF WordsTyped
  <2>4. \A j \in Keys : permission'[j].status = "denied" => Deniable(j)
    <3>1. Stamp(status).status = status
      BY DEF Stamp
    <3> QED BY <1>0, <2>1, <3>1 DEF WordsTyped
  <2> QED BY <1>e, <2>1, <2>3, <2>4 DEF WordsTyped
<1>4. CASE SetCurrencyPolicy
  <2>1. PICK c \in Currencies, ok \in BOOLEAN, l \in Limits :
            /\ currency' = [currency EXCEPT ![c] =
                              [allowed |-> ok, limits |-> l, generation |-> policy.generation,
                               by |-> holder]]
            /\ OwnerEdits /\ UNCHANGED <<permission, mintControls, refused>>
    BY <1>4 DEF SetCurrencyPolicy
  <2>2. [allowed |-> ok, limits |-> l, generation |-> policy.generation, by |-> holder]
           \in LimitStamps(policy.generation)
    BY <1>0 DEF LimitStamps
  <2> QED BY <1>e, <2>1, <2>2 DEF WordsTyped
<1>5. CASE SetMintControls
  <2>1. PICK on \in Switches :
            /\ mintControls' = [on |-> on, generation |-> policy.generation, by |-> holder]
            /\ OwnerEdits /\ UNCHANGED <<permission, currency, refused>>
    BY <1>5 DEF SetMintControls
  <2>2. mintControls' \in SwitchStamps(policy.generation)
    BY <1>0, <2>1, ChoicesAssumption DEF SwitchStamps
  <2> QED BY <1>e, <2>1, <2>2 DEF WordsTyped
<1>6. CASE ConfigureAutomatedSeaDrop
  <2>1. PICK cap \in Caps : ReplacePolicy(Automated(cap), RouteOpen, {"free"}, FALSE)
    BY <1>6 DEF ConfigureAutomatedSeaDrop
  <2>2. automated' \in BOOLEAN /\ {"free"} \in SUBSET {"ownerApproved", "free", "paid"}
    BY <1>6 DEF ConfigureAutomatedSeaDrop
  <2> QED BY <2>1, <2>2, ReplacementTypes
<1>7. CASE DisableAutomatedSeaDrop
  <2>1. ReplacePolicy(Disabled, RouteShut, {}, TRUE) /\ automated' \in BOOLEAN
    BY <1>7 DEF DisableAutomatedSeaDrop
  <2>2. {} \in SUBSET {"ownerApproved", "free", "paid"}
    OBVIOUS
  <2> QED BY <2>1, <2>2, ReplacementTypes
<1>8. CASE Sell
  BY <1>8 DEF Sell, WordsTyped
<1>9. CASE UNCHANGED <<policyVars, refused, automated>>
  BY <1>9 DEF WordsTyped, Deniable
<1>10. AuthorizeAgent \/ RevokeAgent \/ RevokeAllAgents \/ Sign \/ ExecuteApprovedAcquisition
         \/ ExecuteAutonomousAcquisition \/ CancelPendingAcquisitions \/ Tick
         => UNCHANGED <<policyVars, refused, automated>>
  BY DEF AuthorizeAgent, RevokeAgent, RevokeAllAgents, Registers, Sign,
         ExecuteApprovedAcquisition, ExecuteAutonomousAcquisition, ExecuteAcquisition,
         CancelPendingAcquisitions, Tick
<1>11. SetFeatureFlags \/ SetGloballyPaused \/ ConfigureGlobalAgent \/ SetAdapterActive
         \/ UNCHANGED vars => UNCHANGED <<policyVars, refused, automated>>
  BY DEF SetFeatureFlags, SetGloballyPaused, ConfigureGlobalAgent, SetAdapterActive, Guards, vars
<1> QED BY <1>1, <1>2, <1>3, <1>4, <1>5, <1>6, <1>7, <1>8, <1>9, <1>10, <1>11 DEF Next

LEMMA GuardsStep ==
    ASSUME AcquisitionAssumption, PolicyTyped, AccountTyped, GuardsTyped, [Next]_vars
    PROVE  GuardsTyped'
<1> USE DEF GuardsTyped
<1>0. holder \in Wallets /\ now \in Nat /\ MaxTime \in Nat /\ Terms \subseteq Nat
  BY DEF PolicyTyped, AccountTyped, AcquisitionAssumption
<1>1. CASE AuthorizeAgent
  <2>1. PICK a \in Agents, term \in Terms : consent' = consent \cup {<<holder, a, now + term>>}
    BY <1>1 DEF AuthorizeAgent
  <2>2. now + term \in Nat
    BY <1>0
  <2>3. consent' \subseteq Wallets \X Agents \X Nat
    BY <1>0, <2>1, <2>2
  <2> QED BY <1>1, <2>3 DEF AuthorizeAgent, Registers
<1>2. CASE RevokeAgent \/ RevokeAllAgents
  BY <1>2 DEF RevokeAgent, RevokeAllAgents, Registers
<1>3. CASE Sell
  BY <1>3 DEF Sell
<1>4. CASE SetFeatureFlags
  BY <1>4 DEF SetFeatureFlags, Guards
<1>5. CASE SetGloballyPaused
  BY <1>5 DEF SetGloballyPaused, Guards
<1>6. CASE ConfigureGlobalAgent
  <2>1. PICK a \in Agents, until \in {0} \cup ((now + 1)..(MaxTime + 1)) :
            globalAgent' = [globalAgent EXCEPT ![a] = until]
    BY <1>6 DEF ConfigureGlobalAgent
  <2>2. until \in Nat
    BY <1>0
  <2>3. globalAgent' \in [Agents -> Nat]
    BY <2>1, <2>2
  <2> QED BY <1>6, <2>3 DEF ConfigureGlobalAgent, Guards
<1>7. CASE SetAdapterActive
  BY <1>7 DEF SetAdapterActive, Guards
<1>8. CASE UNCHANGED <<guardianVars, consent, sales>>
  BY <1>8
<1>9. ConfigurePolicy \/ SetAccountPaused \/ SetPermission \/ SetCurrencyPolicy
        \/ SetMintControls \/ ConfigureAutomatedSeaDrop \/ DisableAutomatedSeaDrop
        => UNCHANGED <<guardianVars, consent, sales>>
  BY DEF ConfigurePolicy, SetAccountPaused, SetPermission, SetCurrencyPolicy, SetMintControls,
         ConfigureAutomatedSeaDrop, DisableAutomatedSeaDrop, ReplacePolicy, OwnerEdits, OwnerSpeaks
<1>10. Sign \/ ExecuteApprovedAcquisition \/ ExecuteAutonomousAcquisition
         \/ CancelPendingAcquisitions \/ Tick \/ UNCHANGED vars
         => UNCHANGED <<guardianVars, consent, sales>>
  BY DEF Sign, ExecuteApprovedAcquisition, ExecuteAutonomousAcquisition, ExecuteAcquisition,
         CancelPendingAcquisitions, Tick, vars
<1> QED BY <1>1, <1>2, <1>3, <1>4, <1>5, <1>6, <1>7, <1>8, <1>9, <1>10 DEF Next

LEMMA InitWords == ASSUME Init PROVE WordsTyped
<1>1. /\ policy.generation = 0 /\ policy.version = 0
      /\ permission = [k \in Keys |-> [status |-> "none", generation |-> 0, by |-> Nobody]]
      /\ currency = [c \in Currencies |->
                       [allowed |-> FALSE, limits |-> NoLimits, generation |-> 0, by |-> Nobody]]
      /\ mintControls = [on |-> {}, generation |-> 0, by |-> Nobody]
      /\ refused = {} /\ automated = FALSE
  BY DEF Init, InitPolicy, InitAccount
<1>2. 0 \in 0..policy.generation /\ policy.generation <= policy.version
  BY <1>1
<1>3. currency \in [Currencies -> LimitStamps(policy.generation)]
  BY <1>1, <1>2 DEF LimitStamps
<1>4. mintControls \in SwitchStamps(policy.generation)
  BY <1>1, <1>2 DEF SwitchStamps
<1>5. \A k \in Keys : permission[k].status = "none"
  BY <1>1
<1> QED BY <1>1, <1>2, <1>3, <1>4, <1>5 DEF WordsTyped

LEMMA InitGuards == ASSUME AcquisitionAssumption, Init PROVE GuardsTyped
<1>1. MaxTime + 1 \in Nat
  BY DEF AcquisitionAssumption
<1> QED BY <1>1 DEF Init, InitAccount, GuardsTyped, Flags

(* Every variable keeps its shape; no stamp of the policy is of a          *)
(* generation to come, and only what may be denied is.                     *)
THEOREM AcquisitionTypes == ASSUME AcquisitionAssumption PROVE Spec => []AcquisitionTypeOK
<1>1. Init => WordsTyped /\ GuardsTyped /\ Books
  BY InitWords, InitGuards, InitBooks
<1>2. IInv /\ WordsTyped /\ GuardsTyped /\ Books /\ [Next]_vars
        => WordsTyped' /\ GuardsTyped' /\ Books'
  BY WordsStep, GuardsStep, BooksStep DEF IInv
<1>3. IInv /\ WordsTyped /\ GuardsTyped /\ Books => AcquisitionTypeOK
  <2> SUFFICES ASSUME IInv, WordsTyped, GuardsTyped, Books PROVE AcquisitionTypeOK
    OBVIOUS
  <2>1. authorization \in [Agents -> [active : BOOLEAN, owner : Wallets \cup {Nobody},
                                      until : Nat, generation : 0..agentGeneration]]
    <3>1. \A a \in Agents : authorization[a].generation \in 0..agentGeneration
      <4>1. /\ agentGeneration \in Nat
            /\ \A a \in Agents : authorization[a].generation <= agentGeneration
        BY DEF IInv, AgentsTyped, LiveIsLet
      <4>2. \A a \in Agents : authorization[a].generation \in Nat
        BY DEF IInv, AgentsTyped
      <4> QED BY <4>1, <4>2
    <3>2. \A a \in Agents : authorization[a] \in [active : BOOLEAN, owner : Owners, until : Nat,
                                                  generation : Nat]
      BY DEF IInv, AgentsTyped
    <3> QED BY <3>1, <3>2 DEF IInv, AgentsTyped, Owners
  <2>2. /\ holder \in Wallets /\ policy \in Policies /\ permission \in [Keys -> Stamped]
        /\ \A k \in Keys : permission[k].generation <= policy.generation
        /\ nonce \in Nat /\ agentGeneration \in Nat /\ now \in Nat /\ retracted \subseteq signed
    BY DEF IInv, PolicyTyped, OneAuthor, AccountTyped, AgentsTyped, TakenBackIsDead
  <2>3. BooksTyped
    BY DEF Books
  <2>4. policy \in [config : Mandates \cup {Disabled} \cup {Automated(cap) : cap \in Caps},
                    configuredBy : Wallets \cup {Nobody}, version : Nat,
                    generation : Nat, paused : BOOLEAN]
    BY <2>2, Zenon DEF Policies, Configs, Owners
  <2> QED BY <2>1, <2>2, <2>3, <2>4
          DEF AcquisitionTypeOK, WordsTyped, GuardsTyped, BooksTyped, LimitStamps, SwitchStamps
<1> QED BY <1>1, <1>2, <1>3, IInvHolds, PTL DEF Spec

-----------------------------------------------------------------------------
(* The limits of a currency and the mint switches have one author in each  *)
(* generation, as the permissions have.                                    *)
Settled(stamp) == stamp.generation # 0 /\ stamp.generation = policy.generation
                    => stamp.by = policy.configuredBy
SettingsHaveOneAuthor == Settled(mintControls) /\ \A c \in Currencies : Settled(currency[c])

(* An edit carries the editor's own stamp, and only who configured edits;  *)
(* a configuration by another, or a replacement, starts a generation that  *)
(* no stamp before it has.                                                 *)
LEMMA SettingsStep ==
    ASSUME AcquisitionAssumption, PolicyTyped, WordsTyped, SettingsHaveOneAuthor, [Next]_vars
    PROVE  SettingsHaveOneAuthor'
<1>0. /\ policy \in Policies /\ policy.generation \in Nat /\ Native \in Currencies
      /\ mintControls.generation <= policy.generation /\ mintControls.generation \in Nat
      /\ \A c \in Currencies : /\ currency[c].generation <= policy.generation
                               /\ currency[c].generation \in Nat
  <2>1. policy \in Policies /\ policy.generation \in Nat /\ Native \in Currencies
    BY PolicyParts DEF PolicyTyped, AcquisitionAssumption
  <2>2. \A n \in 0..policy.generation : n <= policy.generation /\ n \in Nat
    BY <2>1
  <2>3. mintControls.generation \in 0..policy.generation
    BY DEF WordsTyped, SwitchStamps
  <2>4. \A c \in Currencies : currency[c].generation \in 0..policy.generation
    BY DEF WordsTyped, LimitStamps
  <2> QED BY <2>1, <2>2, <2>3, <2>4
<1>s. ASSUME policy'.generation = policy.generation,
             policy'.configuredBy = policy.configuredBy,
             UNCHANGED <<currency, mintControls>>
      PROVE  SettingsHaveOneAuthor'
  BY <1>s DEF SettingsHaveOneAuthor, Settled
<1>n. ASSUME NEW on, NEW pause, NEW config, NEW words,
             ReplacePolicy(config, words, on, pause)
      PROVE  SettingsHaveOneAuthor'
  <2>1. /\ policy'.generation = policy.generation + 1 /\ policy'.configuredBy = holder
        /\ currency' = [currency EXCEPT ![Native] =
              [allowed |-> ~pause, limits |-> NoLimits, generation |-> policy.generation + 1,
               by |-> holder]]
        /\ mintControls'.by = holder
    BY <1>n DEF ReplacePolicy, NextGeneration
  <2>2. ASSUME NEW c \in Currencies PROVE \/ currency'[c].by = holder
                                          \/ currency'[c] = currency[c]
    <3>1. CASE c = Native
      BY <1>0, <2>1, <3>1 DEF WordsTyped
    <3>2. CASE c # Native
      BY <2>1, <3>2 DEF WordsTyped
    <3> QED BY <3>1, <3>2
  <2> QED BY <1>0, <2>1, <2>2 DEF SettingsHaveOneAuthor, Settled
<1>e. ASSUME OwnerEdits
      PROVE  /\ holder = policy.configuredBy /\ policy'.configuredBy = policy.configuredBy
             /\ policy'.generation = policy.generation
  BY <1>0, <1>e, Edits DEF OwnerEdits
<1>1. CASE ConfigurePolicy
  <2>1. /\ UNCHANGED <<currency, mintControls>>
        /\ \/ /\ policy'.generation = policy.generation
              /\ policy'.configuredBy = policy.configuredBy
           \/ policy'.generation = policy.generation + 1
    <3>1. PICK m \in Mandates :
              policy' = [policy EXCEPT !.config = m, !.configuredBy = holder,
                             !.version = @ + 1,
                             !.generation = IF policy.configuredBy = holder THEN @
                                            ELSE NextGeneration]
      BY <1>1 DEF ConfigurePolicy
    <3>2. /\ policy'.configuredBy = holder
          /\ policy'.generation = IF policy.configuredBy = holder THEN policy.generation
                                  ELSE policy.generation + 1
      BY <1>0, <3>1 DEF Policies, NextGeneration
    <3> QED BY <1>1, <3>2 DEF ConfigurePolicy
  <2>2. CASE policy'.generation = policy.generation + 1
    BY <1>0, <2>1, <2>2 DEF SettingsHaveOneAuthor, Settled
  <2> QED BY <1>s, <2>1, <2>2
<1>2. CASE SetAccountPaused
  <2>1. PICK p \in BOOLEAN : policy' = [policy EXCEPT !.paused = p, !.version = @ + 1]
    BY <1>2 DEF SetAccountPaused
  <2> QED BY <1>0, <1>2, <1>s, <2>1, Pauses DEF SetAccountPaused
<1>3. CASE SetPermission
  <2>1. OwnerEdits /\ UNCHANGED <<currency, mintControls>>
    BY <1>3 DEF SetPermission
  <2> QED BY <1>e, <1>s, <2>1
<1>4. CASE SetCurrencyPolicy
  <2>1. PICK c \in Currencies, ok \in BOOLEAN, l \in Limits :
            /\ currency' = [currency EXCEPT ![c] =
                              [allowed |-> ok, limits |-> l, generation |-> policy.generation,
                               by |-> holder]]
            /\ OwnerEdits /\ UNCHANGED mintControls
    BY <1>4 DEF SetCurrencyPolicy
  <2>2. ASSUME NEW d \in Currencies PROVE \/ currency'[d].by = holder
                                          \/ currency'[d] = currency[d]
    <3>1. CASE d = c
      BY <2>1, <3>1 DEF WordsTyped
    <3>2. CASE d # c
      BY <2>1, <3>2 DEF WordsTyped
    <3> QED BY <3>1, <3>2
  <2> QED BY <1>e, <2>1, <2>2 DEF SettingsHaveOneAuthor, Settled
<1>5. CASE SetMintControls
  <2>1. mintControls'.by = holder /\ OwnerEdits /\ UNCHANGED currency
    BY <1>5 DEF SetMintControls
  <2> QED BY <1>e, <2>1 DEF SettingsHaveOneAuthor, Settled
<1>6. CASE ConfigureAutomatedSeaDrop \/ DisableAutomatedSeaDrop
  BY <1>6, <1>n DEF ConfigureAutomatedSeaDrop, DisableAutomatedSeaDrop
<1>7. CASE UNCHANGED policyVars
  BY <1>7, <1>s
<1>8. AuthorizeAgent \/ RevokeAgent \/ RevokeAllAgents \/ Sign \/ ExecuteApprovedAcquisition
        \/ ExecuteAutonomousAcquisition \/ CancelPendingAcquisitions \/ Sell \/ Tick
        => UNCHANGED policyVars
  BY DEF AuthorizeAgent, RevokeAgent, RevokeAllAgents, Registers, Sign,
         ExecuteApprovedAcquisition, ExecuteAutonomousAcquisition, ExecuteAcquisition,
         CancelPendingAcquisitions, Sell, Tick
<1>9. SetFeatureFlags \/ SetGloballyPaused \/ ConfigureGlobalAgent \/ SetAdapterActive
        \/ UNCHANGED vars => UNCHANGED policyVars
  BY DEF SetFeatureFlags, SetGloballyPaused, ConfigureGlobalAgent, SetAdapterActive, Guards, vars
<1> QED BY <1>1, <1>2, <1>3, <1>4, <1>5, <1>6, <1>7, <1>8, <1>9 DEF Next

(* Everything a purchase rests on was said by the present holder: its      *)
(* mandate, its permissions, its currency's limits and its kind of mint.   *)
(* A stamp counts only in the current generation, and only one wallet ever *)
(* wrote in it.                                                            *)
THEOREM PermissionsAreTheHolders ==
    ASSUME AcquisitionAssumption PROVE Spec => NoInheritedPermission
<1>1. Init => WordsTyped /\ SettingsHaveOneAuthor
  <2>1. Init => WordsTyped
    BY InitWords
  <2>2. Init => SettingsHaveOneAuthor
    BY DEF Init, InitPolicy, SettingsHaveOneAuthor, Settled
  <2> QED BY <2>1, <2>2
<1>2. IInv /\ WordsTyped /\ SettingsHaveOneAuthor /\ [Next]_vars
        => WordsTyped' /\ SettingsHaveOneAuthor'
  BY WordsStep, SettingsStep DEF IInv
<1> DEFINE Ours == /\ policy.configuredBy = holder
                   /\ \A k \in Grounds(Newest) :
                          permission[k].by = holder /\ permission[k].status = "allowed"
                   /\ currency[Newest.intent.currency].by = holder
                   /\ currency[Newest.intent.currency].allowed
                   /\ Kind[Newest.intent.adapter] = "MINT" =>
                          /\ mintControls.by = holder
                          /\ SwitchFor(Newest.paid, Newest.approved) \in mintControls.on
<1>3. ASSUME IInv, SettingsHaveOneAuthor, [Next]_vars, Buys PROVE Ours
  <2>1. /\ PolicyAllows(Newest.intent, Newest.paid, Newest.approved)
        /\ Newest.intent.adapter \in Adapters /\ Newest.intent.collection \in Collections
        /\ Newest.intent.currency \in Currencies
    BY <1>3, WhatWasBought DEF IntentRecords
  <2> HIDE DEF Newest
  <2>2. policy.configuredBy = holder
    BY <2>1 DEF PolicyAllows
  <2>3. \A k \in Keys : Allowed(k) => permission[k].by = holder /\ permission[k].status = "allowed"
    BY <1>3, <2>2 DEF Allowed, IsCurrent, IInv, OneAuthor
  <2>4. \A k \in Grounds(Newest) : k \in Keys /\ Allowed(k)
    <3>1. \A k \in Route(Newest.intent.adapter) : k \in Keys /\ Allowed(k)
      BY <2>1 DEF PolicyAllows, Route, Keys
    <3>2. Newest.paid > 0 => Allowed(<<"maximum", Newest.intent.adapter>>)
      BY <2>1 DEF PolicyAllows
    <3>3. ~UnknownAllowed(Newest.intent, Newest.approved)
            => Allowed(<<"collection", Newest.intent.collection>>)
      BY <2>1 DEF PolicyAllows, CollectionAllowed
    <3>4. /\ <<"maximum", Newest.intent.adapter>> \in Keys
          /\ <<"collection", Newest.intent.collection>> \in Keys
      BY <2>1 DEF Keys
    <3> QED BY <3>1, <3>2, <3>3, <3>4 DEF Grounds
  <2>5. /\ currency[Newest.intent.currency].by = holder
        /\ currency[Newest.intent.currency].allowed
    BY <1>3, <2>1 DEF PolicyAllows, IsCurrent, SettingsHaveOneAuthor, Settled
  <2>6. ASSUME Kind[Newest.intent.adapter] = "MINT"
        PROVE  /\ mintControls.by = holder
               /\ SwitchFor(Newest.paid, Newest.approved) \in mintControls.on
    <3>1. SwitchFor(Newest.paid, Newest.approved) \in Controls
      BY <2>1, <2>6 DEF PolicyAllows, MintAllowed
    <3>2. IsCurrent(mintControls.generation)
      BY <3>1 DEF Controls
    <3> QED BY <1>3, <2>2, <3>1, <3>2 DEF Controls, IsCurrent, SettingsHaveOneAuthor, Settled
  <2> QED BY <2>2, <2>3, <2>4, <2>5, <2>6
<1>4. IInv /\ SettingsHaveOneAuthor /\ [Next]_vars => [Buys => Ours]_vars
  BY <1>3
<1> QED BY <1>1, <1>2, <1>4, IInvHolds, PTL DEF Spec, NoInheritedPermission
=============================================================================
