CONSTANTS
    Alice = Alice Bob = Bob Agent = Agent Drop = Drop Market = Market Art = Art Ether = Ether Token = Token
    SeaDrop = Drop Native = Ether
    Mandates <- LifeMandates Limits <- OneLimit Spoken <- RouteWords Switches <- AllSwitches Kind <- MCKind
    Wallets = {Alice, Bob} Agents = {Agent} Collections = {Art} Adapters = {Drop, Market} Currencies = {Ether, Token} Caps = {1}
    Prices = {0, 1} Terms = {4} DayLength = 1 DaysInWeek = 2 V2 = TRUE MaxVersion = 16
    MaxAgentGeneration = 1 MaxNonce = 3 MaxSigned = 1 MaxTime = 4 MaxSales = 2 MaxGuardian = 1
SPECIFICATION LifeSpec
INVARIANTS AcquisitionTypeOK EachIntentOnce
PROPERTIES AgentsAreLet NoInheritedPermission AutomatedSpendsNothing BudgetsHold SignaturesDieWithTheirTerms
CHECK_DEADLOCK FALSE
