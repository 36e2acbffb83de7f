CONSTANTS
    Alice = Alice Bob = Bob Agent = Agent Drop = Drop Market = Market Art = Art Ether = Ether Token = Token
    SeaDrop = Drop Native = Ether
    Mandates <- OneMandate Limits <- NoLimit Spoken <- ArtWords Switches <- NoSwitches Kind <- MCKind
    Wallets = {Alice} Agents = {Agent} Collections = {Art} Adapters = {Drop} Currencies = {Ether} Caps = {1}
    Prices = {0} Terms = {1} DayLength = 1 DaysInWeek = 2 V2 = TRUE MaxVersion = 3
    MaxAgentGeneration = 1 MaxNonce = 1 MaxSigned = 0 MaxTime = 1 MaxSales = 0 MaxGuardian = 0
SPECIFICATION Spec
PROPERTIES DenialStands
CHECK_DEADLOCK FALSE
