SPECIFICATION RulesSpec
CONSTANTS
    SensitiveBranches <- MCBranches
    Account <- MCAccount
    Width <- MCWidth
    maxAddresses = 3
    UsableRules <- MCUsable
    unusedGrace = 3
    dormantAfter = 5
    expiringWithin = 2
    Patterns <- MCPatterns
    Paths <- MCPaths
    RuleLists <- MCRuleLists
    Tails <- MCTails
    Keys <- MCKeys
    Listings <- MCListings
    Today = 8
    Days <- MCDays
    Typed <- MCTyped
    Posted <- MCPosted
INVARIANTS
    MatchesAnyRun
    FindingsMatchReach
    FindingsStay
    
    SummaryAccounts
    StoredAsTyped
    LinkCarriesRules
CHECK_DEADLOCK FALSE
