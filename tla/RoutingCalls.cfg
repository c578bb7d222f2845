CONSTANTS
    EdgePorts = {"E1", "E2", "E3"}
    Localnet <- MCLocalnet
    ExternalAddrs <- MCExternalAddrs
    ListeningOn <- MCListeningOn
    None = None
    Agents <- MCAgents
    Peers <- MCPeers
    Numbers <- MCNumbers
    Trunks <- MCTrunks
    Egress <- MCEgress
    Tokens <- MCTokens
    Dod = "+1700"
    Phones <- MCPhones
    Accounts <- MCAccounts
    Calls <- MCCalls
    Requester = "requester"
    RegistryEdge = "E1"
    MaxHops = 3
SPECIFICATION Spec
INVARIANTS
    TypeOK
    ViasLeadBack
    OnlyTheseCirculate
    
    ThroughTheRightDoor
    NothingLeaks
    
    AgentsAreNotDialledOut
    HeadersStayAtHome
    
CHECK_DEADLOCK FALSE
