SPECIFICATION FairSpec
CONSTANTS
    SockNums <- MCSocks
    MaxBacklog = 1
    Setups <- MCHosts
INVARIANTS AddressesSurvive NeverWaits ErrnoIsMac GameKnowsConnection DescriptorsAgree
PROPERTY ConnectNoticed
