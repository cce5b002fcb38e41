SPECIFICATION Spec
CONSTANTS
    N = 3
    Agents <- MCAgents
    Scenes <- MCScenes
    MaxHandshakeAge = 5
    ReplayWindow = 2
    FailureThreshold = 2
    ErrorThreshold = 1
    FreshWindow = 2
    ReplayTTL = 4
    Burst = 2
    Rate = 1
    InboxSize = 2
    EquivocationPenalty = 4
    MaxNonce = 4
 
INVARIANT QuorumBehindBlock
 
INVARIANT ProposerFinalizes
