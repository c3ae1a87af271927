SPECIFICATION FairSpec
CONSTANTS
    claude = claude
    local = local
    other = other
    anthropic = anthropic
    vllm = vllm
    openrouter = openrouter
    aihubmix = aihubmix
    Model = {claude, local, other}
    Provider = {anthropic, vllm, openrouter, aihubmix}
    Own <- MCOwn
    Gateways <- MCGateways
    Unbuilt = {vllm, aihubmix}
    MaxFallbacks = 2
    MaxTokens = 2
    None = none
PROPERTIES StreamGivesWay
CHECK_DEADLOCK FALSE
