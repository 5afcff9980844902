CONSTANTS
    MaxOps <- MCMaxOps
    MaxSockets <- MCMaxSockets
SPECIFICATION Spec
INVARIANT RpcStoppedWhenIdle
