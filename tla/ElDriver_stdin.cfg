\* A source that comes from stdin.
CONSTANTS
    Stages <- MCStages
    Substages <- MCSubstages
    Sources <- MCSources
    Lines <- MCLines
    MaxFrames = 2
    MaxBegins = 2
INIT Init
NEXT Next
INVARIANT StdinCompiled
