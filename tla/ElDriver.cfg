\* elc from its command line to its exit status.
CONSTANTS
    Stages <- MCStages
    Substages <- MCSubstages
    Sources <- MCSources
    Lines <- MCLines
    MaxFrames = 2
    MaxBegins = 2
INIT Init
NEXT Next
INVARIANTS ExitTellsTruth EventsPaired DumpsComplete ReportConsistent AbortsOnlyCaptured
PROPERTY ChargedOnce
