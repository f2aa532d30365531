SPECIFICATION Spec
CONSTANTS
    Budget = 6
    Threshold = 4
    Overhead = 1
    MinSavings = 35
    ThrashWindow = 2
    Trip = 2
    ProbeEvery = 3
    Weights = {1, 5}
    Transcripts <- MCTranscripts
    MaxLen = 7
    MaxSkips = 9
    None = None
INVARIANTS  ProbesKeepCadence
PROPERTY PausedUntilHelped
