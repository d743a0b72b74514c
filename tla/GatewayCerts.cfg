\* Four mishaps anywhere: failures, interrupts, lost files, time, new clusters.
SPECIFICATION Spec
CONSTANTS
    Keys = {k1, k2, k3, k4}
    CAs = {ca1, ca2, ca3, ca4, ca5}
    None = None
    MaxFaults = 4
INVARIANTS TypeOK ApplyRepairs InstallRepairs
