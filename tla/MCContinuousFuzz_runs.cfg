\* Two runs that overlap, a re-run, a new release at any moment, merges cut
\* short and jobs that die; every run ends, so the system stops.
SPECIFICATION Spec
CONSTANTS
    Job = "gguf"
    a = a  b = b  c = c  d = d
    r1 = r1  r2 = r2
    Runs = {r1, r2}
    Inputs <- MCInputs
    Seeds <- MCSeeds
    Cov <- MCCov
    Fault <- MCFault
    MaxActive = 2
    MaxReruns = 1
SYMMETRY RunSymmetry
INVARIANTS TypeOK NeverSavesEmpty GenuineCrashFailsJob 
PROPERTIES LineageAccumulates
CHECK_DEADLOCK FALSE
