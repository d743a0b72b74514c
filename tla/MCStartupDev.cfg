\* kind and Talos on QEMU and on docker in turn, with two machines.  A step at a time,
\* several command lines, three failures or interrupts.
SPECIFICATION DevSpec
CONSTANTS
    controlplane = controlplane
    worker = worker
    VMs = {controlplane, worker}
    Paths <- MCPaths
    Providers = {"kind", "qemu", "docker"}
    Environments <- MCEnvironments
    MaxFaults = 3
SYMMETRY Symmetry
INVARIANTS
    TypeOK
    OneKindOfCluster
    KubectlMeansThisCluster
    SetupTypeOK
    SuccessMeansInstalled
    AuthNeedsSpire
    FirewallInForce
PROPERTIES
    ReadOnlyModesChangeNothing
