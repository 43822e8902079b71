SPECIFICATION FairSpec
CONSTANTS
    None = None
    Slashed <- MCSlashed
    OEMCert <- MCOEMCert
    Managers = {"mgr/"}
    Systems = {"sys"}
    Listed <- MCListed
    Component <- MCDevices
    Adapter <- MCAdapter
    AdaptersIn <- MCAdaptersIn
    PortsIn <- MCPortsIn
    PortMACs <- MCPortMACs
    Stubs <- MCStubs
    Identities <- MCIdentities
    IDevIDNamed = {"iDEVID_1", "iDEVID_2"}
    Slot = {"22"}
    MAC = {"m1", "m2", "m3"}
INVARIANTS TypeOK NothingLost CachesTruthful NoFalseMiss FoundIsRight MeasuredPreferred
           OwnTPMOnly NoFalseIDevIDMiss
PROPERTIES NeverForgets LookupRecovers
