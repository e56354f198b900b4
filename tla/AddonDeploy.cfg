SPECIFICATION FairSpec
CONSTANTS
    AddonList <- MCAddonList
    Offers <- MCOffers
    Charts = {"chart"}
    Blocking = {"calico", "chart"}
    Calico = "calico"
    ClusterApi = "cluster-api"
    TyphaVersions = {2}
    None = None
    Partial = Partial
    MaxEdits = 2
    MaxFaults = 2
INVARIANTS TyphaServed RecordedMeansDeployed
PROPERTIES AddonsSettle
CHECK_DEADLOCK FALSE
