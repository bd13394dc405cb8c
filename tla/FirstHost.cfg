CONSTANTS
    h1 = h1  h2 = h2  h3 = h3
    Inventory <- MCInventory
    Monitors = {h1, h2}
    Founders = {h1, h2}
    Unlucky = {h1}
    Interruptions = FALSE
    MaxKeys = 2
    NoKey = NoKey

SPECIFICATION KeyringsSpec
PROPERTIES
    BootstrapOnlyBlankCluster
CHECK_DEADLOCK FALSE
