\* Three folders, three times of starting the node; any number of kills.
SPECIFICATION FairSpec
CONSTANTS
    config = config
    home = home
    swarm = swarm
    Folder <- Folders
    Config = config
    FolderOrder <- Order
    Theirs = {platform1, platform2}
    Own = {own1, own2, own3}
    None = None
INVARIANTS
    TypeOK
    EveryVersionResolves
    ForkFaithful
    UncutIsItself
PROPERTIES
    ForkCompletes
