\* A kill between the two commits.
SPECIFICATION Spec
CONSTANTS
    config = config
    home = home
    swarm = swarm
    Folder <- Folders
    Config = config
    FolderOrder <- Order
    Theirs = {platform}
    Own = {own1}
    None = None
INVARIANTS
    TwoCommits
