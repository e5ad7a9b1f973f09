CONSTANTS
    Paths = {"root", "home", "sub"}
    ParentOf <- Tree
    HomeDir = "home"
    NoDir = "none"
    Named = {"sub"}
    MaxArgs = 1
SPECIFICATION DirsSpec
CHECK_DEADLOCK FALSE
INVARIANT HopGoesBack
