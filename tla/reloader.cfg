SPECIFICATION FromFirst
CONSTANTS
    Loaders = {watch, sighup}
    Watcher = watch
    Generations = {g1, g2}
    First = g1
    NoFile = NoFile
    Garbage = Garbage
    Unset = Unset
    WithCA = TRUE
    TimesRepeat = FALSE
    MaxWrites = 3
INVARIANTS
    ServedPairMatches
    ClientAuthNeverDropped
    TimesVouchForContents
PROPERTIES
    DiskIsServedInTheEnd
    ForcedReloadServes
