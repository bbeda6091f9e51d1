SPECIFICATION ReloaderSpec
CONSTANTS
    Loaders = {watch, sighup}
    Watcher = watch
    Generations = {g1, g2}
    NoFile = NoFile
    Garbage = Garbage
    Unset = Unset
    WithCA = FALSE
    TimesRepeat = FALSE
    MaxWrites = 3
PROPERTIES
    LoadedIsKept
