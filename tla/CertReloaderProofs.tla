------------------------- MODULE CertReloaderProofs -------------------------
(***************************************************************************)
(* Proofs about CertReloader for every value of its constants: any number  *)
(* of overlapping loads, any number of rewrites.  What is claimed of the   *)
(* modification times is claimed for files whose times never repeat.       *)
(***************************************************************************)
EXTENDS ForcedReload, TLAPS

\* The files load() has read when it is at the given place.
ReadBy(label) ==
    CASE label = "readKey" -> {"cert"}
      [] label = "readCA"  -> {"cert", "key"}
      [] label = "swap"    -> UsedFiles
      [] OTHER             -> {}

\* No time that anyone holds is later than the last write.
TimesArePast ==
    /\ \A f \in Files : recorded[f] <= writes
    /\ \A l \in Loaders, f \in Files : loader[l].mod[f] <= writes

\* What a load has read of a file that still has the time it saw is what the
\* file still holds.
LoadsAreFresh ==
    ~TimesRepeat => \A l \in Loaders : \A f \in ReadBy(loader[l].pc) :
        loader[l].mod[f] = disk[f].mod => loader[l].data[f] = disk[f].data

\* A load that has got past the key holds a pair, and one about to swap holds
\* a CA bundle if one is configured.
LoadsAreChecked ==
    \A l \in Loaders :
        /\ loader[l].pc \in {"readCA", "swap"} =>
             PairLoads(loader[l].data["cert"], loader[l].data["key"])
        /\ loader[l].pc = "swap" /\ WithCA => CAParses(loader[l].data["ca"])

ReloaderInv ==
    /\ ReloaderTypeOK
    /\ TimesArePast
    /\ LoadsAreFresh
    /\ LoadsAreChecked
    /\ ServedPairMatches
    /\ ClientAuthNeverDropped
    /\ ~TimesRepeat => TimesVouchForContents

-----------------------------------------------------------------------------
LEMMA AtRestType == AtRest \in Loads
  BY DEF AtRest, Loads, LoadPCs, Contents, Files

LEMMA ReloaderInvInit == ReloaderInit => ReloaderInv
  <1> SUFFICES ASSUME ReloaderInit PROVE ReloaderInv
    OBVIOUS
  <1> USE DEF ReloaderInit
  <1>1. ReloaderTypeOK
    BY AtRestType, ConfigAssumption DEF ReloaderTypeOK, Contents
  <1>2. TimesArePast
    BY DEF TimesArePast, AtRest
  <1>3. LoadsAreFresh /\ LoadsAreChecked
    BY DEF LoadsAreFresh, LoadsAreChecked, AtRest, ReadBy
  <1>4. ServedPairMatches /\ ClientAuthNeverDropped
    BY DEF ServedPairMatches, ClientAuthNeverDropped
  <1>5. TimesVouchForContents
    BY DEF TimesVouchForContents, UsedFiles, Files
  <1> QED
    BY <1>1, <1>2, <1>3, <1>4, <1>5 DEF ReloaderInv

\* A step of load() that only changes its own locals keeps the invariant if
\* the new locals are well typed, hold no later time, and are fresh and
\* checked themselves.
LEMMA ProceedStep ==
    ASSUME ReloaderInv, NEW l \in Loaders, NEW new \in Loads, Proceed(l, new),
           \A f \in Files : new.mod[f] <= writes,
           ~TimesRepeat => \A f \in ReadBy(new.pc) :
               new.mod[f] = disk[f].mod => new.data[f] = disk[f].data,
           new.pc \in {"readCA", "swap"} =>
               PairLoads(new.data["cert"], new.data["key"]),
           new.pc = "swap" /\ WithCA => CAParses(new.data["ca"])
    PROVE  ReloaderInv'
  <1>1. /\ loader' = [loader EXCEPT ![l] = new]
        /\ UNCHANGED <<disk, served, recorded, writes>>
        /\ loader \in [Loaders -> Loads]
    BY DEF Proceed, ReloaderInv, ReloaderTypeOK
  <1>2. /\ loader'[l] = new
        /\ \A k \in Loaders : k # l => loader'[k] = loader[k]
        /\ loader' \in [Loaders -> Loads]
    BY <1>1
  <1>3. ReloaderTypeOK'
    BY <1>1, <1>2 DEF ReloaderInv, ReloaderTypeOK
  <1>4. TimesArePast'
    BY <1>1, <1>2 DEF ReloaderInv, TimesArePast
  <1>5. LoadsAreFresh'
    <2> SUFFICES ASSUME ~TimesRepeat, NEW k \in Loaders, NEW f \in ReadBy(loader'[k].pc),
                        loader'[k].mod[f] = disk[f].mod
                 PROVE  loader'[k].data[f] = disk[f].data
      BY <1>1 DEF LoadsAreFresh, ReadBy, UsedFiles
    <2>1. CASE k = l
      BY <1>2, <2>1
    <2>2. CASE k # l
      BY <1>2, <2>2 DEF ReloaderInv, LoadsAreFresh
    <2> QED
      BY <2>1, <2>2
  <1>6. LoadsAreChecked'
    BY <1>1, <1>2 DEF ReloaderInv, LoadsAreChecked
  <1>7. /\ ServedPairMatches' /\ ClientAuthNeverDropped'
        /\ ~TimesRepeat => TimesVouchForContents'
    BY <1>1 DEF ReloaderInv, ServedPairMatches, ClientAuthNeverDropped,
                TimesVouchForContents, UsedFiles
  <1> QED
    BY <1>3, <1>4, <1>5, <1>6, <1>7 DEF ReloaderInv

LEMMA StopStep ==
    ASSUME ReloaderInv, NEW l \in Loaders, Stop(l)
    PROVE  ReloaderInv'
  <1>1. /\ AtRest.pc = "rest"
        /\ \A f \in Files : AtRest.mod[f] <= writes
    BY ConfigAssumption DEF AtRest, ReloaderInv, ReloaderTypeOK
  <1>2. ReadBy(AtRest.pc) = {}
    BY <1>1 DEF ReadBy
  <1>3. AtRest \in Loads /\ Proceed(l, AtRest)
    BY AtRestType DEF Stop
  <1> QED
    BY <1>1, <1>2, <1>3, ProceedStep

LEMMA StatStep ==
    ASSUME ReloaderInv, NEW l \in Loaders, NEW f \in Files, NEW from,
           NEW to \in {"statKey", "comparePair", "compareCA"},
           Stat(l, f, from, to)
    PROVE  ReloaderInv'
  <1>1. CASE disk[f].data = NoFile
    BY <1>1, StopStep DEF Stat
  <1>2. CASE disk[f].data # NoFile
    <2> DEFINE new == [loader[l] EXCEPT !.pc = to, !.mod[f] = disk[f].mod]
    <2>1. loader[l] \in Loads /\ disk[f].mod \in 0..writes /\ writes \in Nat
      BY ConfigAssumption DEF ReloaderInv, ReloaderTypeOK
    <2>a. disk[f].mod \in Nat /\ disk[f].mod <= writes
      BY <2>1
    <2>b. [loader[l].mod EXCEPT ![f] = disk[f].mod] \in [Files -> Nat]
      BY <2>1, <2>a DEF Loads
    <2>2. new \in Loads
      BY <2>1, <2>b DEF Loads, LoadPCs
    <2>3. \A g \in Files : new.mod[g] <= writes
      BY <2>1 DEF Loads, ReloaderInv, TimesArePast
    <2>4. new.pc = to
      BY <2>1 DEF Loads
    <2>5. ReadBy(new.pc) = {}
      BY <2>4 DEF ReadBy
    <2>6. Proceed(l, new)
      BY <1>2 DEF Stat
    <2> HIDE DEF new
    <2> QED
      BY <2>2, <2>3, <2>4, <2>5, <2>6, ProceedStep
  <1> QED
    BY <1>1, <1>2

LEMMA LoadStepInv ==
    ASSUME ReloaderInv, NEW l \in Loaders, LoadStep(l)
    PROVE  ReloaderInv'
  <1>0. /\ loader[l] \in Loads
        /\ \A f \in Files : loader[l].mod[f] <= writes
        /\ \A f \in Files : disk[f].data \in Contents
    BY DEF ReloaderInv, ReloaderTypeOK, TimesArePast
  <1>1. CASE Stat(l, "cert", "statCert", "statKey")
    BY <1>1, StatStep DEF Files
  <1>2. CASE Stat(l, "key", "statKey", "comparePair")
    BY <1>2, StatStep DEF Files
  <1>3. CASE Stat(l, "ca", "statCA", "compareCA")
    BY <1>3, StatStep DEF Files
  \* Going on to a place before any file is read.
  <1>a. ASSUME NEW to \in {"statCA", "readCert"}, NEW b \in BOOLEAN,
               Proceed(l, [loader[l] EXCEPT !.pc = to, !.changed = b])
        PROVE  ReloaderInv'
    <2> DEFINE new == [loader[l] EXCEPT !.pc = to, !.changed = b]
    <2>1. new \in Loads /\ new.pc = to /\ new.mod = loader[l].mod
      BY <1>0 DEF Loads, LoadPCs
    <2>2. ReadBy(new.pc) = {}
      BY <2>1 DEF ReadBy
    <2>3. Proceed(l, new)
      BY <1>a
    <2> HIDE DEF new
    <2> QED
      BY <1>0, <2>1, <2>2, <2>3, ProceedStep
  <1>b. ASSUME Proceed(l, [loader[l] EXCEPT !.pc = "readCert"])
        PROVE  ReloaderInv'
    <2>1. [loader[l] EXCEPT !.pc = "readCert"] =
          [loader[l] EXCEPT !.pc = "readCert", !.changed = loader[l].changed]
      BY <1>0 DEF Loads
    <2>2. loader[l].changed \in BOOLEAN
      BY <1>0 DEF Loads
    <2> QED
      BY <1>b, <1>a, <2>1, <2>2
  <1>4. CASE ComparePair(l)
    <2>1. PICK c \in Changed(l, "cert"), k \in Changed(l, "key") :
            \/ Proceed(l, [loader[l] EXCEPT !.pc = "statCA", !.changed = c \/ k])
            \/ Proceed(l, [loader[l] EXCEPT !.pc = "readCert"])
            \/ Stop(l)
      BY <1>4, ConfigAssumption DEF ComparePair
    <2>2. (c \/ k) \in BOOLEAN
      OBVIOUS
    <2> QED
      BY <1>a, <1>b, <2>1, <2>2, StopStep
  <1>5. CASE CompareCA(l)
    BY <1>5, <1>b, StopStep DEF CompareCA
  <1>6. CASE ReadCert(l)
    <2>1. CASE disk["cert"].data = NoFile
      BY <1>6, <2>1, StopStep DEF ReadCert
    <2>2. CASE disk["cert"].data # NoFile
      <3> DEFINE new == [loader[l] EXCEPT !.pc = "readKey",
                                          !.data["cert"] = disk["cert"].data]
      <3>1. /\ new \in Loads
            /\ new.pc = "readKey"
            /\ new.mod = loader[l].mod
            /\ new.data["cert"] = disk["cert"].data
        BY <1>0 DEF Loads, LoadPCs, Files
      <3>2. ReadBy(new.pc) = {"cert"}
        BY <3>1 DEF ReadBy
      <3>3. Proceed(l, new)
        BY <1>6, <2>2 DEF ReadCert
      <3> HIDE DEF new
      <3> QED
        BY <1>0, <3>1, <3>2, <3>3, ProceedStep
    <2> QED
      BY <2>1, <2>2
  <1>7. CASE ReadKey(l)
    <2> DEFINE key == disk["key"].data
    <2>1. CASE ~PairLoads(loader[l].data["cert"], key)
      BY <1>7, <2>1, StopStep DEF ReadKey
    <2>2. CASE PairLoads(loader[l].data["cert"], key)
      <3> DEFINE to == IF WithCA THEN "readCA" ELSE "swap"
                 new == [loader[l] EXCEPT !.pc = to, !.data["key"] = key]
      <3>1. /\ new \in Loads
            /\ new.pc = to
            /\ new.mod = loader[l].mod
            /\ new.data["key"] = key
            /\ new.data["cert"] = loader[l].data["cert"]
        BY <1>0 DEF Loads, LoadPCs, Files
      <3>2. ReadBy(new.pc) = {"cert", "key"}
        BY <3>1, ConfigAssumption DEF ReadBy, UsedFiles
      <3>3. ~TimesRepeat /\ loader[l].mod["cert"] = disk["cert"].mod
              => loader[l].data["cert"] = disk["cert"].data
        BY <1>7 DEF ReadKey, At, ReloaderInv, LoadsAreFresh, ReadBy
      <3>4. Proceed(l, new)
        BY <1>7, <2>2 DEF ReadKey
      <3>5. new.pc = "swap" => ~WithCA
        BY <3>1
      <3> HIDE DEF new, to
      <3> QED
        BY <1>0, <2>2, <3>1, <3>2, <3>3, <3>4, <3>5, ProceedStep
    <2> QED
      BY <2>1, <2>2
  <1>8. CASE ReadCA(l)
    <2>1. CASE ~CAParses(disk["ca"].data)
      BY <1>8, <2>1, StopStep DEF ReadCA
    <2>2. CASE CAParses(disk["ca"].data)
      <3> DEFINE new == [loader[l] EXCEPT !.pc = "swap",
                                          !.data["ca"] = disk["ca"].data]
      <3>1. /\ new \in Loads
            /\ new.pc = "swap"
            /\ new.mod = loader[l].mod
            /\ new.data["ca"] = disk["ca"].data
            /\ new.data["cert"] = loader[l].data["cert"]
            /\ new.data["key"] = loader[l].data["key"]
        BY <1>0 DEF Loads, LoadPCs, Files
      <3>2. ReadBy(new.pc) \subseteq {"cert", "key", "ca"}
        BY <3>1 DEF ReadBy, UsedFiles, Files
      <3>3. /\ ~TimesRepeat => \A f \in {"cert", "key"} :
                 loader[l].mod[f] = disk[f].mod => loader[l].data[f] = disk[f].data
            /\ PairLoads(loader[l].data["cert"], loader[l].data["key"])
        BY <1>8 DEF ReadCA, At, ReloaderInv, LoadsAreFresh, LoadsAreChecked, ReadBy
      <3>4. Proceed(l, new)
        BY <1>8, <2>2 DEF ReadCA
      <3>5. ~TimesRepeat => \A f \in ReadBy(new.pc) :
              new.mod[f] = disk[f].mod => new.data[f] = disk[f].data
        BY <3>1, <3>2, <3>3
      <3> HIDE DEF new
      <3> QED
        BY <1>0, <2>2, <3>1, <3>3, <3>4, <3>5, ProceedStep
    <2> QED
      BY <2>1, <2>2
  <1>9. CASE Swap(l)
    <2> USE <1>9 DEF Swap
    <2>1. ReadBy(loader[l].pc) = UsedFiles
      BY DEF At, ReadBy
    <2>2. /\ PairLoads(loader[l].data["cert"], loader[l].data["key"])
          /\ WithCA => CAParses(loader[l].data["ca"])
          /\ ~TimesRepeat => \A f \in UsedFiles :
               loader[l].mod[f] = disk[f].mod => loader[l].data[f] = disk[f].data
      BY <2>1 DEF ReloaderInv, LoadsAreFresh, LoadsAreChecked, At
    <2>3. /\ loader'[l] = AtRest
          /\ \A k \in Loaders : k # l => loader'[k] = loader[k]
          /\ loader' \in [Loaders -> Loads]
      BY AtRestType DEF ReloaderInv, ReloaderTypeOK
    <2>4. ReloaderTypeOK'
      BY <1>0, <2>2, <2>3
         DEF ReloaderInv, ReloaderTypeOK, Loads, Files, PairLoads, CAParses
    <2>5. TimesArePast'
      <3>1. \A f \in Files : recorded'[f] <= writes
        BY <1>0 DEF ReloaderInv, TimesArePast
      <3>2. \A f \in Files : AtRest.mod[f] <= writes
        BY ConfigAssumption DEF AtRest, ReloaderInv, ReloaderTypeOK
      <3> QED
        BY <2>3, <3>1, <3>2 DEF ReloaderInv, TimesArePast
    <2>6. LoadsAreFresh'
      <3>1. ReadBy(AtRest.pc) = {}
        BY DEF AtRest, ReadBy
      <3> SUFFICES ASSUME ~TimesRepeat, NEW k \in Loaders, NEW f \in ReadBy(loader'[k].pc),
                          loader'[k].mod[f] = disk[f].mod
                   PROVE  loader'[k].data[f] = disk[f].data
        BY DEF LoadsAreFresh, ReadBy, UsedFiles
      <3> QED
        BY <2>3, <3>1 DEF ReloaderInv, LoadsAreFresh
    <2>7. LoadsAreChecked'
      BY <2>3 DEF ReloaderInv, LoadsAreChecked, AtRest
    <2>8. ServedPairMatches' /\ ClientAuthNeverDropped'
      BY <2>2 DEF ServedPairMatches, ClientAuthNeverDropped, PairLoads, CAParses
    <2>9. ~TimesRepeat => TimesVouchForContents'
      BY <2>2, ConfigAssumption DEF TimesVouchForContents, UsedFiles, Files
    <2> QED
      BY <2>4, <2>5, <2>6, <2>7, <2>8, <2>9 DEF ReloaderInv
  <1> QED
    BY <1>1, <1>2, <1>3, <1>4, <1>5, <1>6, <1>7, <1>8, <1>9 DEF LoadStep

\* A write gives its file a time nobody holds, if times do not repeat, so
\* nothing is claimed of it.
LEMMA WriteStep ==
    ASSUME ReloaderInv, NEW f \in Files, NEW d \in Contents, WriteFile(f, d)
    PROVE  ReloaderInv'
  <1>0. writes \in Nat /\ \A g \in Files : disk[g].mod \in 0..writes
    BY ConfigAssumption DEF ReloaderInv, ReloaderTypeOK
  <1>a. PICK m \in NewTimes(f) :
          disk' = [disk EXCEPT ![f] = [data |-> d, mod |-> m]]
    BY DEF WriteFile
  <1>b. m \in 0..(writes + 1)
    BY <1>0, TimesAssumption DEF NewTimes
  <1>1. /\ disk'[f].mod = m
        /\ ~TimesRepeat => m = writes + 1
        /\ disk'[f].data = d
        /\ \A g \in Files : g # f => disk'[g] = disk[g]
        /\ UNCHANGED <<served, recorded, loader>>
        /\ writes' = writes + 1
        /\ writes < MaxWrites
    BY <1>a DEF WriteFile, NewTimes, ReloaderInv, ReloaderTypeOK
  <1>2. ReloaderTypeOK'
    BY <1>0, <1>a, <1>b, <1>1, ConfigAssumption DEF ReloaderInv, ReloaderTypeOK
  <1>3. \A l \in Loaders, g \in Files :
          loader[l].mod[g] \in Nat /\ recorded[g] \in Nat
    BY DEF ReloaderInv, ReloaderTypeOK, Loads
  <1>4. TimesArePast'
    BY <1>0, <1>1, <1>3, LoadersAssumption DEF ReloaderInv, TimesArePast
  <1>5. LoadsAreFresh'
    <2> SUFFICES ASSUME ~TimesRepeat, NEW k \in Loaders, NEW g \in ReadBy(loader[k].pc),
                        loader[k].mod[g] = disk'[g].mod
                 PROVE  loader[k].data[g] = disk'[g].data
      BY <1>1 DEF LoadsAreFresh, ReadBy, UsedFiles
    <2>1. g \in Files
      BY DEF ReadBy, UsedFiles, Files
    <2>2. g # f
      BY <1>0, <1>1, <1>3, <2>1 DEF ReloaderInv, TimesArePast
    <2> QED
      BY <1>1, <2>1, <2>2 DEF ReloaderInv, LoadsAreFresh
  <1>6. LoadsAreChecked' /\ ServedPairMatches' /\ ClientAuthNeverDropped'
    BY <1>1 DEF ReloaderInv, LoadsAreChecked, ServedPairMatches,
                ClientAuthNeverDropped
  <1>7. ~TimesRepeat => TimesVouchForContents'
    <2> SUFFICES ASSUME ~TimesRepeat, NEW g \in UsedFiles, recorded[g] = disk'[g].mod
                 PROVE  served[g] = disk'[g].data
      BY <1>1 DEF TimesVouchForContents, UsedFiles
    <2>1. g \in Files
      BY DEF UsedFiles, Files
    <2>2. g # f
      BY <1>0, <1>1, <1>3, <2>1, LoadersAssumption DEF ReloaderInv, TimesArePast
    <2> QED
      BY <1>1, <2>1, <2>2 DEF ReloaderInv, TimesVouchForContents
  <1> QED
    BY <1>2, <1>4, <1>5, <1>6, <1>7 DEF ReloaderInv

LEMMA ReloaderInvStep ==
    ASSUME ReloaderInv, [ReloaderNext]_reloadVars
    PROVE  ReloaderInv'
  <1>1. ASSUME NEW l \in Loaders, StartLoad(l) PROVE ReloaderInv'
    <2> DEFINE new == [AtRest EXCEPT !.pc = "statCert"]
    <2>1. /\ new \in Loads
          /\ new.pc = "statCert"
          /\ \A f \in Files : new.mod[f] = 0
      BY AtRestType DEF AtRest, Loads, LoadPCs
    <2>2. ReadBy(new.pc) = {}
      BY <2>1 DEF ReadBy
    <2>3. Proceed(l, new)
      BY <1>1 DEF StartLoad
    <2>4. \A f \in Files : new.mod[f] <= writes
      BY <2>1, ConfigAssumption DEF ReloaderInv, ReloaderTypeOK
    <2> HIDE DEF new
    <2> QED
      BY <2>1, <2>2, <2>3, <2>4, ProceedStep
  <1>2. ASSUME UNCHANGED reloadVars PROVE ReloaderInv'
    BY <1>2 DEF reloadVars, ReloaderInv, ReloaderTypeOK, TimesArePast,
       LoadsAreFresh, ReadBy, LoadsAreChecked, ServedPairMatches,
       ClientAuthNeverDropped, TimesVouchForContents, UsedFiles
  <1> QED
    BY <1>1, <1>2, LoadStepInv, WriteStep DEF ReloaderNext

LEMMA ReloaderInvariant == ReloaderSpec => []ReloaderInv
  BY ReloaderInvInit, ReloaderInvStep, PTL DEF ReloaderSpec

-----------------------------------------------------------------------------
\* However many loads overlap with however many rewrites, a certificate is
\* never served with a key that is not its own.
THEOREM PairsMatch == ReloaderSpec => []ServedPairMatches
  BY ReloaderInvariant, PTL DEF ReloaderInv

\* A configured CA is never lost by a reload.
THEOREM ClientAuthKept == ReloaderSpec => []ClientAuthNeverDropped
  BY ReloaderInvariant, PTL DEF ReloaderInv

\* If no two writes leave a file with the same modification time, equal times
\* mean equal contents, so load() skips only what is already served.
THEOREM TimesVouch ==
    ASSUME ~TimesRepeat
    PROVE  ReloaderSpec => []TimesVouchForContents
  <1>1. ReloaderInv => TimesVouchForContents
    BY DEF ReloaderInv
  <1> QED
    BY <1>1, ReloaderInvariant, PTL

\* Every reachable state of the reloader is well typed: what is served is
\* always of one generation of good files, never garbage.
THEOREM ReloaderTypeCorrect == ReloaderSpec => []ReloaderTypeOK
  BY ReloaderInvariant, PTL DEF ReloaderInv

-----------------------------------------------------------------------------
(* Forced reloads.                                                         *)

\* The files whose time load() has taken when it is at the given place.
SeenBy(label) ==
    CASE label = "statKey" -> {"cert"}
      [] label \in {"comparePair", "statCA"} -> {"cert", "key"}
      [] label \in {"compareCA", "readCert", "readKey", "readCA", "swap"} -> UsedFiles
      [] OTHER -> {}

PairChanged(l) == \E f \in {"cert", "key"} : loader[l].mod[f] # recorded[f]

\* What a load holds is what the files are now.
KnowsDisk(l) ==
    /\ \A f \in SeenBy(loader[l].pc) : loader[l].mod[f] = disk[f].mod
    /\ \A f \in ReadBy(loader[l].pc) : loader[l].data[f] = disk[f].data
    /\ loader[l].pc = "readCA" => WithCA
    /\ loader[l].pc \in {"statCA", "compareCA"} =>
         WithCA /\ (loader[l].changed <=> PairChanged(l))

OthersRest(l) == \A k \in Loaders \ {l} : loader[k].pc = "rest"

\* A load that runs undisturbed is alone and holds what the files are.
UndisturbedInv ==
    \A l \in Loaders : undisturbed[l] => OthersRest(l) /\ KnowsDisk(l)

\* A step of a load that is alone and holds what the files are: it still does
\* afterwards, and if it returns, what is served is what is on disk.
LEMMA LoneStep ==
    ASSUME ReloaderInv, NEW l \in Loaders, LoadStep(l), OthersRest(l), KnowsDisk(l)
    PROVE  /\ KnowsDisk(l)'
           /\ ~TimesRepeat /\ DiskLoads /\ loader'[l].pc = "rest" => Current'
  <1> DEFINE Done == ~TimesRepeat /\ DiskLoads /\ loader'[l].pc = "rest" => Current'
  <1>0. /\ loader \in [Loaders -> Loads]
        /\ loader[l] \in Loads
    BY DEF ReloaderInv, ReloaderTypeOK
  \* A load that stops knows nothing, and what is served stays.
  <1>s. ASSUME Stop(l), ~TimesRepeat /\ DiskLoads => Current
        PROVE  KnowsDisk(l)' /\ Done
    <2>1. /\ loader'[l] = AtRest
          /\ UNCHANGED <<disk, served, recorded>>
      BY <1>0, <1>s DEF Stop, Proceed
    <2>2. KnowsDisk(l)'
      BY <2>1 DEF KnowsDisk, SeenBy, ReadBy, AtRest
    <2>3. Done
      BY <1>s, <2>1 DEF Current, UsedFiles
    <2> QED
      BY <2>2, <2>3
  \* One that goes on has not returned.
  <1>p. ASSUME NEW new \in Loads, Proceed(l, new), new.pc # "rest",
               \A f \in SeenBy(new.pc) : new.mod[f] = disk[f].mod,
               \A f \in ReadBy(new.pc) : new.data[f] = disk[f].data,
               new.pc = "readCA" => WithCA,
               new.pc \in {"statCA", "compareCA"} =>
                   /\ WithCA
                   /\ new.changed <=> \E f \in {"cert", "key"} : new.mod[f] # recorded[f]
        PROVE  KnowsDisk(l)' /\ Done
    <2>1. /\ loader'[l] = new
          /\ UNCHANGED <<disk, served, recorded>>
      BY <1>0, <1>p DEF Proceed
    <2>2. KnowsDisk(l)'
      BY <1>p, <2>1 DEF KnowsDisk, PairChanged, SeenBy, ReadBy, UsedFiles
    <2> QED
      BY <1>p, <2>1, <2>2
  <1>c. \A f \in Files : Changed(l, f) = {loader[l].mod[f] # recorded[f]}
    BY DEF Changed, OthersRest, At
  \* What a load finds unchanged is what is served.
  <1>u. ASSUME \A f \in UsedFiles : loader[l].mod[f] = disk[f].mod /\ loader[l].mod[f] = recorded[f]
        PROVE  ~TimesRepeat /\ DiskLoads => Current
    BY <1>u DEF Current, ReloaderInv, TimesVouchForContents
  <1>d. \A f \in UsedFiles : disk[f].data = NoFile => ~DiskLoads
    BY ContentsAssumption DEF DiskLoads, PairLoads, CAParses, UsedFiles, Files
  <1>1. CASE Stat(l, "cert", "statCert", "statKey")
    <2> DEFINE new == [loader[l] EXCEPT !.pc = "statKey", !.mod["cert"] = disk["cert"].mod]
    <2>1. CASE disk["cert"].data = NoFile
      BY <1>1, <2>1, <1>s, <1>d DEF Stat, UsedFiles, Files
    <2>2. CASE disk["cert"].data # NoFile
      <3>1. disk["cert"].mod \in Nat
        BY ConfigAssumption DEF ReloaderInv, ReloaderTypeOK, Files
      <3>2. new \in Loads /\ new.pc = "statKey" /\ new.mod["cert"] = disk["cert"].mod
        BY <1>0, <3>1 DEF Loads, LoadPCs, Files
      <3>3. SeenBy(new.pc) = {"cert"} /\ ReadBy(new.pc) = {}
        BY <3>2 DEF SeenBy, ReadBy
      <3>4. Proceed(l, new)
        BY <1>1, <2>2 DEF Stat
      <3> HIDE DEF new
      <3> QED
        BY <1>p, <3>2, <3>3, <3>4
    <2> QED
      BY <2>1, <2>2
  <1>2. CASE Stat(l, "key", "statKey", "comparePair")
    <2> DEFINE new == [loader[l] EXCEPT !.pc = "comparePair", !.mod["key"] = disk["key"].mod]
    <2>1. CASE disk["key"].data = NoFile
      BY <1>2, <2>1, <1>s, <1>d DEF Stat, UsedFiles, Files
    <2>2. CASE disk["key"].data # NoFile
      <3>1. disk["key"].mod \in Nat
        BY ConfigAssumption DEF ReloaderInv, ReloaderTypeOK, Files
      <3>2. /\ new \in Loads /\ new.pc = "comparePair"
            /\ new.mod["key"] = disk["key"].mod
            /\ new.mod["cert"] = loader[l].mod["cert"]
        BY <1>0, <3>1 DEF Loads, LoadPCs, Files
      <3>3. SeenBy(new.pc) = {"cert", "key"} /\ ReadBy(new.pc) = {}
        BY <3>2 DEF SeenBy, ReadBy
      <3>4. Proceed(l, new)
        BY <1>2, <2>2 DEF Stat
      <3>5. loader[l].mod["cert"] = disk["cert"].mod
        BY <1>2 DEF Stat, At, KnowsDisk, SeenBy
      <3> HIDE DEF new
      <3> QED
        BY <1>p, <3>2, <3>3, <3>4, <3>5
    <2> QED
      BY <2>1, <2>2
  <1>3. CASE ComparePair(l)
    <2>1. \A f \in {"cert", "key"} : loader[l].mod[f] = disk[f].mod
      BY <1>3 DEF ComparePair, At, KnowsDisk, SeenBy
    <2>a. PICK c \in Changed(l, "cert"), k \in Changed(l, "key") :
            CASE WithCA ->
                   Proceed(l, [loader[l] EXCEPT !.pc = "statCA", !.changed = c \/ k])
              [] ~WithCA /\ (c \/ k) ->
                   Proceed(l, [loader[l] EXCEPT !.pc = "readCert"])
              [] OTHER -> Stop(l)
      BY <1>3 DEF ComparePair
    <2>b. "cert" \in Files /\ "key" \in Files
      BY DEF Files
    <2>c. /\ c = (loader[l].mod["cert"] # recorded["cert"])
          /\ k = (loader[l].mod["key"] # recorded["key"])
      BY <1>c, <2>a, <2>b, Zenon
    <2>2. /\ c <=> loader[l].mod["cert"] # recorded["cert"]
          /\ k <=> loader[l].mod["key"] # recorded["key"]
      BY <2>c
    <2>3. CASE WithCA
      <3> DEFINE new == [loader[l] EXCEPT !.pc = "statCA", !.changed = c \/ k]
      <3>1. /\ new \in Loads /\ new.pc = "statCA" /\ new.mod = loader[l].mod
            /\ new.changed = (c \/ k)
        BY <1>0 DEF Loads, LoadPCs
      <3>2. SeenBy(new.pc) = {"cert", "key"} /\ ReadBy(new.pc) = {}
        BY <3>1 DEF SeenBy, ReadBy
      <3>3. Proceed(l, new)
        BY <2>a, <2>3
      <3> HIDE DEF new
      <3> QED
        BY <1>p, <2>1, <2>2, <2>3, <3>1, <3>2, <3>3
    <2>4. CASE ~WithCA /\ (c \/ k)
      <3> DEFINE new == [loader[l] EXCEPT !.pc = "readCert"]
      <3>1. new \in Loads /\ new.pc = "readCert" /\ new.mod = loader[l].mod
        BY <1>0 DEF Loads, LoadPCs
      <3>2. SeenBy(new.pc) = {"cert", "key"} /\ ReadBy(new.pc) = {}
        BY <2>4, <3>1 DEF SeenBy, ReadBy, UsedFiles
      <3>3. Proceed(l, new)
        BY <2>a, <2>4
      <3> HIDE DEF new
      <3> QED
        BY <1>p, <2>1, <3>1, <3>2, <3>3
    <2>5. CASE ~WithCA /\ ~(c \/ k)
      <3>1. Stop(l)
        BY <2>a, <2>5
      <3>2. \A f \in UsedFiles : loader[l].mod[f] = disk[f].mod /\ loader[l].mod[f] = recorded[f]
        BY <2>1, <2>2, <2>5 DEF UsedFiles
      <3> QED
        BY <1>s, <1>u, <3>1, <3>2
    <2> QED
      BY <2>3, <2>4, <2>5, ConfigAssumption
  <1>4. CASE Stat(l, "ca", "statCA", "compareCA")
    <2> DEFINE new == [loader[l] EXCEPT !.pc = "compareCA", !.mod["ca"] = disk["ca"].mod]
    <2>0. /\ \A f \in {"cert", "key"} : loader[l].mod[f] = disk[f].mod
          /\ WithCA
          /\ loader[l].changed <=> PairChanged(l)
      BY <1>4 DEF Stat, At, KnowsDisk, SeenBy
    <2>1. CASE disk["ca"].data = NoFile
      BY <1>4, <2>0, <2>1, <1>s, <1>d DEF Stat, UsedFiles, Files
    <2>2. CASE disk["ca"].data # NoFile
      <3>1. disk["ca"].mod \in Nat
        BY ConfigAssumption DEF ReloaderInv, ReloaderTypeOK, Files
      <3>2. /\ new \in Loads /\ new.pc = "compareCA"
            /\ new.mod["ca"] = disk["ca"].mod
            /\ \A f \in {"cert", "key"} : new.mod[f] = loader[l].mod[f]
            /\ new.changed = loader[l].changed
        BY <1>0, <3>1 DEF Loads, LoadPCs, Files
      <3>3. SeenBy(new.pc) \subseteq {"cert", "key", "ca"} /\ ReadBy(new.pc) = {}
        BY <3>2 DEF SeenBy, ReadBy, UsedFiles, Files
      <3>4. Proceed(l, new)
        BY <1>4, <2>2 DEF Stat
      <3> HIDE DEF new
      <3> QED
        BY <1>p, <2>0, <3>2, <3>3, <3>4 DEF PairChanged
    <2> QED
      BY <2>1, <2>2
  <1>5. CASE CompareCA(l)
    <2>1. /\ \A f \in UsedFiles : loader[l].mod[f] = disk[f].mod
          /\ WithCA
          /\ loader[l].changed <=> PairChanged(l)
      BY <1>5 DEF CompareCA, At, KnowsDisk, SeenBy
    <2>a. PICK a \in Changed(l, "ca") :
            IF loader[l].changed \/ a
            THEN Proceed(l, [loader[l] EXCEPT !.pc = "readCert"])
            ELSE Stop(l)
      BY <1>5 DEF CompareCA
    <2>b. "ca" \in Files
      BY DEF Files
    <2>c. a = (loader[l].mod["ca"] # recorded["ca"])
      BY <1>c, <2>a, <2>b, Zenon
    <2>2. CASE loader[l].changed \/ loader[l].mod["ca"] # recorded["ca"]
      <3> DEFINE new == [loader[l] EXCEPT !.pc = "readCert"]
      <3>1. new \in Loads /\ new.pc = "readCert" /\ new.mod = loader[l].mod
        BY <1>0 DEF Loads, LoadPCs
      <3>2. SeenBy(new.pc) = UsedFiles /\ ReadBy(new.pc) = {}
        BY <3>1 DEF SeenBy, ReadBy
      <3>3. Proceed(l, new)
        BY <2>a, <2>c, <2>2
      <3> HIDE DEF new
      <3> QED
        BY <1>p, <2>1, <3>1, <3>2, <3>3
    <2>3. CASE ~(loader[l].changed \/ loader[l].mod["ca"] # recorded["ca"])
      <3>1. Stop(l)
        BY <2>a, <2>c, <2>3
      <3>2. \A f \in UsedFiles : loader[l].mod[f] = recorded[f]
        BY <2>1, <2>3 DEF PairChanged, UsedFiles, Files
      <3> QED
        BY <1>s, <1>u, <2>1, <3>1, <3>2
    <2> QED
      BY <2>2, <2>3
  <1>6. CASE ReadCert(l)
    <2>1. \A f \in UsedFiles : loader[l].mod[f] = disk[f].mod
      BY <1>6 DEF ReadCert, At, KnowsDisk, SeenBy
    <2>2. CASE disk["cert"].data = NoFile
      BY <1>6, <2>2, <1>s, <1>d DEF ReadCert, UsedFiles, Files
    <2>3. CASE disk["cert"].data # NoFile
      <3> DEFINE new == [loader[l] EXCEPT !.pc = "readKey",
                                          !.data["cert"] = disk["cert"].data]
      <3>0. disk["cert"].data \in Contents
        BY DEF ReloaderInv, ReloaderTypeOK, Files
      <3>1. /\ new \in Loads /\ new.pc = "readKey" /\ new.mod = loader[l].mod
            /\ new.data["cert"] = disk["cert"].data
        BY <1>0, <3>0 DEF Loads, LoadPCs, Files
      <3>2. SeenBy(new.pc) = UsedFiles /\ ReadBy(new.pc) = {"cert"}
        BY <3>1 DEF SeenBy, ReadBy
      <3>3. Proceed(l, new)
        BY <1>6, <2>3 DEF ReadCert
      <3> HIDE DEF new
      <3> QED
        BY <1>p, <2>1, <3>1, <3>2, <3>3
    <2> QED
      BY <2>2, <2>3
  <1>7. CASE ReadKey(l)
    <2> DEFINE key == disk["key"].data
    <2>1. /\ \A f \in UsedFiles : loader[l].mod[f] = disk[f].mod
          /\ loader[l].data["cert"] = disk["cert"].data
      BY <1>7 DEF ReadKey, At, KnowsDisk, SeenBy, ReadBy
    <2>2. CASE ~PairLoads(loader[l].data["cert"], key)
      BY <1>7, <1>s, <2>1, <2>2 DEF ReadKey, DiskLoads
    <2>3. CASE PairLoads(loader[l].data["cert"], key)
      <3> DEFINE to == IF WithCA THEN "readCA" ELSE "swap"
                 new == [loader[l] EXCEPT !.pc = to, !.data["key"] = key]
      <3>0. key \in Contents
        BY DEF ReloaderInv, ReloaderTypeOK, Files
      <3>1. /\ new \in Loads /\ new.pc = to /\ new.mod = loader[l].mod
            /\ new.data["key"] = key
            /\ new.data["cert"] = loader[l].data["cert"]
        BY <1>0, <3>0 DEF Loads, LoadPCs, Files
      <3>2. SeenBy(new.pc) = UsedFiles /\ ReadBy(new.pc) = {"cert", "key"}
        BY <3>1, ConfigAssumption DEF SeenBy, ReadBy, UsedFiles
      <3>3. Proceed(l, new)
        BY <1>7, <2>3 DEF ReadKey
      <3> HIDE DEF new
      <3> QED
        BY <1>p, <2>1, <3>1, <3>2, <3>3
    <2> QED
      BY <2>2, <2>3
  <1>8. CASE ReadCA(l)
    <2>1. /\ \A f \in UsedFiles : loader[l].mod[f] = disk[f].mod
          /\ WithCA
          /\ \A f \in {"cert", "key"} : loader[l].data[f] = disk[f].data
      BY <1>8 DEF ReadCA, At, KnowsDisk, SeenBy, ReadBy
    <2>2. CASE ~CAParses(disk["ca"].data)
      BY <1>8, <1>s, <2>1, <2>2 DEF ReadCA, DiskLoads
    <2>3. CASE CAParses(disk["ca"].data)
      <3> DEFINE new == [loader[l] EXCEPT !.pc = "swap",
                                          !.data["ca"] = disk["ca"].data]
      <3>0. disk["ca"].data \in Contents
        BY DEF ReloaderInv, ReloaderTypeOK, Files
      <3>1. /\ new \in Loads /\ new.pc = "swap" /\ new.mod = loader[l].mod
            /\ new.data["ca"] = disk["ca"].data
            /\ \A f \in {"cert", "key"} : new.data[f] = loader[l].data[f]
        BY <1>0, <3>0 DEF Loads, LoadPCs, Files
      <3>2. SeenBy(new.pc) = UsedFiles /\ ReadBy(new.pc) \subseteq {"cert", "key", "ca"}
        BY <3>1 DEF SeenBy, ReadBy, UsedFiles, Files
      <3>3. Proceed(l, new)
        BY <1>8, <2>3 DEF ReadCA
      <3> HIDE DEF new
      <3> QED
        BY <1>p, <2>1, <3>1, <3>2, <3>3
    <2> QED
      BY <2>2, <2>3
  <1>9. CASE Swap(l)
    <2>1. \A f \in UsedFiles : loader[l].data[f] = disk[f].data
      BY <1>9 DEF Swap, At, KnowsDisk, ReadBy
    <2>2. loader'[l] = AtRest /\ UNCHANGED disk
      BY <1>0, <1>9 DEF Swap
    <2>3. KnowsDisk(l)'
      BY <2>2 DEF KnowsDisk, SeenBy, ReadBy, AtRest
    <2>4. \A f \in UsedFiles : served'[f] = loader[l].data[f]
      BY <1>9 DEF Swap, UsedFiles, Files
    <2>5. Current'
      BY <2>1, <2>2, <2>4 DEF Current, UsedFiles
    <2> QED
      BY <2>3, <2>5
  <1> QED
    BY <1>1, <1>2, <1>3, <1>4, <1>5, <1>6, <1>7, <1>8, <1>9 DEF LoadStep

\* Only a load under way takes a step of load().
LEMMA RunningLoad ==
    ASSUME NEW k \in Loaders, LoadStep(k)
    PROVE  loader[k].pc # "rest"
  BY DEF LoadStep, Stat, ComparePair, CompareCA, ReadCert, ReadKey, ReadCA, Swap, At

LEMMA UndisturbedStep ==
    ASSUME ReloaderInv, UndisturbedInv, ForcedNext
    PROVE  UndisturbedInv'
  <1>0. loader \in [Loaders -> Loads]
    BY DEF ReloaderInv, ReloaderTypeOK
  <1> SUFFICES ASSUME NEW l \in Loaders, undisturbed'[l]
               PROVE  OthersRest(l)' /\ KnowsDisk(l)'
    BY DEF UndisturbedInv
  <1>1. /\ OthersRest(l)'
        /\ StartLoad(l) \/ (undisturbed[l] /\ UNCHANGED disk)
    BY DEF ForcedNext, Alone, OthersRest
  <1>2. CASE StartLoad(l)
    <2>1. loader'[l].pc = "statCert"
      BY <1>0, <1>2 DEF StartLoad, Proceed, AtRest
    <2> QED
      BY <1>1, <2>1 DEF KnowsDisk, SeenBy, ReadBy
  <1>3. CASE ~StartLoad(l)
    <2>1. OthersRest(l) /\ KnowsDisk(l) /\ UNCHANGED disk
      BY <1>1, <1>3 DEF UndisturbedInv
    <2>2. ASSUME NEW f \in Files, NEW d \in Contents, WriteFile(f, d)
          PROVE  KnowsDisk(l)'
      BY <2>1, <2>2 DEF WriteFile, KnowsDisk, PairChanged, SeenBy, ReadBy, UsedFiles
    <2>3. ASSUME NEW k \in Loaders, StartLoad(k) PROVE k = l
      <3>1. loader'[k].pc = "statCert"
        BY <1>0, <2>3 DEF StartLoad, Proceed, AtRest
      <3> QED
        BY <1>1, <3>1 DEF OthersRest
    <2>4. ASSUME NEW k \in Loaders, LoadStep(k) PROVE k = l
      BY <2>1, <2>4, RunningLoad DEF OthersRest
    <2> QED
      BY <1>1, <1>3, <2>1, <2>2, <2>3, <2>4, LoneStep DEF ForcedNext, ReloaderNext
  <1> QED
    BY <1>2, <1>3

LEMMA ForcedInvariant == ForcedSpec => []ReloaderInv /\ []UndisturbedInv
  <1>1. ForcedInit => ReloaderInv /\ UndisturbedInv
    BY ReloaderInvInit DEF ForcedInit, UndisturbedInv
  <1>2. ReloaderInv /\ UndisturbedInv /\ [ForcedNext]_forcedVars
          => ReloaderInv' /\ UndisturbedInv'
    <2> SUFFICES ASSUME ReloaderInv, UndisturbedInv, [ForcedNext]_forcedVars
                 PROVE  ReloaderInv' /\ UndisturbedInv'
      OBVIOUS
    <2>1. [ReloaderNext]_reloadVars
      BY DEF ForcedNext, forcedVars
    <2>2. ReloaderInv'
      BY <2>1, ReloaderInvStep
    <2>3. CASE UNCHANGED forcedVars
      BY <2>2, <2>3 DEF forcedVars, reloadVars, UndisturbedInv, OthersRest, KnowsDisk,
                  PairChanged, SeenBy, ReadBy, UsedFiles
    <2>4. CASE ForcedNext
      BY <2>2, <2>4, UndisturbedStep
    <2> QED
      BY <2>3, <2>4
  <1> QED
    BY <1>1, <1>2, PTL DEF ForcedSpec

\* If no two writes leave a file with the same modification time, a forced
\* reload that nothing disturbs serves the pair on disk, whatever the loads
\* and the rewrites before it left behind.
THEOREM ForcedReloads ==
    ASSUME ~TimesRepeat
    PROVE  ForcedSpec => ForcedReloadServes
  <1>1. ASSUME ReloaderInv, UndisturbedInv, [ForcedNext]_forcedVars,
               NEW l \in Forced, ~At(l, "rest"), At(l, "rest")', undisturbed[l], DiskLoads
        PROVE  Current'
    <2>0. l \in Loaders /\ loader \in [Loaders -> Loads]
      BY <1>1 DEF Forced, ReloaderInv, ReloaderTypeOK
    <2>1. OthersRest(l) /\ KnowsDisk(l)
      BY <1>1, <2>0 DEF UndisturbedInv
    <2>2. loader'[l] # loader[l]
      BY <1>1 DEF At
    <2>3. ReloaderNext
      BY <1>1, <2>2 DEF ForcedNext, forcedVars, reloadVars
    <2>4. ASSUME NEW k \in Loaders, StartLoad(k) \/ LoadStep(k) PROVE LoadStep(l)
      <3>1. CASE k = l
        BY <1>1, <2>4, <3>1 DEF StartLoad
      <3>2. CASE k # l
        <4>1. loader[k].pc = "rest"
          BY <2>1, <3>2 DEF OthersRest
        <4>2. StartLoad(k)
          BY <2>4, <4>1, RunningLoad
        <4> QED
          BY <2>0, <2>2, <3>2, <4>2 DEF StartLoad, Proceed
      <3> QED
        BY <3>1, <3>2
    <2>5. LoadStep(l)
      BY <2>2, <2>3, <2>4 DEF ReloaderNext, WriteFile
    <2> QED
      BY <1>1, <2>0, <2>1, <2>5, LoneStep DEF At
  <1>2. ReloaderInv /\ UndisturbedInv /\ [ForcedNext]_forcedVars =>
          [\A l \in Forced :
             ~At(l, "rest") /\ At(l, "rest")' /\ undisturbed[l] /\ DiskLoads => Current']_forcedVars
    BY <1>1
  <1> QED
    BY <1>2, ForcedInvariant, PTL DEF ForcedSpec, ForcedReloadServes
=============================================================================
