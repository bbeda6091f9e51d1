---------------------------- MODULE CertReloader ----------------------------
(***************************************************************************)
(* Hot reload of the control plane's TLS files                             *)
(* (control-plane/internal/tlsreload/reloader.go).  Two goroutines run     *)
(* load(): the one that polls (Watch) and the one that handles SIGHUP      *)
(* (Reload).  load() holds the lock only for the final swap, so two loads  *)
(* interleave with each other and with whoever rewrites the files.         *)
(*                                                                         *)
(* A file is its content and its modification time.  The content of the    *)
(* certificate and of the key is the generation of the pair it belongs to. *)
(* A write gives a file a modification time it never had before, unless    *)
(* TimesRepeat: then it may also leave the time as it was (cp -p, a time   *)
(* too coarse to tell two writes apart).                                   *)
(***************************************************************************)
EXTENDS Naturals

CONSTANTS
    Loaders,        \* the goroutines that call load()
    Watcher,        \* the one that polls; the others answer SIGHUP
    Generations,    \* generations of key pairs and CA bundles
    NoFile,         \* in place of a content: os.Stat fails
    Garbage,        \* in place of a content: it does not parse
    Unset,          \* no CA pool
    WithCA,         \* TRUE if a CA path is configured
    TimesRepeat,    \* TRUE if a rewritten file may keep its modification time
    MaxWrites       \* bound of the model: rewrites of the files

ASSUME LoadersAssumption == Watcher \in Loaders
ASSUME ContentsAssumption ==
    /\ NoFile \notin Generations
    /\ Garbage \notin Generations
    /\ Unset \notin Generations
    /\ NoFile # Garbage
ASSUME ConfigAssumption == WithCA \in BOOLEAN /\ MaxWrites \in Nat
ASSUME TimesAssumption == TimesRepeat \in BOOLEAN

VARIABLES
    disk,       \* file -> [data, mod]
    served,     \* r.cert (both halves) and r.clientCAPool
    recorded,   \* r.certMod, r.keyMod, r.caMod
    loader,     \* the running load() of each goroutine
    writes      \* rewrites so far; also the clock of modification times

reloadVars == <<disk, served, recorded, loader, writes>>

-----------------------------------------------------------------------------
Files == {"cert", "key", "ca"}

Contents == Generations \cup {NoFile, Garbage}

LoadPCs == {"rest", "statCert", "statKey", "comparePair", "statCA",
            "compareCA", "readCert", "readKey", "readCA", "swap"}

(* Locals of load(): the times it saw, the contents it read and whether    *)
(* the certificate or the key was found changed.                           *)
Loads ==
    [pc : LoadPCs, mod : [Files -> Nat], data : [Files -> Contents],
     changed : BOOLEAN]

AtRest ==
    [pc |-> "rest", mod |-> [f \in Files |-> 0],
     data |-> [f \in Files |-> NoFile], changed |-> FALSE]

\* Mutant: the two halves are parsed but not matched.
PairParses(cert, key) == cert \in Generations /\ key \in Generations

\* tls.LoadX509KeyPair accepts a certificate and the key that belongs to it.
PairLoads(cert, key) == cert \in Generations /\ key = cert

\* Mutant: a CA file in which nothing parses is accepted.
CAReads(ca) == ca # NoFile

\* AppendCertsFromPEM finds a certificate in the CA file.
CAParses(ca) == ca \in Generations

\* New has loaded the files: main.go ends the process if it cannot.
ReloaderInit ==
    \E g \in Generations, c \in Generations :
        /\ disk = [f \in Files |->
                     [data |-> IF f = "ca" THEN c ELSE g, mod |-> 0]]
        /\ served = [cert |-> g, key |-> g, ca |-> IF WithCA THEN c ELSE Unset]
        /\ recorded = [f \in Files |-> 0]
        /\ loader = [l \in Loaders |-> AtRest]
        /\ writes = 0

-----------------------------------------------------------------------------
(* Someone rotates the files, one write at a time.                         *)

NewTimes(f) == {writes + 1} \cup (IF TimesRepeat THEN {disk[f].mod} ELSE {})

WriteFile(f, d) ==
    /\ writes < MaxWrites
    /\ writes' = writes + 1
    /\ \E m \in NewTimes(f) : disk' = [disk EXCEPT ![f] = [data |-> d, mod |-> m]]
    /\ UNCHANGED <<served, recorded, loader>>

-----------------------------------------------------------------------------
(* load().                                                                 *)

At(l, label) == loader[l].pc = label

\* load() goes on with the given locals; only the swap does more than that.
Proceed(l, locals) ==
    /\ loader' = [loader EXCEPT ![l] = locals]
    /\ UNCHANGED <<disk, served, recorded, writes>>

\* load() returns, with an error or because nothing changed: what is served
\* and what is recorded stay.
Stop(l) == Proceed(l, AtRest)

\* The ticker of Watch fires, or main receives SIGHUP.
StartLoad(l) ==
    /\ At(l, "rest")
    /\ Proceed(l, [AtRest EXCEPT !.pc = "statCert"])

\* os.Stat of one file.
Stat(l, f, from, to) ==
    /\ At(l, from)
    /\ IF disk[f].data = NoFile
       THEN Stop(l)
       ELSE Proceed(l, [loader[l] EXCEPT !.pc = to, !.mod[f] = disk[f].mod])

\* The outcomes of comparing a time with the recorded one.  The recorded
\* times are read without the lock: while another load() stores them, a read
\* may see a mixture and compare either way.
Changed(l, f) ==
    IF \E k \in Loaders \ {l} : At(k, "swap")
    THEN BOOLEAN
    ELSE {loader[l].mod[f] # recorded[f]}

ComparePair(l) ==
    /\ At(l, "comparePair")
    /\ \E c \in Changed(l, "cert"), k \in Changed(l, "key") :
         CASE WithCA ->
                Proceed(l, [loader[l] EXCEPT !.pc = "statCA", !.changed = c \/ k])
           [] ~WithCA /\ (c \/ k) ->
                Proceed(l, [loader[l] EXCEPT !.pc = "readCert"])
           [] OTHER -> Stop(l)

\* Mutant: only the certificate and the key are compared.
CompareCAIgnored(l) ==
    /\ At(l, "compareCA")
    /\ IF loader[l].changed
       THEN Proceed(l, [loader[l] EXCEPT !.pc = "readCert"])
       ELSE Stop(l)

CompareCA(l) ==
    /\ At(l, "compareCA")
    /\ \E a \in Changed(l, "ca") :
         IF loader[l].changed \/ a
         THEN Proceed(l, [loader[l] EXCEPT !.pc = "readCert"])
         ELSE Stop(l)

\* The files are read one by one, each as it is by then.
ReadCert(l) ==
    /\ At(l, "readCert")
    /\ IF disk["cert"].data = NoFile
       THEN Stop(l)
       ELSE Proceed(l, [loader[l] EXCEPT !.pc = "readKey",
                                         !.data["cert"] = disk["cert"].data])

\* With the key read, the pair is parsed and matched.
ReadKey(l) ==
    /\ At(l, "readKey")
    /\ LET key == disk["key"].data
       IN  IF PairLoads(loader[l].data["cert"], key)
           THEN Proceed(l, [loader[l] EXCEPT
                              !.pc = IF WithCA THEN "readCA" ELSE "swap",
                              !.data["key"] = key])
           ELSE Stop(l)

ReadCA(l) ==
    /\ At(l, "readCA")
    /\ IF CAParses(disk["ca"].data)
       THEN Proceed(l, [loader[l] EXCEPT !.pc = "swap",
                                         !.data["ca"] = disk["ca"].data])
       ELSE Stop(l)

\* Mutant: the times recorded are those the files have by now.
SwapRestats(l) ==
    /\ At(l, "swap")
    /\ served' = [cert |-> loader[l].data["cert"],
                  key  |-> loader[l].data["key"],
                  ca   |-> IF WithCA THEN loader[l].data["ca"] ELSE Unset]
    /\ recorded' = [f \in Files |-> disk[f].mod]
    /\ loader' = [loader EXCEPT ![l] = AtRest]
    /\ UNCHANGED <<disk, writes>>

\* Under the lock, the contents read and the times seen replace the old.
Swap(l) ==
    /\ At(l, "swap")
    /\ served' = [cert |-> loader[l].data["cert"],
                  key  |-> loader[l].data["key"],
                  ca   |-> IF WithCA THEN loader[l].data["ca"] ELSE Unset]
    /\ recorded' = [f \in Files |-> IF f = "ca" /\ ~WithCA THEN recorded[f]
                                                            ELSE loader[l].mod[f]]
    /\ loader' = [loader EXCEPT ![l] = AtRest]
    /\ UNCHANGED <<disk, writes>>

LoadStep(l) ==
    \/ Stat(l, "cert", "statCert", "statKey")
    \/ Stat(l, "key", "statKey", "comparePair")
    \/ ComparePair(l)
    \/ Stat(l, "ca", "statCA", "compareCA")
    \/ CompareCA(l)
    \/ ReadCert(l)
    \/ ReadKey(l)
    \/ ReadCA(l)
    \/ Swap(l)

ReloaderNext ==
    \/ \E f \in Files, d \in Contents : WriteFile(f, d)
    \/ \E l \in Loaders : StartLoad(l) \/ LoadStep(l)

ReloaderSpec == ReloaderInit /\ [][ReloaderNext]_reloadVars

(* Watch polls for as long as the process lives, and a load() once begun   *)
(* is carried to its end.  Nobody has to send a SIGHUP.                    *)
ReloaderFairness ==
    /\ WF_reloadVars(StartLoad(Watcher))
    /\ \A l \in Loaders : WF_reloadVars(LoadStep(l))

ReloaderFairSpec == ReloaderSpec /\ ReloaderFairness

-----------------------------------------------------------------------------
(* Properties.                                                             *)

\* Type invariant of the reloader.
ReloaderTypeOK ==
    /\ disk \in [Files -> [data : Contents, mod : 0..writes]]
    /\ served \in [cert : Generations, key : Generations,
                   ca : Generations \cup {Unset}]
    /\ recorded \in [Files -> Nat]
    /\ loader \in [Loaders -> Loads]
    /\ writes \in 0..MaxWrites

UsedFiles == IF WithCA THEN Files ELSE {"cert", "key"}

\* A handshake is always answered with a certificate and the key that belongs
\* to it, also while the two files are being rotated one after the other and
\* two loads are under way: GetCertificate never hands out half a rotation.
ServedPairMatches == served.cert = served.key

\* Once client certificates are required they stay required: a CA file that
\* is missing or damaged when load() comes to it never leaves
\* GetConfigForClient without a pool to verify clients against.
ClientAuthNeverDropped == WithCA => served.ca \in Generations

\* If the recorded time of a file is the one it has on disk, what is served
\* is what the file holds.  load() decides by the times alone, so this is what
\* makes "nothing changed" a safe reason to skip; it rests on taking the time
\* before reading the file, and on no two writes leaving the same time.
TimesVouchForContents ==
    \A f \in UsedFiles : recorded[f] = disk[f].mod => served[f] = disk[f].data

Current == \A f \in UsedFiles : served[f] = disk[f].data

DiskLoads ==
    /\ PairLoads(disk["cert"].data, disk["key"].data)
    /\ WithCA => CAParses(disk["ca"].data)

\* If the files end up as a pair that loads, that pair ends up being served
\* and stays: a load that failed in the middle of a rotation is tried again,
\* and one that overwrote a newer one is made good by the next poll.
DiskIsServedInTheEnd == <>[]DiskLoads => <>[]Current

\* What the type's comment says: the most recently loaded certificate is
\* returned.  It fails when two loads overlap: the one that read the files
\* earlier may swap later, and puts the previous pair back until the next poll.
LoadedIsKept ==
    [][Current /\ UNCHANGED disk => Current']_reloadVars
=============================================================================
