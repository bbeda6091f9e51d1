---------------------------- MODULE ForcedReload ----------------------------
(***************************************************************************)
(* What a SIGHUP promises: Reload (tlsreload/reloader.go) "forces an       *)
(* immediate certificate reload from disk".  Without a polling interval it *)
(* is the only way a new pair is ever served.                              *)
(*                                                                         *)
(* A history variable tells which of the loads under way run undisturbed:  *)
(* since their first step no file was written, and no other load was under *)
(* way.                                                                    *)
(***************************************************************************)
EXTENDS CertReloader

VARIABLE undisturbed        \* loader -> BOOLEAN

forcedVars == <<reloadVars, undisturbed>>

ForcedInit == ReloaderInit /\ undisturbed = [l \in Loaders |-> FALSE]

\* The load that is under way alone in the state reached.
Alone == {l \in Loaders : \A k \in Loaders : k = l <=> loader'[k].pc # "rest"}

ForcedNext ==
    /\ ReloaderNext
    /\ undisturbed' = [l \in Loaders |->
                         /\ l \in Alone
                         /\ StartLoad(l) \/ (undisturbed[l] /\ UNCHANGED disk)]

ForcedSpec == ForcedInit /\ [][ForcedNext]_forcedVars

Forced == Loaders \ {Watcher}

\* After a forced reload that ran undisturbed while the files on disk load,
\* what is served is what is on disk, also if earlier loads failed, gave up
\* half way through a rotation or put an old pair back.
ForcedReloadServes ==
    [][\A l \in Forced :
         ~At(l, "rest") /\ At(l, "rest")' /\ undisturbed[l] /\ DiskLoads => Current']_forcedVars
=============================================================================
