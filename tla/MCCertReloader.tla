--------------------------- MODULE MCCertReloader ---------------------------
(***************************************************************************)
(* The reloader on a small instance.                                       *)
(***************************************************************************)
EXTENDS ForcedReload

CONSTANT First      \* one of the generations

\* Generations are only compared for equality, and those of a pair never with
\* those of a CA bundle, so it does not matter which ones the process finds
\* when it starts.
StartsWithFirst ==
    ForcedInit /\ served.cert = First /\ served.ca \in {First, Unset}

FromFirst == StartsWithFirst /\ [][ForcedNext]_forcedVars /\ ReloaderFairness
=============================================================================
