---------------------------- MODULE MCMaintenance ---------------------------
(* Two ids.  Each play puts the tools side by side whose locks, journals or   *)
(* data meet.                                                                 *)
EXTENDS Maintenance

Play(tools, guarded, plots, most, runs, orphans) ==
    [tools |-> tools, guarded |-> guarded, plots |-> plots, faults |-> most,
     runs |-> runs, orphans |-> orphans]

MCPlays ==
    {Play({"cleanup", "worker"}, FALSE, plots, 2, {1}, orphans) :
        plots \in BOOLEAN, orphans \in {{}, {2}}}
    \cup {Play({"cleanup", "rename", "worker"}, TRUE, FALSE, 1, runs, {}) : runs \in {{}, {1}}}
    \cup {Play({"rename", "worker"}, guarded, FALSE, 2, {1}, {}) : guarded \in BOOLEAN}
    \cup {Play({"sync", "prune", "worker"}, TRUE, FALSE, 1, {1}, {}),
          Play({"sync", "prune", "cleanup"}, TRUE, FALSE, 1, {1, 2}, {}),
          Play({"sync", "prune", "rename"}, TRUE, FALSE, 2, {1}, {})}
=============================================================================
