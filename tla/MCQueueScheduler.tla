-------------------------- MODULE MCQueueScheduler --------------------------
(* Three names: b resumes from a, c is independent.                          *)
EXTENDS QueueScheduler, TLC

CONSTANTS a, b, c, p1, p2, p3

MCNames == {a, b, c}
MCOrder == <<a, b, c>>
MCSource == a :> NoName @@ b :> a @@ c :> NoName
MCPair == {a, b}
MCPairOrder == <<a, b>>
MCPairSource == a :> NoName @@ b :> a
MCFree == a :> NoName @@ b :> NoName @@ c :> NoName
MCPairFree == a :> NoName @@ b :> NoName

MCSymmetry == Permutations(Procs)
=============================================================================
