-------------------------- MODULE MCClaimProtocol ---------------------------
(* Three callers, two run keys, two slots: callers a and b compete for one   *)
(* name, c for another; c passes --workers 1 while a and b pass 2.           *)
EXTENDS ClaimProtocol, TLC

CONSTANTS a, b, c, x, y

MCSessions == {a, b, c}
MCKeys == {x, y}
MCKey == a :> x @@ b :> x @@ c :> y
MCWorkers == a :> 2 @@ b :> 2 @@ c :> 1
=============================================================================
