--------------------------- MODULE MCManagedSession ---------------------------
(* Two managed sessions over two configurations.  The commands: a selection *)
(* out of order that names a position twice, a start beyond the manifest,  *)
(* a setting the session fixes.                                            *)
EXTENDS ManagedSession, TLC

\* Every session may have every command, and no worker is special.
MCSymmetry == Permutations(Sessions) \cup Permutations(Workers)

MCSettings == {"fan", "boost"}

MCCommands ==
    {[startAt |-> 0, select |-> <<<<2, 2>>, <<1, 2>>>>],
     [startAt |-> 3, select |-> <<>>],
     [startAt |-> 0, select |-> <<>>, workers |-> 4]}
=============================================================================
