----------------------------- MODULE MCL3Handoff -----------------------------
(***************************************************************************)
(* L3Handoff in slices, each with builds that start and builds that do     *)
(* not: what goes into the shell (two keys, update requests, a close), and *)
(* what comes out of it (two pieces of output, a grid held and let go, a   *)
(* SIGTERM), with two frames in flight, with a key, or with a resize.      *)
(***************************************************************************)
EXTENDS L3Handoff

AllStaged == {"same", "good", "bad"}

InputWorld == [keys |-> 2, out |-> 0, sizes |-> 0, terms |-> 0, flight |-> 1,
               kinds |-> {"key", "update", "close"}]
OutputWorld == [keys |-> 0, out |-> 2, sizes |-> 0, terms |-> 1, flight |-> 2,
                kinds |-> {"hold", "term"}]
KeyWorld == [OutputWorld EXCEPT !.keys = 1, !.flight = 1, !.kinds = {"key", "hold", "term"}]
SizeWorld == [OutputWorld EXCEPT !.sizes = 1, !.flight = 1, !.kinds = {"size", "hold", "term"}]
\* For CloseWins, with FairSpec
SignalWorld == [OutputWorld EXCEPT !.out = 0, !.kinds = {"term", "close"}]
MCSignals == {SignalWorld}
MCWorlds == {InputWorld, OutputWorld, KeyWorld, SizeWorld}
=============================================================================
