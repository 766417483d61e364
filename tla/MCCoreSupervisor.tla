-------------------------- MODULE MCCoreSupervisor --------------------------
(***************************************************************************)
(* CoreSupervisor with a tick as long as the ping interval, a budget of    *)
(* one crash, and builds that are sound, cannot start, or speak another    *)
(* protocol.                                                               *)
(***************************************************************************)
EXTENDS CoreSupervisor

MCBuilds == {"bundle", "old", "new", "dead", "mute"}
MCStarts == {"bundle", "old", "new", "mute"}
MCSpeaks == {"bundle", "old", "new"}
MCReleases == [shell |-> {"new", "dead"}, core |-> {"new", "dead", "mute"}]
=============================================================================
