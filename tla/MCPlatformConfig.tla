-------------------------- MODULE MCPlatformConfig --------------------------
(* Small instances of PlatformConfig for TLC.                              *)
EXTENDS PlatformConfig, TLC

CONSTANTS commission, cities, extra, old, new, rollout, payments

\* Two fields with a default, and one that only a PUT can add.
Defaults == commission :> old @@ cities :> old
OneFieldPatches == {commission :> new, cities :> new, extra :> new, commission :> old}
TwoFlagDefaults == rollout :> TRUE @@ payments :> FALSE

\* Nobody has written the configuration, or nobody has written a flag.
OneTableAtATime ==
  \/ config = None /\ \A s \in Slots : req[s] = None
  \/ /\ \A key \in FlagKeys : flags[key] = None
     /\ \A t \in FlagSlots : flagReq[t] = None /\ outcome[t] = "none"

Interchangeable == Permutations(Slots) \cup Permutations(FlagSlots)
                   \cup Permutations(Admins)
=============================================================================
