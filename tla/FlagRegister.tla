---------------------------- MODULE FlagRegister ----------------------------
(* What PATCH /admin/flags/:key promises: each call that is answered with  *)
(* success sets the flag once, at one moment between call and answer; a    *)
(* call that fails sets it at most once, or not at all.                    *)
CONSTANTS FlagKeys, Slots, None

VARIABLES
  enabled,  \* the value of each flag, or None before its first toggle
  call,     \* per slot: [key, want, done] of the call in progress, or None
  outcome   \* per slot: how its last call was answered

vars == <<enabled, call, outcome>>

Init ==
  /\ enabled \in [FlagKeys -> BOOLEAN \cup {None}]
  /\ call = [s \in Slots |-> None]
  /\ outcome = [s \in Slots |-> "none"]

Call(s, key, want) ==
  /\ call[s] = None
  /\ call' = [call EXCEPT ![s] = [key |-> key, want |-> want, done |-> FALSE]]
  /\ outcome' = [outcome EXCEPT ![s] = "none"]
  /\ UNCHANGED enabled

\* The moment the flag is set.
Take(s) ==
  /\ call[s] # None /\ ~call[s].done
  /\ enabled' = [enabled EXCEPT ![call[s].key] = call[s].want]
  /\ call' = [call EXCEPT ![s].done = TRUE]
  /\ UNCHANGED outcome

\* Success is answered only after that moment.
Return(s) ==
  /\ call[s] # None /\ call[s].done
  /\ call' = [call EXCEPT ![s] = None]
  /\ outcome' = [outcome EXCEPT ![s] = "ok"]
  /\ UNCHANGED enabled

Fail(s) ==
  /\ call[s] # None
  /\ call' = [call EXCEPT ![s] = None]
  /\ outcome' = [outcome EXCEPT ![s] = "failed"]
  /\ UNCHANGED enabled

Crash ==
  /\ call' = [s \in Slots |-> None]
  /\ outcome' = [s \in Slots |-> IF call[s] = None THEN outcome[s] ELSE "failed"]
  /\ UNCHANGED enabled

Next ==
  \/ \E s \in Slots : Take(s) \/ Return(s) \/ Fail(s)
  \/ \E s \in Slots, key \in FlagKeys, want \in BOOLEAN : Call(s, key, want)
  \/ Crash

Spec == Init /\ [][Next]_vars
=============================================================================
