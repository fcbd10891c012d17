--------------------------- MODULE PlatformConfig ---------------------------
(* ConfigManagementService: the one platform_config row, a JSON object      *)
(* that every PUT reads, merges and writes back whole, and the rows of      *)
(* feature_flags.  Both are written with Repository.save (TypeOrmSave).     *)
EXTENDS Naturals, TypeOrmSave

CONSTANTS
  Keys, Values,   \* fields of the configuration, what they can hold
  Admins,         \* who may be named in updated_by
  Slots,          \* PUT /admin/config requests in flight
  FlagKeys,       \* feature flags
  FlagSlots,      \* PATCH /admin/flags/:key requests in flight
  DefaultConfig,  \* DEFAULT_CONFIG: a function on a subset of Keys
  DefaultFlags,   \* DEFAULT_FLAGS: a function from some flags to BOOLEAN
  Patches,        \* bodies of PUT: functions on subsets of Keys
  None

Objects == UNION {[K -> Values] : K \in SUBSET Keys}
ConfigRow == [value: Objects, by: Admins]
FlagRow == [enabled: BOOLEAN, by: Admins]

ASSUME ObjectAssumption ==
  /\ DefaultConfig \in Objects /\ Patches \subseteq Objects
  /\ DOMAIN DefaultFlags \subseteq FlagKeys
  /\ \A key \in DOMAIN DefaultFlags : DefaultFlags[key] \in BOOLEAN

VARIABLES
  config,   \* the platform_config row, or None
  req,      \* per slot: the updateConfig in flight, or None
  flags,    \* per flag: its feature_flags row, or None
  flagReq,  \* per flag slot: the toggleFlag in flight, or None
  outcome   \* per flag slot: how its last toggleFlag was answered

vars == <<config, req, flags, flagReq, outcome>>

\* An updateConfig: `merged` is the object it will store, `base` what the
\* SELECT of save() returned.
Request == [pc: {"find", "load", "write"}, patch: Patches, by: Admins,
            merged: Objects, base: ConfigRow \cup {None}]
\* A toggleFlag; in "answer" its row is stored.
FlagRequest == [pc: {"find", "load", "write", "answer"}, key: FlagKeys, want: BOOLEAN,
                by: Admins, base: FlagRow \cup {None}]

\* None is a value of its own.
ASSUME NoneAssumption ==
  /\ None \notin ConfigRow \cup FlagRow \cup Request \cup FlagRequest
  /\ None \notin [key: FlagKeys, want: BOOLEAN, done: BOOLEAN]
-----------------------------------------------------------------------------
\* {...under, ...over}: the fields of both, `over` winning.
Spread(under, over) ==
  [k \in DOMAIN under \cup DOMAIN over |->
     IF k \in DOMAIN over THEN over[k] ELSE under[k]]

\* getConfig: the defaults, covered by what is stored.
GetConfig ==
  IF config = None THEN DefaultConfig ELSE Spread(DefaultConfig, config.value)

\* listFlags: the stored flags, or the defaults when nothing is stored.
ListFlags ==
  IF \E key \in FlagKeys : flags[key] # None
  THEN [key \in {k \in FlagKeys : flags[k] # None} |-> flags[key].enabled]
  ELSE DefaultFlags

\* Fault: the first save does not name its admin.
SavedConfigUnsigned(now, q) ==
  IF q.base = None THEN [value |-> q.merged, by |-> None]
  ELSE [value |-> SavedColumn(now.value, q.merged, q.base.value),
        by |-> SavedColumn(now.by, q.by, q.base.by)]

\* save() of the configuration: one INSERT when its SELECT found nothing,
\* otherwise the columns that differ.
SavedConfig(now, q) ==
  IF q.base = None THEN [value |-> q.merged, by |-> q.by]
  ELSE [value |-> SavedColumn(now.value, q.merged, q.base.value),
        by |-> SavedColumn(now.by, q.by, q.base.by)]
SavedFlag(now, q) ==
  IF q.base = None THEN [enabled |-> q.want, by |-> q.by]
  ELSE [enabled |-> SavedColumn(now.enabled, q.want, q.base.enabled),
        by |-> SavedColumn(now.by, q.by, q.base.by)]

Finish(s) == req' = [req EXCEPT ![s] = None]
FinishFlag(t, how) ==
  /\ flagReq' = [flagReq EXCEPT ![t] = None]
  /\ outcome' = [outcome EXCEPT ![t] = how]
-----------------------------------------------------------------------------
(* PUT /admin/config.                                                      *)

StartUpdate(s, patch, by) ==
  /\ req[s] = None
  /\ req' = [req EXCEPT ![s] =
       [pc |-> "find", patch |-> patch, by |-> by, merged |-> patch, base |-> None]]
  /\ UNCHANGED <<config, flags, flagReq, outcome>>

\* Fault: the body is stored as it is, not merged into what is there.
FindUnmerged(s) ==
  /\ req[s] # None /\ req[s].pc = "find"
  /\ req' = [req EXCEPT ![s].pc = "load",
                        ![s].merged = Spread(DefaultConfig, req[s].patch)]
  /\ UNCHANGED <<config, flags, flagReq, outcome>>

\* getConfig answers updateConfig, which merges the patch into it.
Find(s) ==
  /\ req[s] # None /\ req[s].pc = "find"
  /\ req' = [req EXCEPT ![s].pc = "load",
                        ![s].merged = Spread(GetConfig, req[s].patch)]
  /\ UNCHANGED <<config, flags, flagReq, outcome>>

Load(s) ==
  /\ req[s] # None /\ req[s].pc = "load"
  /\ req' = [req EXCEPT ![s].pc = "write", ![s].base = config]
  /\ UNCHANGED <<config, flags, flagReq, outcome>>

\* The INSERT or UPDATE.  An INSERT beside a row another request inserted
\* since the SELECT breaks the primary key, and the request ends in 500.
Write(s) ==
  /\ req[s] # None /\ req[s].pc = "write"
  /\ config' = IF req[s].base = None /\ config # None
               THEN config ELSE SavedConfig(config, req[s])
  /\ Finish(s)
  /\ UNCHANGED <<flags, flagReq, outcome>>

RequestFails(s) ==
  /\ req[s] # None
  /\ Finish(s)
  /\ UNCHANGED <<config, flags, flagReq, outcome>>
-----------------------------------------------------------------------------
(* PATCH /admin/flags/:key.                                                *)

StartToggle(t, key, want, by) ==
  /\ flagReq[t] = None
  /\ flagReq' = [flagReq EXCEPT ![t] =
       [pc |-> "find", key |-> key, want |-> want, by |-> by, base |-> None]]
  /\ outcome' = [outcome EXCEPT ![t] = "none"]
  /\ UNCHANGED <<config, req, flags>>

\* findOne only serves the description.
FlagFind(t) ==
  /\ flagReq[t] # None /\ flagReq[t].pc = "find"
  /\ flagReq' = [flagReq EXCEPT ![t].pc = "load"]
  /\ UNCHANGED <<config, req, flags, outcome>>

FlagLoad(t) ==
  /\ flagReq[t] # None /\ flagReq[t].pc = "load"
  /\ flagReq' = [flagReq EXCEPT ![t].pc = "write",
                                ![t].base = flags[flagReq[t].key]]
  /\ UNCHANGED <<config, req, flags, outcome>>

\* Fault: the flag is flipped instead of set.
FlagWriteFlipping(t) ==
  /\ flagReq[t] # None /\ flagReq[t].pc = "write"
  /\ LET q == flagReq[t]
         now == flags[q.key]
     IN /\ now # None => q.base # None
        /\ flags' = [flags EXCEPT ![q.key] =
             [enabled |-> IF now = None THEN q.want ELSE ~now.enabled, by |-> q.by]]
        /\ flagReq' = [flagReq EXCEPT ![t].pc = "answer"]
  /\ UNCHANGED <<config, req, outcome>>

\* An INSERT that comes second breaks the primary key here too.
FlagWrite(t) ==
  /\ flagReq[t] # None /\ flagReq[t].pc = "write"
  /\ LET q == flagReq[t]
         now == flags[q.key]
     IN IF q.base = None /\ now # None
        THEN FinishFlag(t, "failed") /\ UNCHANGED flags
        ELSE /\ flags' = [flags EXCEPT ![q.key] = SavedFlag(now, q)]
             /\ UNCHANGED outcome
             /\ flagReq' = [flagReq EXCEPT ![t].pc = "answer"]
  /\ UNCHANGED <<config, req>>

FlagAnswer(t) ==
  /\ flagReq[t] # None /\ flagReq[t].pc = "answer"
  /\ FinishFlag(t, "ok")
  /\ UNCHANGED <<config, req, flags>>

FlagFails(t) ==
  /\ flagReq[t] # None
  /\ FinishFlag(t, "failed")
  /\ UNCHANGED <<config, req, flags>>

Restart ==
  /\ req' = [s \in Slots |-> None]
  /\ flagReq' = [t \in FlagSlots |-> None]
  /\ outcome' = [t \in FlagSlots |-> IF flagReq[t] = None THEN outcome[t] ELSE "failed"]
  /\ UNCHANGED <<config, flags>>
-----------------------------------------------------------------------------
Init ==
  /\ config = None
  /\ req = [s \in Slots |-> None]
  /\ flags = [key \in FlagKeys |-> None]
  /\ flagReq = [t \in FlagSlots |-> None]
  /\ outcome = [t \in FlagSlots |-> "none"]

Next ==
  \/ \E s \in Slots :
       \/ Find(s) \/ Load(s) \/ Write(s) \/ RequestFails(s)
       \/ \E patch \in Patches, by \in Admins : StartUpdate(s, patch, by)
  \/ \E t \in FlagSlots :
       \/ FlagFind(t) \/ FlagLoad(t) \/ FlagWrite(t) \/ FlagAnswer(t) \/ FlagFails(t)
       \/ \E key \in FlagKeys, want \in BOOLEAN, by \in Admins :
            StartToggle(t, key, want, by)
  \/ Restart

Spec == Init /\ [][Next]_vars
-----------------------------------------------------------------------------
TypeOK ==
  /\ config \in ConfigRow \cup {None}
  /\ req \in [Slots -> Request \cup {None}]
  /\ flags \in [FlagKeys -> FlagRow \cup {None}]
  /\ flagReq \in [FlagSlots -> FlagRequest \cup {None}]
  /\ outcome \in [FlagSlots -> {"none", "ok", "failed"}]

\* A field is settled when every merged object on its way to the row agrees
\* with what getConfig returns for it.
Settled(k) ==
  /\ k \in DOMAIN GetConfig
  /\ \A s \in Slots : req[s] # None /\ req[s].pc # "find" =>
       k \in DOMAIN req[s].merged /\ req[s].merged[k] = GetConfig[k]

\* A patch of field k reads the configuration in this step.
PatchReadsNow(k) ==
  \E s \in Slots : req[s] # None /\ req[s].pc = "find" /\ k \in DOMAIN req[s].patch

\* A settled field changes only after a patch that names it: a PUT of other
\* fields writes the whole object back (config.service.ts:43-45) and loses an
\* update only when the two overlapped.
SettledFieldsNeedAPatch ==
  [][\A k \in Keys :
       Settled(k) => \/ Settled(k)' /\ GetConfig'[k] = GetConfig[k]
                     \/ PatchReadsNow(k)]_vars

\* The toggles implement the flag register: with the SELECT and UPDATE of
\* save() apart, a toggle to the value already stored takes effect at its
\* SELECT and any other at its UPDATE (config.service.ts:62-68).
TakesEffectAtLoad(q) == q.pc = "write" /\ q.base # None /\ q.base.enabled = q.want
Register == INSTANCE FlagRegister WITH
  Slots <- FlagSlots,
  enabled <- [key \in FlagKeys |->
                IF flags[key] = None THEN None ELSE flags[key].enabled],
  call <- [t \in FlagSlots |->
             IF flagReq[t] = None THEN None
             ELSE [key |-> flagReq[t].key, want |-> flagReq[t].want,
                   done |-> flagReq[t].pc = "answer" \/ TakesEffectAtLoad(flagReq[t])]]
FlagsAreARegister == Register!Spec

\* config.service.ts:52: "Surface defaults even before they've been
\* persisted."
DefaultsAreListed == DOMAIN DefaultFlags \subseteq DOMAIN ListFlags
=============================================================================
