------------------------ MODULE PlatformConfigProofs ------------------------
(* Theorems of PlatformConfig, for every set of fields, flags, admins and  *)
(* requests in flight.                                                     *)
EXTENDS PlatformConfig, TLAPS

\* Rows are never deleted: what save() found is still there when it writes.
RowsStay ==
  /\ \A s \in Slots : req[s] # None /\ req[s].base # None => config # None
  /\ \A t \in FlagSlots : flagReq[t] # None /\ flagReq[t].base # None =>
       flags[flagReq[t].key] # None

\* The inductive invariant.
CInv == TypeOK /\ RowsStay
-----------------------------------------------------------------------------
LEMMA SpreadType ==
  ASSUME NEW a \in Objects, NEW b \in Objects
  PROVE  /\ Spread(a, b) \in Objects
         /\ DOMAIN Spread(a, b) = DOMAIN a \cup DOMAIN b
         /\ \A k \in DOMAIN b : Spread(a, b)[k] = b[k]
         /\ \A k \in DOMAIN a \ DOMAIN b : Spread(a, b)[k] = a[k]
<1>1. PICK A \in SUBSET Keys : a \in [A -> Values]
  BY DEF Objects
<1>2. PICK B \in SUBSET Keys : b \in [B -> Values]
  BY DEF Objects
<1>3. Spread(a, b) \in [A \cup B -> Values]
  BY <1>1, <1>2 DEF Spread
<1>4. Spread(a, b) \in Objects
  <2>1. A \cup B \in SUBSET Keys
    BY <1>1, <1>2
  <2>2. QED
    BY <1>3, <2>1 DEF Objects
<1>5. QED
  BY <1>1, <1>2, <1>4 DEF Spread

LEMMA GetConfigType == ASSUME TypeOK PROVE GetConfig \in Objects
<1>1. CASE config = None
  BY <1>1, ObjectAssumption DEF GetConfig
<1>2. CASE config # None
  <2>1. config.value \in Objects
    BY <1>2 DEF TypeOK, ConfigRow
  <2>2. QED
    BY <1>2, <2>1, SpreadType, ObjectAssumption DEF GetConfig
<1>3. QED
  BY <1>1, <1>2

LEMMA CInvInit == Init => CInv
BY DEF Init, CInv, TypeOK, RowsStay

\* A step on the configuration leaves the flags alone; the slot of another
\* request keeps what it has.
LEMMA CInvUpdate ==
  ASSUME CInv, NEW s \in Slots, UNCHANGED <<flags, flagReq, outcome>>,
         config' \in ConfigRow \cup {None}, config # None => config' # None,
         NEW q \in Request \cup {None}, req' = [req EXCEPT ![s] = q],
         q # None /\ q.base # None => config # None
  PROVE  CInv'
<1>1. TypeOK'
  BY DEF CInv, TypeOK
<1>2. RowsStay'
  BY DEF CInv, TypeOK, RowsStay
<1>3. QED
  BY <1>1, <1>2 DEF CInv

LEMMA CInvStartUpdate ==
  ASSUME CInv, NEW s \in Slots, NEW patch \in Patches, NEW by \in Admins,
         StartUpdate(s, patch, by)
  PROVE  CInv'
<1> DEFINE q == [pc |-> "find", patch |-> patch, by |-> by, merged |-> patch, base |-> None]
<1>1. q \in Request /\ q.base = None
  BY ObjectAssumption DEF Request
<1>2. config' \in ConfigRow \cup {None}
  BY DEF StartUpdate, CInv, TypeOK
<1>3. req' = [req EXCEPT ![s] = q] /\ UNCHANGED <<config, flags, flagReq, outcome>>
  BY DEF StartUpdate
<1>4. QED
  BY <1>1, <1>2, <1>3, CInvUpdate

\* What Find and Load make of a request.
LEMMA FindStep ==
  ASSUME CInv, NEW s \in Slots, Find(s)
  PROVE  /\ req[s] \in Request /\ req[s].patch \in Objects
         /\ [req[s] EXCEPT !.pc = "load", !.merged = Spread(GetConfig, req[s].patch)] \in Request
         /\ req' = [req EXCEPT ![s] =
              [req[s] EXCEPT !.pc = "load", !.merged = Spread(GetConfig, req[s].patch)]]
<1>1. req[s] \in Request
  BY DEF Find, CInv, TypeOK
<1>2. req[s].patch \in Objects
  BY <1>1, ObjectAssumption DEF Request
<1>3. Spread(GetConfig, req[s].patch) \in Objects
  BY <1>2, GetConfigType, SpreadType DEF CInv
<1>4. req' = [req EXCEPT ![s] =
              [req[s] EXCEPT !.pc = "load", !.merged = Spread(GetConfig, req[s].patch)]]
  BY <1>1 DEF Find, CInv, TypeOK
<1>5. QED
  BY <1>1, <1>2, <1>3, <1>4 DEF Request

LEMMA CInvFind == ASSUME CInv, NEW s \in Slots, Find(s) PROVE CInv'
<1> DEFINE q == [req[s] EXCEPT !.pc = "load", !.merged = Spread(GetConfig, req[s].patch)]
<1>1. q \in Request /\ req' = [req EXCEPT ![s] = q] /\ req[s] \in Request
  BY FindStep
<1>2. q.base = req[s].base /\ (q.base # None => config # None)
  BY <1>1 DEF Find, Request, CInv, RowsStay
<1>3. config' \in ConfigRow \cup {None} /\ UNCHANGED <<config, flags, flagReq, outcome>>
  BY DEF Find, CInv, TypeOK
<1> HIDE DEF q
<1>4. QED
  BY <1>1, <1>2, <1>3, CInvUpdate

LEMMA CInvLoad == ASSUME CInv, NEW s \in Slots, Load(s) PROVE CInv'
<1> DEFINE q == [req[s] EXCEPT !.pc = "write", !.base = config]
<1>1. req[s] \in Request /\ config \in ConfigRow \cup {None}
  BY DEF Load, CInv, TypeOK
<1>2. q \in Request /\ q.base = config
  BY <1>1 DEF Request
<1>3. req' = [req EXCEPT ![s] = q] /\ UNCHANGED <<config, flags, flagReq, outcome>>
  BY <1>1 DEF Load, CInv, TypeOK
<1> HIDE DEF q
<1>4. QED
  BY <1>1, <1>2, <1>3, CInvUpdate

LEMMA SavedConfigType ==
  ASSUME CInv, NEW s \in Slots, req[s] # None, req[s].base = None => config = None
  PROVE  SavedConfig(config, req[s]) \in ConfigRow
<1>1. req[s] \in Request
  BY DEF CInv, TypeOK
<1>2. req[s].merged \in Objects /\ req[s].by \in Admins
  BY <1>1 DEF Request
<1>3. CASE req[s].base = None
  BY <1>2, <1>3 DEF SavedConfig, ConfigRow
<1>4. CASE req[s].base # None
  <2>1. config \in ConfigRow
    BY <1>4 DEF CInv, TypeOK, RowsStay
  <2>2. QED
    BY <1>2, <1>4, <2>1 DEF SavedConfig, SavedColumn, ConfigRow
<1>5. QED
  BY <1>3, <1>4

LEMMA CInvWrite == ASSUME CInv, NEW s \in Slots, Write(s) PROVE CInv'
<1>1. config' \in ConfigRow \cup {None} /\ (config # None => config' # None)
  <2>1. CASE req[s].base = None /\ config # None
    BY <2>1 DEF Write, CInv, TypeOK
  <2>2. CASE ~(req[s].base = None /\ config # None)
    <3>1. SavedConfig(config, req[s]) \in ConfigRow
      BY <2>2, SavedConfigType DEF Write
    <3>2. QED
      BY <2>2, <3>1, NoneAssumption DEF Write
  <2>3. QED
    BY <2>1, <2>2
<1>2. req' = [req EXCEPT ![s] = None] /\ UNCHANGED <<flags, flagReq, outcome>>
  BY DEF Write, Finish
<1>3. QED
  BY <1>1, <1>2, CInvUpdate

LEMMA CInvRequestFails == ASSUME CInv, NEW s \in Slots, RequestFails(s) PROVE CInv'
<1>1. config' \in ConfigRow \cup {None}
  BY DEF RequestFails, CInv, TypeOK
<1>2. req' = [req EXCEPT ![s] = None] /\ UNCHANGED <<config, flags, flagReq, outcome>>
  BY DEF RequestFails, Finish
<1>3. QED
  BY <1>1, <1>2, CInvUpdate
-----------------------------------------------------------------------------
\* A step on the flags.
LEMMA CInvToggle ==
  ASSUME CInv, NEW t \in FlagSlots, UNCHANGED <<config, req>>,
         flags' \in [FlagKeys -> FlagRow \cup {None}],
         \A key \in FlagKeys : flags[key] # None => flags'[key] # None,
         outcome' \in [FlagSlots -> {"none", "ok", "failed"}],
         NEW q \in FlagRequest \cup {None}, flagReq' = [flagReq EXCEPT ![t] = q],
         q # None /\ q.base # None => flags[q.key] # None
  PROVE  CInv'
<1>1. TypeOK'
  BY DEF CInv, TypeOK
<1>2. RowsStay'
  BY DEF CInv, TypeOK, RowsStay, FlagRequest
<1>3. QED
  BY <1>1, <1>2 DEF CInv

LEMMA CInvStartToggle ==
  ASSUME CInv, NEW t \in FlagSlots, NEW key \in FlagKeys, NEW want \in BOOLEAN,
         NEW by \in Admins, StartToggle(t, key, want, by)
  PROVE  CInv'
<1> DEFINE q == [pc |-> "find", key |-> key, want |-> want, by |-> by, base |-> None]
<1>1. q \in FlagRequest /\ q.base = None
  BY DEF FlagRequest
<1>2. flagReq' = [flagReq EXCEPT ![t] = q] /\ UNCHANGED <<config, req, flags>>
      /\ outcome' = [outcome EXCEPT ![t] = "none"]
  BY DEF StartToggle
<1>3. flags' \in [FlagKeys -> FlagRow \cup {None}] /\ outcome' \in [FlagSlots -> {"none", "ok", "failed"}]
  BY <1>2 DEF CInv, TypeOK
<1>4. QED
  BY <1>1, <1>2, <1>3, CInvToggle

LEMMA CInvFlagFind == ASSUME CInv, NEW t \in FlagSlots, FlagFind(t) PROVE CInv'
<1> DEFINE q == [flagReq[t] EXCEPT !.pc = "load"]
<1>1. flagReq[t] \in FlagRequest
  BY DEF FlagFind, CInv, TypeOK
<1>2. q \in FlagRequest /\ q.base = flagReq[t].base /\ q.key = flagReq[t].key
  BY <1>1 DEF FlagRequest
<1>3. flagReq' = [flagReq EXCEPT ![t] = q] /\ UNCHANGED <<config, req, flags, outcome>>
  BY <1>1 DEF FlagFind, CInv, TypeOK
<1>4. /\ flags' \in [FlagKeys -> FlagRow \cup {None}]
      /\ outcome' \in [FlagSlots -> {"none", "ok", "failed"}]
      /\ q.base # None => flags[q.key] # None
  BY <1>1, <1>2, <1>3 DEF CInv, TypeOK, RowsStay, FlagFind
<1> HIDE DEF q
<1>5. QED
  BY <1>2, <1>3, <1>4, CInvToggle

LEMMA CInvFlagLoad == ASSUME CInv, NEW t \in FlagSlots, FlagLoad(t) PROVE CInv'
<1> DEFINE q == [flagReq[t] EXCEPT !.pc = "write", !.base = flags[flagReq[t].key]]
<1>1. flagReq[t] \in FlagRequest
  BY DEF FlagLoad, CInv, TypeOK
<1>2. flags[flagReq[t].key] \in FlagRow \cup {None}
  BY <1>1 DEF CInv, TypeOK, FlagRequest
<1>3. q \in FlagRequest /\ q.base = flags[q.key]
  BY <1>1, <1>2 DEF FlagRequest
<1>4. flagReq' = [flagReq EXCEPT ![t] = q] /\ UNCHANGED <<config, req, flags, outcome>>
  BY <1>1 DEF FlagLoad, CInv, TypeOK
<1>5. /\ flags' \in [FlagKeys -> FlagRow \cup {None}]
      /\ outcome' \in [FlagSlots -> {"none", "ok", "failed"}]
  BY <1>4 DEF CInv, TypeOK
<1> HIDE DEF q
<1>6. QED
  BY <1>3, <1>4, <1>5, CInvToggle

\* What the UPDATE or INSERT of a toggle stores.
LEMMA SavedFlagType ==
  ASSUME CInv, NEW t \in FlagSlots, flagReq[t] # None,
         ~(flagReq[t].base = None /\ flags[flagReq[t].key] # None)
  PROVE  LET q == flagReq[t]
             now == flags[q.key]
         IN /\ SavedFlag(now, q) \in FlagRow
            /\ SavedFlag(now, q).enabled =
                 IF q.base # None /\ q.base.enabled = q.want THEN now.enabled ELSE q.want
            /\ q.base # None => now \in FlagRow
<1> DEFINE q == flagReq[t]
           now == flags[q.key]
<1>1. q \in FlagRequest
  BY DEF CInv, TypeOK
<1>2. q.want \in BOOLEAN /\ q.by \in Admins /\ q.key \in FlagKeys
  BY <1>1 DEF FlagRequest
<1>3. CASE q.base = None
  BY <1>2, <1>3 DEF SavedFlag, FlagRow
<1>4. CASE q.base # None
  <2>1. now \in FlagRow
    BY <1>2, <1>4 DEF CInv, TypeOK, RowsStay
  <2>2. now.enabled \in BOOLEAN /\ now.by \in Admins
    BY <2>1 DEF FlagRow
  <2>3. SavedFlag(now, q) =
          [enabled |-> IF q.want = q.base.enabled THEN now.enabled ELSE q.want,
           by |-> IF q.by = q.base.by THEN now.by ELSE q.by]
    BY <1>4 DEF SavedFlag, SavedColumn
  <2>4. QED
    BY <1>2, <1>4, <2>1, <2>2, <2>3 DEF FlagRow
<1>5. QED
  BY <1>3, <1>4

LEMMA CInvFlagWrite == ASSUME CInv, NEW t \in FlagSlots, FlagWrite(t) PROVE CInv'
<1>1. flagReq[t] \in FlagRequest /\ flagReq[t].key \in FlagKeys
  BY DEF FlagWrite, CInv, TypeOK, FlagRequest
<1>2. CASE flagReq[t].base = None /\ flags[flagReq[t].key] # None
  <2>1. flagReq' = [flagReq EXCEPT ![t] = None] /\ UNCHANGED <<config, req, flags>>
        /\ outcome' = [outcome EXCEPT ![t] = "failed"]
    BY <1>2 DEF FlagWrite, FinishFlag
  <2>2. /\ flags' \in [FlagKeys -> FlagRow \cup {None}]
        /\ outcome' \in [FlagSlots -> {"none", "ok", "failed"}]
    BY <2>1 DEF CInv, TypeOK
  <2>3. QED
    BY <2>1, <2>2, CInvToggle
<1>3. CASE ~(flagReq[t].base = None /\ flags[flagReq[t].key] # None)
  <2> DEFINE q == [flagReq[t] EXCEPT !.pc = "answer"]
             row == SavedFlag(flags[flagReq[t].key], flagReq[t])
  <2>1. row \in FlagRow /\ row # None
    BY <1>3, SavedFlagType, NoneAssumption DEF FlagWrite
  <2>2. q \in FlagRequest /\ q.base = flagReq[t].base /\ q.key = flagReq[t].key
    BY <1>1 DEF FlagRequest
  <2>3. /\ flagReq' = [flagReq EXCEPT ![t] = q] /\ UNCHANGED <<config, req, outcome>>
        /\ flags' = [flags EXCEPT ![flagReq[t].key] = row]
    BY <1>1, <1>3 DEF FlagWrite, CInv, TypeOK
  <2>4. q.base # None => flags[q.key] # None
    BY <2>2 DEF CInv, RowsStay, FlagWrite
  <2> HIDE DEF q, row
  <2>5. /\ flags' \in [FlagKeys -> FlagRow \cup {None}]
        /\ \A key \in FlagKeys : flags[key] # None => flags'[key] # None
        /\ outcome' \in [FlagSlots -> {"none", "ok", "failed"}]
    BY <1>1, <2>1, <2>3 DEF CInv, TypeOK
  <2>6. QED
    BY <2>2, <2>3, <2>4, <2>5, CInvToggle
<1>4. QED
  BY <1>2, <1>3

LEMMA CInvFlagEnds ==
  ASSUME CInv, NEW t \in FlagSlots, FlagAnswer(t) \/ FlagFails(t) PROVE CInv'
<1>1. flagReq' = [flagReq EXCEPT ![t] = None] /\ UNCHANGED <<config, req, flags>>
      /\ \E how \in {"ok", "failed"} : outcome' = [outcome EXCEPT ![t] = how]
  BY DEF FlagAnswer, FlagFails, FinishFlag
<1>2. /\ flags' \in [FlagKeys -> FlagRow \cup {None}]
      /\ outcome' \in [FlagSlots -> {"none", "ok", "failed"}]
  BY <1>1 DEF CInv, TypeOK
<1>3. QED
  BY <1>1, <1>2, CInvToggle

LEMMA CInvNext == CInv /\ [Next]_vars => CInv'
<1> SUFFICES ASSUME CInv, [Next]_vars PROVE CInv'
  OBVIOUS
<1>1. CASE UNCHANGED vars
  BY <1>1 DEF vars, CInv, TypeOK, RowsStay
<1>2. ASSUME NEW s \in Slots, Find(s) \/ Load(s) \/ Write(s) \/ RequestFails(s)
      PROVE  CInv'
  BY <1>2, CInvFind, CInvLoad, CInvWrite, CInvRequestFails
<1>3. ASSUME NEW s \in Slots, NEW patch \in Patches, NEW by \in Admins,
             StartUpdate(s, patch, by)
      PROVE  CInv'
  BY <1>3, CInvStartUpdate
<1>4. ASSUME NEW t \in FlagSlots,
             FlagFind(t) \/ FlagLoad(t) \/ FlagWrite(t) \/ FlagAnswer(t) \/ FlagFails(t)
      PROVE  CInv'
  BY <1>4, CInvFlagFind, CInvFlagLoad, CInvFlagWrite, CInvFlagEnds
<1>5. ASSUME NEW t \in FlagSlots, NEW key \in FlagKeys, NEW want \in BOOLEAN,
             NEW by \in Admins, StartToggle(t, key, want, by)
      PROVE  CInv'
  BY <1>5, CInvStartToggle
<1>6. CASE Restart
  BY <1>6 DEF Restart, CInv, TypeOK, RowsStay
<1>7. QED
  BY <1>1, <1>2, <1>3, <1>4, <1>5, <1>6 DEF Next

LEMMA CInvHolds == Spec => []CInv
BY CInvInit, CInvNext, PTL DEF Spec

\* Every reachable state is well typed.
THEOREM TypeCorrect == Spec => []TypeOK
<1>1. CInv => TypeOK
  BY DEF CInv
<1>2. QED
  BY <1>1, CInvHolds, PTL
-----------------------------------------------------------------------------
(* An update is lost only where two overlap.                               *)

\* What the action property says of field k and one step.
Kept(k) == \/ Settled(k)' /\ GetConfig'[k] = GetConfig[k]
           \/ PatchReadsNow(k)

\* A step that leaves the configuration alone keeps every settled field when no
\* merged object changes and none is added.
LEMMA KeptBesides ==
  ASSUME CInv, NEW k \in Keys, Settled(k), UNCHANGED config,
         \A s \in Slots : req'[s] # None /\ req'[s].pc # "find" =>
           req[s] # None /\ req[s].pc # "find" /\ req'[s].merged = req[s].merged
  PROVE  Kept(k)
BY DEF Settled, GetConfig, Kept

LEMMA KeptByFind ==
  ASSUME CInv, NEW k \in Keys, Settled(k), NEW s \in Slots, Find(s)
  PROVE  Kept(k)
<1> DEFINE q == [req[s] EXCEPT !.pc = "load", !.merged = Spread(GetConfig, req[s].patch)]
<1>1. req[s] \in Request /\ req[s].patch \in Objects /\ req' = [req EXCEPT ![s] = q]
  BY FindStep
<1>2. q.merged = Spread(GetConfig, req[s].patch)
  BY <1>1 DEF Request
<1>3. CASE k \in DOMAIN req[s].patch
  BY <1>3 DEF Find, PatchReadsNow, Kept
<1>4. CASE k \notin DOMAIN req[s].patch
  <2>1. GetConfig \in Objects /\ k \in DOMAIN GetConfig
    BY GetConfigType DEF CInv, Settled
  <2>2. k \in DOMAIN q.merged /\ q.merged[k] = GetConfig[k]
    <3> DEFINE merged == Spread(GetConfig, req[s].patch)
    <3>1. /\ DOMAIN merged = DOMAIN GetConfig \cup DOMAIN req[s].patch
          /\ \A x \in DOMAIN GetConfig \ DOMAIN req[s].patch : merged[x] = GetConfig[x]
      BY <1>1, <2>1, SpreadType
    <3> HIDE DEF merged
    <3>2. k \in DOMAIN merged /\ merged[k] = GetConfig[k]
      BY <1>4, <2>1, <3>1
    <3>3. QED
      BY <1>2, <3>2 DEF merged
  <2>3. config' = config /\ GetConfig' = GetConfig
    BY DEF Find, GetConfig
  <2>4. req'[s] = q /\ \A x \in Slots \ {s} : req'[x] = req[x]
    BY <1>1 DEF CInv, TypeOK
  <2> HIDE DEF q
  <2>5. QED
    BY <2>2, <2>3, <2>4 DEF Settled, Kept
<1>5. QED
  BY <1>3, <1>4

LEMMA KeptByWrite ==
  ASSUME CInv, NEW k \in Keys, Settled(k), NEW s \in Slots, Write(s)
  PROVE  Kept(k)
<1>1. /\ req[s] # None /\ req[s] \in Request /\ req[s].merged \in Objects
      /\ k \in DOMAIN req[s].merged /\ req[s].merged[k] = GetConfig[k]
  BY DEF Write, CInv, TypeOK, Request, Settled
<1>2. req'[s] = None /\ \A x \in Slots \ {s} : req'[x] = req[x]
  BY DEF Write, Finish, CInv, TypeOK
<1>3. k \in DOMAIN GetConfig' /\ GetConfig'[k] = GetConfig[k]
  <2>1. CASE config' = config
    BY <2>1 DEF GetConfig, Settled
  <2>2. CASE config' # None /\ config'.value = req[s].merged
    <3>1. GetConfig' = Spread(DefaultConfig, req[s].merged)
      BY <2>2 DEF GetConfig
    <3> DEFINE read == Spread(DefaultConfig, req[s].merged)
    <3>2. /\ DOMAIN read = DOMAIN DefaultConfig \cup DOMAIN req[s].merged
          /\ \A x \in DOMAIN req[s].merged : read[x] = req[s].merged[x]
      BY <1>1, SpreadType, ObjectAssumption
    <3> HIDE DEF read
    <3>3. k \in DOMAIN read /\ read[k] = GetConfig[k]
      BY <1>1, <3>2
    <3>4. QED
      BY <3>1, <3>3 DEF read
  <2>3. CASE config # None /\ config' # None /\ config'.value = config.value
    BY <2>3 DEF GetConfig, Settled
  <2>4. config' = config \/ config' = SavedConfig(config, req[s])
    BY DEF Write
  <2>5. config' = SavedConfig(config, req[s]) /\ config' # config =>
          /\ config' # None
          /\ config'.value = req[s].merged \/ (config # None /\ config'.value = config.value)
    <3> SUFFICES ASSUME config' = SavedConfig(config, req[s]), config' # config
                 PROVE  /\ config' # None
                        /\ \/ config'.value = req[s].merged
                           \/ config # None /\ config'.value = config.value
      OBVIOUS
    <3>1. req[s].base = None => config = None
      BY DEF Write
    <3>2. config' # None
      BY <1>1, <3>1, SavedConfigType, NoneAssumption
    <3>3. req[s].base # None => config # None
      BY <1>1 DEF CInv, RowsStay
    <3>4. QED
      BY <3>2, <3>3 DEF SavedConfig, SavedColumn
  <2>6. QED
    BY <2>1, <2>2, <2>3, <2>4, <2>5
<1>4. QED
  BY <1>2, <1>3 DEF Settled, Kept

LEMMA KeptNext ==
  ASSUME CInv, [Next]_vars, NEW k \in Keys, Settled(k) PROVE Kept(k)
<1>1. CASE UNCHANGED vars
  BY <1>1, KeptBesides DEF vars
<1>2. ASSUME NEW s \in Slots, NEW patch \in Patches, NEW by \in Admins,
             StartUpdate(s, patch, by)
      PROVE  Kept(k)
  <2>1. req'[s].pc = "find" /\ \A x \in Slots \ {s} : req'[x] = req[x]
    BY <1>2 DEF StartUpdate, CInv, TypeOK
  <2>2. QED
    BY <1>2, <2>1, KeptBesides DEF StartUpdate
<1>3. ASSUME NEW s \in Slots, Load(s) PROVE Kept(k)
  <2>1. /\ req[s] # None /\ req[s].pc = "load" /\ req'[s].merged = req[s].merged
        /\ \A x \in Slots \ {s} : req'[x] = req[x]
    BY <1>3 DEF Load, CInv, TypeOK, Request
  <2>2. QED
    BY <1>3, <2>1, KeptBesides DEF Load
<1>4. ASSUME NEW s \in Slots, RequestFails(s) PROVE Kept(k)
  <2>1. req'[s] = None /\ \A x \in Slots \ {s} : req'[x] = req[x]
    BY <1>4 DEF RequestFails, Finish, CInv, TypeOK
  <2>2. QED
    BY <1>4, <2>1, KeptBesides DEF RequestFails
<1>5. ASSUME UNCHANGED <<config, req>> PROVE Kept(k)
  BY <1>5, KeptBesides
<1>6. CASE Restart
  BY <1>6, KeptBesides DEF Restart
<1>7. QED
  BY <1>1, <1>2, <1>3, <1>4, <1>5, <1>6, KeptByFind, KeptByWrite
  DEF Next, StartToggle, FlagFind, FlagLoad, FlagWrite, FlagAnswer, FlagFails

\* A PUT loses an update only where the two overlapped
\* (config.service.ts:43-45).
THEOREM SettledFieldsStay == Spec => SettledFieldsNeedAPatch
<1>1. CInv /\ [Next]_vars => [\A k \in Keys :
        Settled(k) => \/ Settled(k)' /\ GetConfig'[k] = GetConfig[k]
                      \/ PatchReadsNow(k)]_vars
  BY KeptNext DEF Kept
<1>2. QED
  BY <1>1, CInvHolds, PTL DEF Spec, SettledFieldsNeedAPatch
-----------------------------------------------------------------------------
(* The toggles implement the flag register.                                *)

\* The register's state, read off the tables and the requests in flight.
Shown(row) == IF row = None THEN None ELSE row.enabled
Seen(q) ==
  IF q = None THEN None
  ELSE [key |-> q.key, want |-> q.want, done |-> q.pc = "answer" \/ TakesEffectAtLoad(q)]
RegEnabled == [key \in FlagKeys |-> Shown(flags[key])]
RegCall == [t \in FlagSlots |-> Seen(flagReq[t])]

\* The steps of the register, in terms of them.
LEMMA RegisterCalls ==
  ASSUME NEW t \in FlagSlots, NEW key \in FlagKeys, NEW want \in BOOLEAN,
         RegCall[t] = None,
         RegCall' = [RegCall EXCEPT ![t] = [key |-> key, want |-> want, done |-> FALSE]],
         outcome' = [outcome EXCEPT ![t] = "none"], RegEnabled' = RegEnabled
  PROVE  Register!Next
<1>1. Register!Call(t, key, want)
  BY DEF Register!Call, RegEnabled, RegCall, Shown, Seen
<1>2. QED
  BY <1>1 DEF Register!Next

LEMMA RegisterTakes ==
  ASSUME NEW t \in FlagSlots, RegCall[t] # None, ~RegCall[t].done,
         RegEnabled' = [RegEnabled EXCEPT ![RegCall[t].key] = RegCall[t].want],
         RegCall' = [RegCall EXCEPT ![t].done = TRUE], outcome' = outcome
  PROVE  Register!Next
<1>1. Register!Take(t)
  BY DEF Register!Take, RegEnabled, RegCall, Shown, Seen
<1>2. QED
  BY <1>1 DEF Register!Next

LEMMA RegisterReturns ==
  ASSUME NEW t \in FlagSlots, RegCall[t] # None, RegCall[t].done,
         RegCall' = [RegCall EXCEPT ![t] = None],
         outcome' = [outcome EXCEPT ![t] = "ok"], RegEnabled' = RegEnabled
  PROVE  Register!Next
<1>1. Register!Return(t)
  BY DEF Register!Return, RegEnabled, RegCall, Shown, Seen
<1>2. QED
  BY <1>1 DEF Register!Next

LEMMA RegisterFails ==
  ASSUME NEW t \in FlagSlots, RegCall[t] # None,
         RegCall' = [RegCall EXCEPT ![t] = None],
         outcome' = [outcome EXCEPT ![t] = "failed"], RegEnabled' = RegEnabled
  PROVE  Register!Next
<1>1. Register!Fail(t)
  BY DEF Register!Fail, RegEnabled, RegCall, Shown, Seen
<1>2. QED
  BY <1>1 DEF Register!Next

\* A call in progress is shown as one, and is only taken where it is.
LEMMA SeenCalls ==
  ASSUME NEW q \in FlagRequest
  PROVE  /\ Seen(q) # None /\ q # None
         /\ Seen(q).key = q.key /\ Seen(q).want = q.want
         /\ Seen(q).done <=> q.pc = "answer" \/ TakesEffectAtLoad(q)
<1>1. q # None /\ q.key \in FlagKeys /\ q.want \in BOOLEAN
  BY NoneAssumption DEF FlagRequest
<1>2. (q.pc = "answer" \/ TakesEffectAtLoad(q)) \in BOOLEAN
  BY DEF TakesEffectAtLoad
<1>3. Seen(q) \in [key: FlagKeys, want: BOOLEAN, done: BOOLEAN]
  BY <1>1, <1>2 DEF Seen
<1>4. QED
  BY <1>1, <1>3, NoneAssumption DEF Seen

\* Taking the call of q: it is shown as before but for `done`.
LEMMA SeenTaken ==
  ASSUME NEW p \in FlagRequest, NEW q \in FlagRequest, q.key = p.key, q.want = p.want,
         ~(p.pc = "answer" \/ TakesEffectAtLoad(p)), q.pc = "answer" \/ TakesEffectAtLoad(q)
  PROVE  Seen(q) = [Seen(p) EXCEPT !.done = TRUE]
<1>1. p # None /\ q # None
  BY SeenCalls
<1>2. Seen(p) = [key |-> p.key, want |-> p.want, done |-> FALSE]
  BY <1>1 DEF Seen
<1>3. Seen(q) = [key |-> p.key, want |-> p.want, done |-> TRUE]
  BY <1>1 DEF Seen
<1>4. [[key |-> p.key, want |-> p.want, done |-> FALSE] EXCEPT !.done = TRUE]
        = [key |-> p.key, want |-> p.want, done |-> TRUE]
  <2>1. \A before, after :
          [[key |-> p.key, want |-> p.want, done |-> before] EXCEPT !.done = after]
            = [key |-> p.key, want |-> p.want, done |-> after]
    BY SMT
  <2>2. QED
    BY <2>1, Zenon
<1>5. QED
  BY <1>2, <1>3, <1>4, Zenon

LEMMA RegisterStutters ==
  ASSUME NEW t \in FlagSlots, CInv, NEW q, flagReq' = [flagReq EXCEPT ![t] = q],
         Seen(q) = Seen(flagReq[t]), RegEnabled' = RegEnabled, outcome' = outcome
  PROVE  UNCHANGED Register!vars
<1>1. RegCall' = RegCall
  BY DEF CInv, TypeOK, RegCall, Seen
<1>2. QED
  BY <1>1 DEF Register!vars, RegEnabled, RegCall, Shown, Seen

\* What a step of one toggle changes of the register.
LEMMA SeenStep ==
  ASSUME CInv, NEW t \in FlagSlots, NEW q, flagReq' = [flagReq EXCEPT ![t] = q]
  PROVE  /\ RegCall[t] = Seen(flagReq[t])
         /\ RegCall' = [RegCall EXCEPT ![t] = Seen(q)]
BY DEF CInv, TypeOK, RegCall, Seen, TakesEffectAtLoad

LEMMA ShownStays ==
  ASSUME UNCHANGED flags PROVE RegEnabled' = RegEnabled
BY DEF RegEnabled, Shown

LEMMA StartRegisters ==
  ASSUME CInv, NEW t \in FlagSlots, NEW key \in FlagKeys, NEW want \in BOOLEAN,
         NEW by \in Admins, StartToggle(t, key, want, by)
  PROVE  Register!Next
<1> DEFINE q == [pc |-> "find", key |-> key, want |-> want, by |-> by, base |-> None]
<1>1. /\ flagReq' = [flagReq EXCEPT ![t] = q] /\ flagReq[t] = None
      /\ outcome' = [outcome EXCEPT ![t] = "none"] /\ UNCHANGED flags
  BY DEF StartToggle
<1>2. Seen(q) = [key |-> key, want |-> want, done |-> FALSE]
  <2>1. q # None /\ ~(q.pc = "answer" \/ TakesEffectAtLoad(q))
    BY NoneAssumption DEF FlagRequest, TakesEffectAtLoad
  <2>2. QED
    BY <2>1 DEF Seen
<1>3. RegCall[t] = None
  BY <1>1, SeenStep DEF Seen
<1>4. RegCall' = [RegCall EXCEPT ![t] = [key |-> key, want |-> want, done |-> FALSE]]
  <2> HIDE DEF q
  <2>1. RegCall' = [RegCall EXCEPT ![t] = Seen(q)]
    BY <1>1, SeenStep
  <2>2. QED
    BY <1>2, <2>1
<1>5. QED
  BY <1>1, <1>3, <1>4, ShownStays, RegisterCalls

LEMMA FindRegisters ==
  ASSUME CInv, NEW t \in FlagSlots, FlagFind(t) PROVE UNCHANGED Register!vars
<1> DEFINE q == [flagReq[t] EXCEPT !.pc = "load"]
<1>1. /\ flagReq[t] \in FlagRequest /\ flagReq[t] # None /\ flagReq[t].pc = "find"
      /\ flagReq' = [flagReq EXCEPT ![t] = q] /\ UNCHANGED <<flags, outcome>>
  BY DEF FlagFind, CInv, TypeOK
<1>2. q \in FlagRequest /\ q.pc = "load" /\ q.key = flagReq[t].key /\ q.want = flagReq[t].want
  BY <1>1 DEF FlagRequest
<1>3. ~TakesEffectAtLoad(q) /\ ~TakesEffectAtLoad(flagReq[t]) /\ q # None
  BY <1>1, <1>2, NoneAssumption DEF TakesEffectAtLoad
<1> HIDE DEF q
<1>4. Seen(q) = Seen(flagReq[t])
  BY <1>1, <1>2, <1>3 DEF Seen
<1>5. QED
  BY <1>1, <1>4, ShownStays, RegisterStutters

\* The SELECT of save() is where a toggle to the stored value takes effect.
LEMMA LoadRegisters ==
  ASSUME CInv, NEW t \in FlagSlots, FlagLoad(t)
  PROVE  Register!Next \/ UNCHANGED Register!vars
<1> DEFINE q == [flagReq[t] EXCEPT !.pc = "write", !.base = flags[flagReq[t].key]]
<1>1. /\ flagReq[t] \in FlagRequest /\ flagReq[t] # None /\ flagReq[t].pc = "load"
      /\ flagReq' = [flagReq EXCEPT ![t] = q] /\ UNCHANGED <<flags, outcome>>
  BY DEF FlagLoad, CInv, TypeOK
<1>2. flags[flagReq[t].key] \in FlagRow \cup {None} /\ flagReq[t].key \in FlagKeys
  BY <1>1 DEF CInv, TypeOK, FlagRequest
<1>3. /\ q \in FlagRequest /\ q.pc = "write" /\ q.key = flagReq[t].key
      /\ q.want = flagReq[t].want /\ q.base = flags[q.key]
  BY <1>1, <1>2 DEF FlagRequest
<1>4. ~TakesEffectAtLoad(flagReq[t]) /\ q # None
  BY <1>1, <1>3, NoneAssumption DEF TakesEffectAtLoad
<1> HIDE DEF q
<1>5. CASE ~TakesEffectAtLoad(q)
  <2>1. Seen(q) = Seen(flagReq[t])
    BY <1>1, <1>3, <1>4, <1>5 DEF Seen
  <2>2. QED
    BY <1>1, <2>1, ShownStays, RegisterStutters
<1>6. CASE TakesEffectAtLoad(q)
  <2>1. Seen(q) = [Seen(flagReq[t]) EXCEPT !.done = TRUE]
    BY <1>1, <1>3, <1>4, <1>6, SeenTaken
  <2>2. RegCall[t] # None /\ ~RegCall[t].done
    BY <1>1, <1>4, SeenStep, SeenCalls
  <2>3. RegCall' = [RegCall EXCEPT ![t].done = TRUE]
    <3>1. RegCall[t] = Seen(flagReq[t]) /\ RegCall' = [RegCall EXCEPT ![t] = Seen(q)]
      BY <1>1, SeenStep
    <3>2. QED
      BY <2>1, <3>1
  <2>4. RegEnabled[q.key] = q.want
    BY <1>2, <1>3, <1>6 DEF RegEnabled, Shown, TakesEffectAtLoad
  <2>5. RegCall[t].key = q.key /\ RegCall[t].want = q.want
    BY <1>1, <1>3, SeenStep, SeenCalls
  <2>6. RegEnabled' = [RegEnabled EXCEPT ![RegCall[t].key] = RegCall[t].want]
    BY <1>1, <2>4, <2>5, ShownStays DEF RegEnabled
  <2>7. QED
    BY <1>1, <2>2, <2>3, <2>6, RegisterTakes
<1>7. QED
  BY <1>5, <1>6

\* Any other toggle takes effect at its UPDATE or INSERT.
LEMMA WriteRegisters ==
  ASSUME CInv, NEW t \in FlagSlots, FlagWrite(t)
  PROVE  Register!Next \/ UNCHANGED Register!vars
<1> DEFINE p == flagReq[t]
<1>1. p \in FlagRequest /\ p # None /\ p.pc = "write" /\ p.key \in FlagKeys
  BY DEF FlagWrite, CInv, TypeOK, FlagRequest
<1>2. CASE p.base = None /\ flags[p.key] # None
  <2>1. /\ flagReq' = [flagReq EXCEPT ![t] = None] /\ UNCHANGED flags
        /\ outcome' = [outcome EXCEPT ![t] = "failed"]
    BY <1>2 DEF FlagWrite, FinishFlag
  <2>2. RegCall[t] # None
    BY <1>1, <2>1, SeenStep, SeenCalls
  <2>3. RegCall' = [RegCall EXCEPT ![t] = None]
    BY <2>1, SeenStep DEF Seen
  <2>4. QED
    BY <2>1, <2>2, <2>3, ShownStays, RegisterFails
<1>3. CASE ~(p.base = None /\ flags[p.key] # None)
  <2> DEFINE q == [p EXCEPT !.pc = "answer"]
             row == SavedFlag(flags[p.key], p)
  <2>1. /\ row \in FlagRow /\ row # None
        /\ row.enabled = IF p.base # None /\ p.base.enabled = p.want
                         THEN flags[p.key].enabled ELSE p.want
        /\ p.base # None => flags[p.key] # None
    BY <1>1, <1>3, SavedFlagType, NoneAssumption
  <2>2. /\ flagReq' = [flagReq EXCEPT ![t] = q] /\ UNCHANGED outcome
        /\ flags' = [flags EXCEPT ![p.key] = row]
    BY <1>1, <1>3 DEF FlagWrite, CInv, TypeOK
  <2>3. /\ q \in FlagRequest /\ q.pc = "answer" /\ q.key = p.key /\ q.want = p.want
        /\ q # None
    BY <1>1, NoneAssumption DEF FlagRequest
  <2> HIDE DEF q, row
  <2>4. RegEnabled' = [RegEnabled EXCEPT ![p.key] = row.enabled]
    BY <1>1, <2>1, <2>2 DEF CInv, TypeOK, RegEnabled, Shown
  <2>5. CASE TakesEffectAtLoad(p)
    <3>1. row.enabled = RegEnabled[p.key]
      BY <1>1, <2>1, <2>5 DEF TakesEffectAtLoad, RegEnabled, Shown
    <3>2. RegEnabled' = RegEnabled
      BY <2>4, <3>1 DEF RegEnabled
    <3>3. Seen(q) = Seen(p)
      BY <1>1, <2>3, <2>5 DEF Seen
    <3>4. QED
      BY <2>2, <3>2, <3>3, RegisterStutters
  <2>6. CASE ~TakesEffectAtLoad(p)
    <3>1. row.enabled = p.want
      BY <1>1, <2>1, <2>6 DEF TakesEffectAtLoad
    <3>2. /\ RegCall[t] # None /\ ~RegCall[t].done
          /\ RegCall[t].key = p.key /\ RegCall[t].want = p.want
      BY <1>1, <2>2, <2>6, SeenStep, SeenCalls
    <3>3. RegCall' = [RegCall EXCEPT ![t].done = TRUE]
      <4>1. Seen(q) = [Seen(p) EXCEPT !.done = TRUE]
        BY <1>1, <2>3, <2>6, SeenTaken
      <4>2. RegCall[t] = Seen(p) /\ RegCall' = [RegCall EXCEPT ![t] = Seen(q)]
        BY <2>2, SeenStep
      <4>3. QED
        BY <4>1, <4>2
    <3>4. QED
      BY <2>2, <2>4, <3>1, <3>2, <3>3, RegisterTakes
  <2>7. QED
    BY <2>5, <2>6
<1>4. QED
  BY <1>2, <1>3

LEMMA EndRegisters ==
  ASSUME CInv, NEW t \in FlagSlots, FlagAnswer(t) \/ FlagFails(t)
  PROVE  Register!Next
<1>1. /\ flagReq[t] \in FlagRequest
      /\ flagReq' = [flagReq EXCEPT ![t] = None] /\ UNCHANGED flags
  BY DEF FlagAnswer, FlagFails, FinishFlag, CInv, TypeOK
<1>2. /\ RegCall[t] # None
      /\ RegCall[t].done <=> flagReq[t].pc = "answer" \/ TakesEffectAtLoad(flagReq[t])
      /\ RegCall' = [RegCall EXCEPT ![t] = None]
  <2>1. RegCall[t] = Seen(flagReq[t]) /\ RegCall' = [RegCall EXCEPT ![t] = Seen(None)]
    BY <1>1, SeenStep
  <2>2. Seen(None) = None
    BY DEF Seen
  <2>3. QED
    BY <1>1, <2>1, <2>2, SeenCalls
<1>3. CASE FlagAnswer(t)
  <2>1. RegCall[t].done /\ outcome' = [outcome EXCEPT ![t] = "ok"]
    BY <1>2, <1>3 DEF FlagAnswer, FinishFlag
  <2>2. QED
    BY <1>1, <1>2, <2>1, ShownStays, RegisterReturns
<1>4. CASE FlagFails(t)
  <2>1. outcome' = [outcome EXCEPT ![t] = "failed"]
    BY <1>4 DEF FlagFails, FinishFlag
  <2>2. QED
    BY <1>1, <1>2, <2>1, ShownStays, RegisterFails
<1>5. QED
  BY <1>3, <1>4

LEMMA RestartRegisters == ASSUME CInv, Restart PROVE Register!Next
<1>1. \A t \in FlagSlots : Seen(flagReq[t]) = None <=> flagReq[t] = None
  BY SeenCalls DEF CInv, TypeOK, Seen
<1>2. Register!Crash
  <2>1. RegCall' = [t \in FlagSlots |-> None]
    BY DEF Restart, RegCall, Seen
  <2>2. outcome' = [t \in FlagSlots |-> IF RegCall[t] = None THEN outcome[t] ELSE "failed"]
    BY <1>1 DEF Restart, RegCall
  <2>3. RegEnabled' = RegEnabled
    BY ShownStays DEF Restart
  <2>4. QED
    BY <2>1, <2>2, <2>3 DEF Register!Crash, RegEnabled, RegCall, Shown, Seen
<1>3. QED
  BY <1>2 DEF Register!Next

LEMMA RegisterStep ==
  ASSUME CInv, [Next]_vars PROVE [Register!Next]_Register!vars
<1>1. ASSUME UNCHANGED <<flags, flagReq, outcome>> PROVE UNCHANGED Register!vars
  BY <1>1 DEF Register!vars, TakesEffectAtLoad
<1>2. CASE UNCHANGED vars
  BY <1>1, <1>2 DEF vars
<1>3. ASSUME NEW s \in Slots, Find(s) \/ Load(s) \/ Write(s) \/ RequestFails(s)
      PROVE  UNCHANGED Register!vars
  BY <1>1, <1>3 DEF Find, Load, Write, RequestFails
<1>4. ASSUME NEW s \in Slots, NEW patch \in Patches, NEW by \in Admins,
             StartUpdate(s, patch, by)
      PROVE  UNCHANGED Register!vars
  BY <1>1, <1>4 DEF StartUpdate
<1>5. QED
  BY <1>2, <1>3, <1>4, StartRegisters, FindRegisters, LoadRegisters, WriteRegisters,
     EndRegisters, RestartRegisters DEF Next

LEMMA RegisterInit == Init => Register!Init
BY DEF Init, Register!Init

\* The rows of feature_flags and the toggles in flight implement a register
\* that every answered call sets once, between its call and its answer
\* (config.service.ts:58-68).
THEOREM FlagsImplementRegister == Spec => FlagsAreARegister
BY RegisterInit, RegisterStep, CInvHolds, PTL DEF Spec, FlagsAreARegister, Register!Spec
=============================================================================
