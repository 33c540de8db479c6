---------------------------- MODULE RecordsProofs ---------------------------
(***************************************************************************)
(* Proofs about what the portal records: a project's budget                *)
(* (TenantResources), an administrator's policy (CooldepsSettings), the    *)
(* ledger of activity and its badges (Activity), the audiences of the      *)
(* clients (ClientAudiences), and a project's capabilities with their      *)
(* credentials (Capabilities).  For any knobs and rules between them, any  *)
(* settings, credentials, residents and projects, and any number of        *)
(* requests at once.                                                       *)
(***************************************************************************)
EXTENDS Capabilities, TenantResources, CooldepsSettings, Activity, ClientAudiences,
        FiniteSetTheorems, TLAPS

-----------------------------------------------------------------------------
(* A project's budget (TenantResources): no budget breaks the rules while  *)
(* the defaults only rise, a request that had the project to itself leaves *)
(* the limits exactly as the row and the defaults ask, and what is said of *)
(* a volume is true.                                                       *)

\* A budget of the project is never below the default, and with valid defaults the sum
\* of both is in order: what the rules see of an override can only be raised.
LEMMA EffectiveIsConfig ==
  ASSUME NEW o \in Overrides, NEW d \in Config
  PROVE  Effective(o, d) \in Config
  BY TenantResourcesAssumption DEF Effective, Overrides, Config, Quantity

LEMMA NothingOverridden ==
  ASSUME NEW d \in Config
  PROVE  Effective(NoOverrides, d) = d
  BY TenantResourcesAssumption DEF Effective, NoOverrides, Config

\* The defaults rise to others that are valid: a valid budget stays so.
LEMMA RaisedStaysValid ==
  ASSUME NEW o \in Overrides, NEW d \in Config, NEW e \in Config,
         \A k \in Knobs : e[k] >= d[k], Valid(e), Valid(Effective(o, d))
  PROVE  Valid(Effective(o, e))
<1> DEFINE old == Effective(o, d)
           new == Effective(o, e)
<1>1. \A k \in Knobs : old[k] \in Nat /\ new[k] \in Nat /\ d[k] \in Nat /\ e[k] \in Nat
  BY EffectiveIsConfig DEF Config, Quantity
<1>2. ASSUME NEW k \in Knobs
      PROVE  /\ new[k] >= e[k] /\ new[k] >= old[k]
             /\ new[k] = e[k] \/ new[k] = old[k]
  <2>1. CASE k \in Overridable /\ o[k] # Inherit
    <3>1. o[k] \in Nat
      BY <2>1 DEF Overrides, Quantity
    <3>2. /\ new[k] = IF o[k] >= e[k] THEN o[k] ELSE e[k]
          /\ old[k] = IF o[k] >= d[k] THEN o[k] ELSE d[k]
      BY <2>1 DEF Effective
    <3> QED BY <1>1, <3>1, <3>2
  <2>2. CASE ~(k \in Overridable /\ o[k] # Inherit)
    <3>1. new[k] = e[k] /\ old[k] = d[k]
      BY <2>2 DEF Effective
    <3> QED BY <1>1, <3>1
  <2> QED BY <2>1, <2>2
<1>3. ASSUME NEW p \in Rules
      PROVE  new[p[1]] <= new[p[2]]
  <2>1. p[1] \in Knobs /\ p[2] \in Knobs
    BY TenantResourcesAssumption
  <2>2. e[p[1]] <= e[p[2]] /\ old[p[1]] <= old[p[2]]
    BY DEF Valid
  <2>3. /\ new[p[1]] = e[p[1]] \/ new[p[1]] = old[p[1]]
        /\ new[p[2]] >= e[p[2]] /\ new[p[2]] >= old[p[2]]
    BY <1>2, <2>1
  <2> QED BY <1>1, <2>1, <2>2, <2>3
<1>4. new[DefaultStorage] <= MaxPvcSize
  <2>1. new[DefaultStorage] = e[DefaultStorage]
    BY TenantResourcesAssumption DEF Effective
  <2> QED BY <2>1 DEF Valid
<1> QED BY <1>3, <1>4 DEF Valid

-----------------------------------------------------------------------------
(* What the parts of a request keep of its type.                           *)

LEMMA TypeOfIdle == Idle \in Req
  BY TenantResourcesAssumption DEF Idle, Req, Overrides, NoOverrides, Volumes

LEMMA TypeOfBegin ==
  ASSUME TypeOK, NEW r \in Requests, NEW rec \in Req, Begin(r, rec)
  PROVE  req' \in [Requests -> Req] /\ submits' \in 0..MaxSubmits /\ failures' \in 0..MaxFailures
<1>1. [rec EXCEPT !.ok = TRUE, !.alone = \A p \in Requests : ~Active(p)] \in Req
  BY DEF Req
<1>2. \A q \in Requests : [req[q] EXCEPT !.alone = FALSE] \in Req
  BY DEF TypeOK, Req
<1>3. req' \in [Requests -> Req]
  BY <1>1, <1>2, TypeOfIdle DEF Begin
<1>4. submits' \in 0..MaxSubmits
  <2>1. submits \in 0..MaxSubmits /\ submits < MaxSubmits /\ submits' = submits + 1
    BY DEF Begin, TypeOK
  <2> QED BY <2>1, TenantResourcesAssumption
<1> QED BY <1>3, <1>4 DEF Begin, TypeOK

Stages == {"idle", "store", "render", "loaded", "row", "namespace", "quota", "limits",
           "volume", "grow", "done"}

LEMMA TypeOfGo ==
  ASSUME TypeOK, NEW r \in Requests, NEW pc \in Stages, Go(r, pc)
  PROVE  req' \in [Requests -> Req]
  BY DEF TypeOK, Go, Req, Stages

LEMMA TypeOfLive ==
  ASSUME TypeOK, NEW r \in Requests, NEW part
  PROVE  Applied(r, part) \in [Enforced -> Quantity \cup {Inherit}]
<1>1. req[r].config \in Config
  BY DEF TypeOK, Req
<1>2. \A k \in Enforced : req[r].config[k] \in Quantity
  BY <1>1, TenantResourcesAssumption DEF Config, Enforced
<1> QED BY <1>2 DEF Applied, TypeOK

-----------------------------------------------------------------------------
(* Soundness: the types, and that what is saved, remembered or about to be *)
(* either is in order, as is the size that a volume is to grow to.         *)

SoundRequest(q) ==
  /\ q.pc \in {"store", "row", "loaded"} => Valid(q.config)
  /\ q.size # Inherit => q.size \in 1..MaxPvcSize
  /\ q.pc \in {"volume", "grow"} => q.size # Inherit
Sound ==
  /\ TypeOK /\ Valid(saved) /\ Valid(cached)
  /\ \A r \in Requests : SoundRequest(req[r])

LEMMA IdleIsSound == SoundRequest(Idle)
  BY TenantResourcesAssumption DEF SoundRequest, Idle

LEMMA SoundBegin ==
  ASSUME Sound, NEW r \in Requests, NEW rec \in Req, Begin(r, rec), SoundRequest(rec)
  PROVE  \A q \in Requests : SoundRequest(req'[q])
<1>1. SoundRequest([rec EXCEPT !.ok = TRUE, !.alone = \A p \in Requests : ~Active(p)])
  BY DEF SoundRequest, Req
<1>2. \A q \in Requests : SoundRequest([req[q] EXCEPT !.alone = FALSE])
  BY DEF Sound, SoundRequest, TypeOK, Req
<1> QED BY <1>1, <1>2, IdleIsSound DEF Begin

LEMMA SoundGo ==
  ASSUME Sound, NEW r \in Requests, NEW pc \in Stages, Go(r, pc),
         pc \in {"store", "row", "loaded"} => Valid(req[r].config),
         pc \in {"volume", "grow"} => req[r].size # Inherit
  PROVE  \A q \in Requests : SoundRequest(req'[q])
<1>1. SoundRequest([req[r] EXCEPT !.pc = pc])
  BY DEF Sound, SoundRequest, TypeOK, Req
<1>2. req' = [req EXCEPT ![r] = [req[r] EXCEPT !.pc = pc]]
  BY DEF Go
<1> QED BY <1>1, <1>2 DEF Sound, TypeOK

LEMMA SoundReported ==
  ASSUME Sound, NEW r \in Requests, NEW large \in SUBSET Volumes, Reported(r, large),
         req[r].size # Inherit
  PROVE  req' \in [Requests -> Req] /\ \A q \in Requests : SoundRequest(req'[q])
<1> DEFINE pc == IF req[r].vol = "postgres" THEN "volume" ELSE "done"
           rec == [req[r] EXCEPT !.pc = pc, !.vol = "garage", !.told = req[r].told \cup large]
<1>1. req[r] \in Req /\ SoundRequest(req[r]) /\ req \in [Requests -> Req]
  BY DEF Sound, TypeOK
<1>2. rec \in Req /\ SoundRequest(rec)
  BY <1>1 DEF Req, SoundRequest, Volumes
<1>3. req' = [req EXCEPT ![r] = rec]
  BY DEF Reported
<1> QED BY <1>1, <1>2, <1>3 DEF Sound

LEMMA InitSound == ASSUME ResourcesInit PROVE Sound
<1>1. TypeOK
  <2>1. NoOverrides \in Overrides
    BY DEF Overrides, NoOverrides
  <2>2. live \in [Enforced -> Quantity \cup {Inherit}]
    BY DEF ResourcesInit
  <2>3. submits \in 0..MaxSubmits /\ failures \in 0..MaxFailures
    BY TenantResourcesAssumption DEF ResourcesInit
  <2> QED BY <2>1, <2>2, <2>3, TenantResourcesAssumption, TypeOfIdle DEF ResourcesInit, TypeOK
<1> QED BY <1>1, TenantResourcesAssumption, IdleIsSound DEF ResourcesInit, Sound

\* Requests that begin, all alike: a record of the right type that is sound.
LEMMA BeginsSound ==
  ASSUME Sound, NEW r \in Requests, NEW rec \in Req, Begin(r, rec), SoundRequest(rec),
         UNCHANGED <<saved, cached, overrides, namespace, live, volume, lowered>>
  PROVE  Sound'
  BY TypeOfBegin, SoundBegin DEF Sound, TypeOK, Valid

LEMMA SoundRequests ==
  ASSUME Sound, NEW r \in Requests,
         Load(r) \/ SaveDefaults(r) \/ Save(r) \/ Clear(r) \/ ApplyAll(r) \/ Baseline(r)
  PROVE  Sound'
<1> USE TypeOfIdle, IdleIsSound
<1>t. /\ cached \in Config /\ overrides \in Overrides
      /\ NoOverrides \in Overrides /\ Valid(Chart) /\ Chart \in Config
  BY TenantResourcesAssumption DEF Sound, TypeOK, Overrides, NoOverrides
<1>1. CASE Load(r)
  <2> DEFINE rec == [Idle EXCEPT !.kind = "load", !.pc = "render"]
  <2>1. rec \in Req /\ SoundRequest(rec)
    BY DEF Req, SoundRequest, Idle
  <2> QED BY <1>1, <2>1, BeginsSound DEF Load
<1>2. CASE SaveDefaults(r)
  <2>1. PICK d \in DefaultForms : Valid(d) /\
          Begin(r, [Idle EXCEPT !.kind = "defaults", !.pc = "store", !.config = d])
    BY <1>2 DEF SaveDefaults
  <2> DEFINE rec == [Idle EXCEPT !.kind = "defaults", !.pc = "store", !.config = d]
  <2>2. d \in Config
    BY TenantResourcesAssumption
  <2>3. rec \in Req /\ SoundRequest(rec)
    BY <2>1, <2>2 DEF Req, SoundRequest, Idle
  <2> QED BY <1>2, <2>1, <2>3, BeginsSound DEF SaveDefaults
<1>3. CASE Save(r)
  <2>1. PICK form \in OverrideForms, size \in Sizes \cup {Inherit} :
          /\ size # Inherit => size >= cached[DefaultStorage] /\ size <= MaxPvcSize
          /\ Begin(r, [Idle EXCEPT !.kind = "save", !.pc = "store", !.row = Kept(form),
                                   !.size = size])
    BY <1>3 DEF Save
  <2> DEFINE rec == [Idle EXCEPT !.kind = "save", !.pc = "store", !.row = Kept(form),
                                 !.size = size]
  <2>2. Kept(form) \in Overrides
    BY TenantResourcesAssumption DEF Kept, Overrides
  <2>3. size # Inherit => size \in 1..MaxPvcSize
    BY <2>1, TenantResourcesAssumption DEF Quantity
  <2>4. rec \in Req /\ SoundRequest(rec)
    BY <1>t, <2>2, <2>3 DEF Req, SoundRequest, Idle
  <2> QED BY <1>3, <2>1, <2>4, BeginsSound DEF Save
<1>4. CASE Clear(r)
  <2> DEFINE rec == [Idle EXCEPT !.kind = "clear", !.pc = "store"]
  <2>1. rec \in Req /\ SoundRequest(rec)
    BY <1>t DEF Req, SoundRequest, Idle
  <2> QED BY <1>4, <2>1, BeginsSound DEF Clear
<1>5. CASE ApplyAll(r)
  <2> DEFINE rec == [Idle EXCEPT !.kind = "all", !.pc = "row", !.row = overrides]
  <2>1. rec \in Req /\ SoundRequest(rec)
    BY <1>t DEF Req, SoundRequest, Idle
  <2> QED BY <1>5, <2>1, BeginsSound DEF ApplyAll
<1>6. CASE Baseline(r)
  <2>1. PICK o \in {overrides, NoOverrides} : Begin(r, [Idle EXCEPT
          !.kind = "baseline", !.pc = "namespace", !.config = Effective(o, cached)])
    BY <1>6 DEF Baseline
  <2> DEFINE rec == [Idle EXCEPT !.kind = "baseline", !.pc = "namespace",
                                 !.config = Effective(o, cached)]
  <2>2. Effective(o, cached) \in Config
    BY <1>t, EffectiveIsConfig
  <2>3. rec \in Req /\ SoundRequest(rec)
    BY <2>2 DEF Req, SoundRequest, Idle
  <2> QED BY <1>6, <2>1, <2>3, BeginsSound DEF Baseline
<1> QED BY <1>1, <1>2, <1>3, <1>4, <1>5, <1>6

\* One step of a request that was begun.
LEMMA SoundWork ==
  ASSUME Sound, NEW r \in Requests, Step(r)
  PROVE  Sound'
<1> DEFINE Rest == submits' = submits /\ failures' = failures
<1>t. /\ TypeOK /\ SoundRequest(req[r]) /\ req[r] \in Req
      /\ req[r].config \in Config /\ req[r].row \in Overrides
  BY DEF Sound, TypeOK, Req
<1>g. ASSUME NEW pc \in Stages, Go(r, pc),
             pc \in {"store", "row", "loaded"} => Valid(req[r].config),
             pc \in {"volume", "grow"} => req[r].size # Inherit
      PROVE  req' \in [Requests -> Req] /\ \A q \in Requests : SoundRequest(req'[q])
  BY <1>t, <1>g, TypeOfGo, SoundGo
<1>1. CASE ReadDefaults(r)
  <2>1. saved \in Config /\ Valid(saved)
    BY DEF Sound, TypeOK
  <2> DEFINE rec == [req[r] EXCEPT !.pc = "loaded", !.config = saved]
  <2>2. rec \in Req /\ SoundRequest(rec)
    BY <1>t, <2>1 DEF Req, SoundRequest
  <2>3. req' = [req EXCEPT ![r] = rec]
    BY <1>1 DEF ReadDefaults
  <2>4. req' \in [Requests -> Req] /\ \A q \in Requests : SoundRequest(req'[q])
    BY <2>2, <2>3 DEF Sound, TypeOK
  <2> QED BY <1>1, <2>4 DEF ReadDefaults, Stays, Sound, TypeOK, Valid
<1>2. CASE Loaded(r)
  <2>1. req' \in [Requests -> Req] /\ \A q \in Requests : SoundRequest(req'[q])
    BY <1>2, <1>g DEF Loaded, Stages
  <2>2. cached' \in Config /\ Valid(cached') /\ lowered' \in BOOLEAN
    BY <1>2, <1>t DEF Loaded, Remember, SoundRequest, TypeOK
  <2> QED BY <1>2, <2>1, <2>2 DEF Loaded, Stays, Sound, TypeOK, Valid
<1>3. CASE StoreDefaults(r)
  <2>1. req' \in [Requests -> Req] /\ \A q \in Requests : SoundRequest(req'[q])
    BY <1>3, <1>t, <1>g DEF StoreDefaults, SoundRequest, Stages
  <2>2. saved' \in Config /\ Valid(saved')
    BY <1>3, <1>t DEF StoreDefaults, SoundRequest
  <2> QED BY <1>3, <2>1, <2>2 DEF StoreDefaults, Stays, Sound, TypeOK, Valid
<1>4. CASE CacheDefaults(r)
  <2>1. req' \in [Requests -> Req] /\ \A q \in Requests : SoundRequest(req'[q])
    BY <1>4, <1>g DEF CacheDefaults, Stages
  <2>2. cached' \in Config /\ Valid(cached') /\ lowered' \in BOOLEAN
    BY <1>4, <1>t DEF CacheDefaults, Remember, SoundRequest, TypeOK
  <2> QED BY <1>4, <2>1, <2>2 DEF CacheDefaults, Stays, Sound, TypeOK, Valid
<1>e. Effective(req[r].row, cached) \in Config
  BY <1>t, EffectiveIsConfig DEF TypeOK
<1>q. ASSUME req' = [req EXCEPT ![r].pc = "quota", ![r].config = Effective(req[r].row, cached)]
      PROVE  req' \in [Requests -> Req] /\ \A q \in Requests : SoundRequest(req'[q])
  <2> DEFINE rec == [req[r] EXCEPT !.pc = "quota", !.config = Effective(req[r].row, cached)]
  <2>1. rec \in Req /\ SoundRequest(rec)
    BY <1>t, <1>e DEF Req, SoundRequest
  <2>2. req' = [req EXCEPT ![r] = rec]
    BY <1>q
  <2> QED BY <2>1, <2>2 DEF Sound, TypeOK
<1>5. CASE StoreRow(r)
  BY <1>5, <1>q, <1>t DEF StoreRow, Stays, Sound, TypeOK, Valid
<1>6. CASE ItsTurn(r)
  BY <1>6, <1>q DEF ItsTurn, Stays, Sound, TypeOK, Valid
<1>7. CASE CreateNamespace(r)
  <2>1. req' \in [Requests -> Req] /\ \A q \in Requests : SoundRequest(req'[q])
    BY <1>7, <1>g DEF CreateNamespace, Stages
  <2> QED BY <1>7, <2>1 DEF CreateNamespace, Stays, Sound, TypeOK, Valid
<1>8. CASE Quota(r)
  <2>1. req' \in [Requests -> Req] /\ \A q \in Requests : SoundRequest(req'[q])
    BY <1>8, <1>g DEF Quota, Stages
  <2>2. live' \in [Enforced -> Quantity \cup {Inherit}]
    BY <1>8, <1>t, TypeOfLive DEF Quota
  <2> QED BY <1>8, <2>1, <2>2 DEF Quota, Stays, Sound, TypeOK, Valid
<1>9. CASE Limits(r)
  <2>1. /\ AfterLimits(r) \in {"done", "volume"}
        /\ AfterLimits(r) = "volume" => req[r].size # Inherit
    BY DEF AfterLimits
  <2>2. req' \in [Requests -> Req] /\ \A q \in Requests : SoundRequest(req'[q])
    BY <1>9, <1>g, <2>1 DEF Limits, Stages
  <2>3. live' \in [Enforced -> Quantity \cup {Inherit}]
    BY <1>9, <1>t, TypeOfLive DEF Limits
  <2> QED BY <1>9, <2>2, <2>3 DEF Limits, Stays, Sound, TypeOK, Valid
<1>10. CASE ReadVolume(r)
  <2>1. req[r].vol \in Volumes /\ req[r].size # Inherit
    BY <1>10, <1>t DEF ReadVolume, SoundRequest, Req
  <2>2. PICK large \in SUBSET Volumes : Reported(r, large) \/ Go(r, "grow")
    BY <1>10, <2>1 DEF ReadVolume
  <2>3. req' \in [Requests -> Req] /\ \A q \in Requests : SoundRequest(req'[q])
    BY <1>g, <2>1, <2>2, SoundReported DEF Stages
  <2> QED BY <1>10, <2>3 DEF ReadVolume, Stays, Sound, TypeOK, Valid
<1>11. CASE Grow(r)
  <2>1. req[r].vol \in Volumes /\ req[r].size \in 1..MaxPvcSize /\ req[r].size # Inherit
    BY <1>11, <1>t DEF Grow, SoundRequest, Req
  <2>2. PICK large \in SUBSET Volumes : Reported(r, large)
    BY <1>11, <2>1 DEF Grow
  <2>3. req' \in [Requests -> Req] /\ \A q \in Requests : SoundRequest(req'[q])
    BY <2>1, <2>2, SoundReported
  <2>4. volume' \in [Volumes -> 1..MaxPvcSize \cup {Inherit}]
    BY <1>11, <1>t, <2>1 DEF Grow, TypeOK
  <2> QED BY <1>11, <2>3, <2>4 DEF Grow, Stays, Sound, TypeOK, Valid
<1>12. CASE Fail(r)
  <2> DEFINE rec == [req[r] EXCEPT !.pc = "done", !.ok = FALSE]
  <2>1. rec \in Req /\ SoundRequest(rec)
    BY <1>t DEF Req, SoundRequest
  <2>2. req' = [req EXCEPT ![r] = rec]
    BY <1>12 DEF Fail
  <2>3. failures' \in 0..MaxFailures
    <3>1. failures \in 0..MaxFailures /\ MaxFailures \in Nat
      BY <1>t, TenantResourcesAssumption DEF TypeOK
    <3>2. failures' = failures \/ (failures < MaxFailures /\ failures' = failures + 1)
      BY <1>12 DEF Fail
    <3> QED BY <3>1, <3>2
  <2> QED BY <1>12, <2>1, <2>2, <2>3 DEF Fail, Sound, TypeOK, Valid
<1> QED BY <1>1, <1>2, <1>3, <1>4, <1>5, <1>6, <1>7, <1>8, <1>9, <1>10, <1>11, <1>12 DEF Step

LEMMA SoundNext == ASSUME Sound, [ResourcesNext]_resourceVars PROVE Sound'
<1>t. /\ TypeOK /\ Valid(saved) /\ Valid(cached) /\ Valid(Chart) /\ Chart \in Config
  BY TenantResourcesAssumption DEF Sound
<1>1. ASSUME NEW r \in Requests,
             Load(r) \/ SaveDefaults(r) \/ Save(r) \/ Clear(r) \/ ApplyAll(r) \/ Baseline(r)
      PROVE  Sound'
  BY <1>1, SoundRequests
<1>2. ASSUME NEW r \in Requests, Step(r) PROVE Sound'
  BY <1>2, SoundWork
<1>3. ASSUME NEW v \in Volumes, MakeVolume(v) PROVE Sound'
  <2>1. cached[DefaultStorage] \in 1..MaxPvcSize
    BY <1>t, TenantResourcesAssumption DEF TypeOK, Valid, Config, Quantity
  <2>2. volume' \in [Volumes -> 1..MaxPvcSize \cup {Inherit}]
    BY <1>3, <1>t, <2>1 DEF MakeVolume, TypeOK
  <2> QED BY <1>3, <2>2 DEF MakeVolume, Stays, Sound, TypeOK, Valid
<1>6. ASSUME NEW v \in Volumes, DestroyVolume(v) PROVE Sound'
  <2>1. volume' \in [Volumes -> 1..MaxPvcSize \cup {Inherit}]
    BY <1>6, <1>t DEF DestroyVolume, TypeOK
  <2>2. ASSUME NEW r \in Requests PROVE req'[r] \in Req /\ SoundRequest(req'[r])
    <3>1. req[r] \in Req /\ SoundRequest(req[r])
      BY DEF Sound, TypeOK
    <3>2. req'[r] = [req[r] EXCEPT !.told = req[r].told \ {v}]
      BY <1>6 DEF DestroyVolume
    <3> QED BY <3>1, <3>2 DEF Req, SoundRequest
  <2>3. req' \in [Requests -> Req]
    BY <1>6, <2>2 DEF DestroyVolume
  <2> QED BY <1>6, <2>1, <2>2, <2>3 DEF DestroyVolume, Stays, Sound, TypeOK, Valid
<1>4. CASE Restart
  <2>1. failures' \in 0..MaxFailures
    <3>1. failures \in 0..MaxFailures /\ MaxFailures \in Nat
      BY <1>t, TenantResourcesAssumption DEF TypeOK
    <3> QED BY <1>4, <3>1 DEF Restart
  <2>2. cached' \in Config /\ Valid(cached') /\ lowered' \in BOOLEAN
    BY <1>4, <1>t DEF Restart, Remember, TypeOK
  <2> QED BY <1>4, <2>1, <2>2, TypeOfIdle, IdleIsSound DEF Restart, Sound, TypeOK, Valid
<1>5. CASE UNCHANGED resourceVars
  BY <1>5 DEF resourceVars, Sound, TypeOK, Valid
<1> QED BY <1>1, <1>2, <1>3, <1>4, <1>5, <1>6 DEF ResourcesNext

\* The variables of the model keep their types, and no defaults that break the rules are
\* ever saved or remembered.
THEOREM AlwaysSound == ResourcesSpec => []Sound
<1> QED BY InitSound, SoundNext, PTL DEF ResourcesSpec

-----------------------------------------------------------------------------
(* Budgets.                                                                *)

Pending(q) == q.kind \in {"save", "clear"} /\ q.pc = "store"
Budget == Sound /\ BudgetConsistent

\* Neither the defaults nor the row change, and whoever is about to store a row was
\* already, or has one that is in order.
LEMMA BudgetKept ==
  ASSUME Budget, UNCHANGED <<cached, overrides, lowered>>,
         \A q \in Requests : Pending(req'[q]) =>
           \/ Pending(req[q]) /\ req'[q].row = req[q].row
           \/ Valid(Effective(req'[q].row, cached))
  PROVE  BudgetConsistent'
<1>1. ASSUME ~lowered
      PROVE  Valid(Effective(overrides, cached))
  BY <1>1 DEF Budget, BudgetConsistent
<1>2. ASSUME ~lowered, NEW q \in Requests, Pending(req'[q])
      PROVE  Valid(Effective(req'[q].row, cached))
  BY <1>2 DEF Budget, BudgetConsistent, Pending
<1> QED BY <1>1, <1>2 DEF BudgetConsistent, Pending

\* The process comes to remember other defaults.
LEMMA BudgetRaised ==
  ASSUME Budget, NEW d \in Config, Valid(d), Remember(d), UNCHANGED overrides,
         \A q \in Requests : Pending(req'[q]) => Pending(req[q]) /\ req'[q].row = req[q].row
  PROVE  BudgetConsistent'
<1>1. ASSUME ~lowered'
      PROVE  ~lowered /\ \A k \in Knobs : d[k] >= cached[k]
  <2>1. ~lowered /\ \A k \in Knobs : ~(d[k] < cached[k])
    BY <1>1, Zenon DEF Remember
  <2>2. cached \in Config
    BY DEF Budget, Sound, TypeOK
  <2> QED BY <2>1, <2>2 DEF Config, Quantity
<1>2. /\ cached \in Config /\ Valid(cached) /\ overrides \in Overrides
      /\ \A q \in Requests : req[q].row \in Overrides
  BY DEF Budget, Sound, TypeOK, Req
<1>3. ASSUME ~lowered'
      PROVE  Valid(Effective(overrides, d))
  <2>1. Valid(Effective(overrides, cached))
    BY <1>1, <1>3 DEF Budget, BudgetConsistent
  <2> QED BY <1>1, <1>2, <1>3, <2>1, RaisedStaysValid
<1>4. ASSUME ~lowered', NEW q \in Requests, Pending(req'[q])
      PROVE  Valid(Effective(req'[q].row, d))
  <2>1. Pending(req[q]) /\ req'[q].row = req[q].row
    BY <1>4
  <2>2. Valid(Effective(req[q].row, cached))
    BY <1>1, <1>4, <2>1 DEF Budget, BudgetConsistent, Pending
  <2> QED BY <1>1, <1>2, <1>4, <2>1, <2>2, RaisedStaysValid
<1> QED BY <1>3, <1>4 DEF BudgetConsistent, Pending, Remember

LEMMA BudgetBegins ==
  ASSUME Budget, NEW r \in Requests, NEW rec \in Req, Begin(r, rec),
         UNCHANGED <<cached, overrides, lowered>>,
         Pending(rec) => Valid(Effective(rec.row, cached))
  PROVE  BudgetConsistent'
<1>1. ASSUME NEW q \in Requests, Pending(req'[q])
      PROVE  \/ Pending(req[q]) /\ req'[q].row = req[q].row
             \/ Valid(Effective(req'[q].row, cached))
  <2>1. CASE q = r
    BY <1>1, <2>1 DEF Begin, Pending, Req
  <2>2. CASE q # r /\ Active(q)
    BY <1>1, <2>2 DEF Begin, Pending, Budget, Sound, TypeOK, Req
  <2>3. CASE q # r /\ ~Active(q)
    BY <1>1, <2>3 DEF Begin, Pending, Idle
  <2> QED BY <2>1, <2>2, <2>3
<1> QED BY <1>1, BudgetKept

LEMMA BudgetNext == ASSUME Budget, [ResourcesNext]_resourceVars PROVE BudgetConsistent'
<1>t. /\ TypeOK /\ Valid(cached) /\ Valid(saved) /\ cached \in Config /\ saved \in Config
      /\ NoOverrides \in Overrides /\ Chart \in Config /\ Valid(Chart)
      /\ \A q \in Requests : req[q] \in Req /\ SoundRequest(req[q])
  BY TenantResourcesAssumption DEF Budget, Sound, TypeOK, Overrides, NoOverrides
<1>1. ASSUME NEW r \in Requests,
             Load(r) \/ SaveDefaults(r) \/ Save(r) \/ Clear(r) \/ ApplyAll(r) \/ Baseline(r)
      PROVE  BudgetConsistent'
  <2> USE TypeOfIdle
  <2>1. CASE Load(r)
    <3> DEFINE rec == [Idle EXCEPT !.kind = "load", !.pc = "render"]
    <3>1. rec \in Req /\ ~Pending(rec)
      BY DEF Req, Pending, Idle
    <3> QED BY <2>1, <3>1, BudgetBegins DEF Load
  <2>2. CASE SaveDefaults(r)
    <3>1. PICK d \in DefaultForms :
            Begin(r, [Idle EXCEPT !.kind = "defaults", !.pc = "store", !.config = d])
      BY <2>2 DEF SaveDefaults
    <3> DEFINE rec == [Idle EXCEPT !.kind = "defaults", !.pc = "store", !.config = d]
    <3>2. rec \in Req /\ ~Pending(rec)
      BY TenantResourcesAssumption DEF Req, Pending, Idle
    <3> QED BY <2>2, <3>1, <3>2, BudgetBegins DEF SaveDefaults
  <2>3. CASE Save(r)
    <3>1. PICK form \in OverrideForms, size \in Sizes \cup {Inherit} :
            /\ Checks(form)
            /\ Begin(r, [Idle EXCEPT !.kind = "save", !.pc = "store", !.row = Kept(form),
                                     !.size = size])
      BY <2>3 DEF Save
    <3> DEFINE rec == [Idle EXCEPT !.kind = "save", !.pc = "store", !.row = Kept(form),
                                   !.size = size]
    <3>2. Kept(form) \in Overrides
      BY TenantResourcesAssumption DEF Kept, Overrides
    <3>3. rec \in Req /\ rec.row = Kept(form)
      BY <3>2 DEF Req, Idle
    <3>4. Valid(Effective(rec.row, cached))
      BY <3>1, <3>3 DEF Checks, Accepted
    <3> QED BY <2>3, <3>1, <3>3, <3>4, BudgetBegins DEF Save
  <2>4. CASE Clear(r)
    <3> DEFINE rec == [Idle EXCEPT !.kind = "clear", !.pc = "store"]
    <3>1. rec \in Req /\ rec.row = NoOverrides
      BY <1>t DEF Req, Idle
    <3>2. Valid(Effective(rec.row, cached))
      BY <1>t, <3>1, NothingOverridden
    <3> QED BY <2>4, <3>1, <3>2, BudgetBegins DEF Clear
  <2>5. CASE ApplyAll(r)
    <3> DEFINE rec == [Idle EXCEPT !.kind = "all", !.pc = "row", !.row = overrides]
    <3>1. rec \in Req /\ ~Pending(rec)
      BY <1>t DEF Req, Pending, Idle, TypeOK
    <3> QED BY <2>5, <3>1, BudgetBegins DEF ApplyAll
  <2>6. CASE Baseline(r)
    <3>1. PICK o \in {overrides, NoOverrides} : Begin(r, [Idle EXCEPT
            !.kind = "baseline", !.pc = "namespace", !.config = Effective(o, cached)])
      BY <2>6 DEF Baseline
    <3> DEFINE rec == [Idle EXCEPT !.kind = "baseline", !.pc = "namespace",
                                   !.config = Effective(o, cached)]
    <3>2. Effective(o, cached) \in Config
      BY <1>t, EffectiveIsConfig DEF TypeOK
    <3>3. rec \in Req /\ ~Pending(rec)
      BY <3>2 DEF Req, Pending, Idle
    <3> QED BY <2>6, <3>1, <3>3, BudgetBegins DEF Baseline
  <2> QED BY <1>1, <2>1, <2>2, <2>3, <2>4, <2>5, <2>6
<1>2. ASSUME NEW r \in Requests, Step(r) PROVE BudgetConsistent'
  <2>1. CASE StoreRow(r)
    <3>1. overrides' = req[r].row /\ Pending(req[r])
      BY <2>1 DEF StoreRow, Pending
    <3>2. ~lowered => Valid(Effective(overrides', cached))
      BY <3>1 DEF Budget, BudgetConsistent, Pending
    <3>3. \A q \in Requests : Pending(req'[q]) => Pending(req[q]) /\ req'[q] = req[q]
      BY <2>1, <1>t DEF StoreRow, Pending, TypeOK, Req
    <3> QED BY <2>1, <3>2, <3>3 DEF StoreRow, Budget, BudgetConsistent, Pending
  <2>2. CASE Loaded(r) \/ CacheDefaults(r)
    <3>1. req[r].config \in Config /\ Valid(req[r].config) /\ Remember(req[r].config)
      BY <2>2, <1>t DEF Loaded, CacheDefaults, SoundRequest, Req
    <3>2. \A q \in Requests : Pending(req'[q]) => Pending(req[q]) /\ req'[q].row = req[q].row
      BY <2>2, <1>t DEF Loaded, CacheDefaults, Go, Pending, TypeOK, Req
    <3> QED BY <2>2, <3>1, <3>2, BudgetRaised DEF Loaded, CacheDefaults
  <2>3. CASE ~StoreRow(r) /\ ~Loaded(r) /\ ~CacheDefaults(r)
    <3>1. UNCHANGED <<cached, overrides, lowered>>
      BY <1>2, <2>3 DEF Step, ReadDefaults, StoreDefaults, ItsTurn, CreateNamespace, Quota,
                        Limits, ReadVolume, Grow, Fail
    <3>2. /\ \A q \in Requests \ {r} : req'[q] = req[q]
          /\ req'[r].pc # "store"
      BY <1>2, <2>3, <1>t
         DEF Step, ReadDefaults, StoreDefaults, ItsTurn, CreateNamespace, Quota, Limits,
             AfterLimits, ReadVolume, Grow, Reported, Fail, Go, TypeOK, Req
    <3> QED BY <3>1, <3>2, BudgetKept DEF Pending
  <2> QED BY <2>1, <2>2, <2>3
<1>3. ASSUME NEW v \in Volumes, MakeVolume(v) PROVE BudgetConsistent'
  BY <1>3, BudgetKept DEF MakeVolume, Pending
<1>6. ASSUME NEW v \in Volumes, DestroyVolume(v) PROVE BudgetConsistent'
  <2>1. ASSUME NEW q \in Requests
        PROVE  req'[q].kind = req[q].kind /\ req'[q].pc = req[q].pc /\ req'[q].row = req[q].row
    BY <1>6, <1>t DEF DestroyVolume, Req
  <2> QED BY <1>6, <2>1, BudgetKept DEF DestroyVolume, Pending
<1>4. CASE Restart
  <2>1. PICK d \in {saved, Chart} : Remember(d)
    BY <1>4 DEF Restart
  <2>2. \A q \in Requests : ~Pending(req'[q])
    BY <1>4 DEF Restart, Idle, Pending
  <2> QED BY <1>4, <1>t, <2>1, <2>2, BudgetRaised DEF Restart
<1>5. CASE UNCHANGED resourceVars
  BY <1>5, BudgetKept DEF resourceVars, Pending
<1> QED BY <1>1, <1>2, <1>3, <1>4, <1>5, <1>6 DEF ResourcesNext

\* While the defaults in memory only rise, no project's budget breaks the rules between
\* its fields, nor does one that a request is about to store.
THEOREM BudgetsStayConsistent == ResourcesSpec => []BudgetConsistent
<1>1. ResourcesInit => Budget
  <2> SUFFICES ASSUME ResourcesInit PROVE Budget
    OBVIOUS
  <2>1. Effective(overrides, cached) = Chart /\ Valid(Chart)
    BY TenantResourcesAssumption, NothingOverridden DEF ResourcesInit
  <2> QED BY <2>1, InitSound DEF ResourcesInit, Idle, Budget, BudgetConsistent
<1>2. Budget /\ [ResourcesNext]_resourceVars => Budget'
  BY SoundNext, BudgetNext DEF Budget
<1>3. Budget => BudgetConsistent
  BY DEF Budget
<1> QED BY <1>1, <1>2, <1>3, PTL DEF ResourcesSpec

-----------------------------------------------------------------------------
(* A request that has the project to itself.  What it has done so far, at  *)
(* each of its stages; nobody else is at work, so that it stays done.      *)

Wants == Effective(overrides, cached)
Writes == {"save", "clear", "all"}
Phase(q) ==
  /\ q.kind \in {"save", "clear"} =>
       q.pc \in {"store", "quota", "limits", "volume", "grow", "done"}
  /\ q.kind = "all" => q.pc \in {"row", "quota", "limits", "volume", "grow", "done"}
Stage(q) ==
  /\ q.pc = "row" => q.row = overrides
  /\ q.pc \in {"quota", "limits"} => q.config = Wants
  /\ q.pc = "limits" => \A k \in QuotaKnobs : live[k] = Wants[k]
  /\ q.pc \in {"volume", "grow"} \/ (q.pc = "done" /\ q.ok) =>
       \A k \in Enforced : live[k] = Wants[k]
Solitary(r) ==
  req[r].alone /\ req[r].pc # "idle" =>
    /\ \A p \in Requests \ {r} : ~Active(p)
    /\ req[r].kind \in Writes => Stage(req[r])
Alone == Sound /\ \A r \in Requests : Phase(req[r]) /\ Solitary(r)

LEMMA AloneBegins ==
  ASSUME Alone, NEW r \in Requests, NEW rec \in Req, Begin(r, rec), Phase(rec),
         rec.kind \in Writes => rec.pc = "store" \/ (rec.pc = "row" /\ rec.row = overrides'),
         rec.pc # "idle"
  PROVE  \A q \in Requests : Phase(req'[q]) /\ Solitary(q)'
<1>t. req \in [Requests -> Req]
  BY DEF Alone, Sound, TypeOK
<1>1. ASSUME NEW q \in Requests, q # r
      PROVE  Phase(req'[q]) /\ Solitary(q)'
  <2>1. CASE Active(q)
    <3>1. req'[q] = [req[q] EXCEPT !.alone = FALSE]
      BY <1>1, <2>1 DEF Begin
    <3>2. ~req'[q].alone /\ req'[q].kind = req[q].kind /\ req'[q].pc = req[q].pc
      BY <1>t, <3>1 DEF Req
    <3> QED BY <3>2 DEF Solitary, Phase, Alone
  <2>2. CASE ~Active(q)
    <3>1. req'[q] = Idle
      BY <1>1, <2>2 DEF Begin
    <3> QED BY <3>1 DEF Idle, Solitary, Phase
  <2> QED BY <2>1, <2>2
<1>2. Phase(req'[r]) /\ Solitary(r)'
  <2>1. /\ req'[r] \in Req /\ req'[r].kind = rec.kind /\ req'[r].pc = rec.pc
        /\ req'[r].row = rec.row
        /\ req'[r].alone = \A p \in Requests : ~Active(p)
    BY <1>t DEF Begin, Req
  <2>2. Phase(req'[r])
    BY <2>1 DEF Phase
  <2>3. ASSUME req'[r].alone, NEW p \in Requests \ {r} PROVE ~Active(p)'
    <3>1. ~Active(p)
      BY <2>1, <2>3
    <3>2. req'[p] = Idle
      BY <3>1, <2>3 DEF Begin
    <3> QED BY <3>2 DEF Active, Idle
  <2>4. req'[r].kind \in Writes => Stage(req[r])'
    BY <2>1 DEF Stage
  <2> QED BY <2>2, <2>3, <2>4 DEF Solitary
<1> QED BY <1>1, <1>2

\* A request goes on: nobody else is Solitary then.
LEMMA AloneGoesOn ==
  ASSUME Alone, NEW r \in Requests, Active(r),
         \A q \in Requests \ {r} : req'[q] = req[q],
         req'[r].alone = req[r].alone, req'[r].kind = req[r].kind, Phase(req'[r]),
         req[r].alone /\ req[r].kind \in Writes => Stage(req[r])'
  PROVE  \A q \in Requests : Phase(req'[q]) /\ Solitary(q)'
<1>1. ASSUME NEW q \in Requests \ {r}
      PROVE  Phase(req'[q]) /\ Solitary(q)'
  <2>1. req'[q] = req[q] /\ Phase(req[q])
    BY DEF Alone
  <2>2. ~(req[q].alone /\ req[q].pc # "idle")
    BY DEF Alone, Solitary
  <2> QED BY <2>1, <2>2 DEF Solitary
<1>2. Phase(req'[r]) /\ Solitary(r)'
  <2>1. ASSUME req[r].alone
        PROVE  \A p \in Requests \ {r} : ~Active(p)'
    <3>1. \A p \in Requests \ {r} : ~Active(p)
      BY <2>1 DEF Alone, Solitary, Active
    <3> QED BY <3>1 DEF Active
  <2> QED BY <2>1 DEF Solitary
<1> QED BY <1>1, <1>2

LEMMA AloneRequests ==
  ASSUME Alone, NEW r \in Requests,
         Load(r) \/ SaveDefaults(r) \/ Save(r) \/ Clear(r) \/ ApplyAll(r) \/ Baseline(r)
  PROVE  \A q \in Requests : Phase(req'[q]) /\ Solitary(q)'
<1> USE TypeOfIdle
<1>1. CASE Load(r)
  <2> DEFINE rec == [Idle EXCEPT !.kind = "load", !.pc = "render"]
  <2>1. rec \in Req /\ Phase(rec) /\ rec.kind \notin Writes /\ rec.pc # "idle"
    BY DEF Req, Idle, Phase, Writes
  <2> QED BY <1>1, <2>1, AloneBegins DEF Load
<1>2. CASE SaveDefaults(r)
  <2>1. PICK d \in DefaultForms :
          Begin(r, [Idle EXCEPT !.kind = "defaults", !.pc = "store", !.config = d])
    BY <1>2 DEF SaveDefaults
  <2> DEFINE rec == [Idle EXCEPT !.kind = "defaults", !.pc = "store", !.config = d]
  <2>2. rec \in Req /\ Phase(rec) /\ rec.kind \notin Writes /\ rec.pc # "idle"
    BY TenantResourcesAssumption DEF Req, Idle, Phase, Writes
  <2> QED BY <2>1, <2>2, AloneBegins
<1>3. CASE Save(r)
  <2>1. PICK form \in OverrideForms, size \in Sizes \cup {Inherit} :
          Begin(r, [Idle EXCEPT !.kind = "save", !.pc = "store", !.row = Kept(form),
                                !.size = size])
    BY <1>3 DEF Save
  <2> DEFINE rec == [Idle EXCEPT !.kind = "save", !.pc = "store", !.row = Kept(form),
                                 !.size = size]
  <2>2. Kept(form) \in Overrides
    BY TenantResourcesAssumption DEF Kept, Overrides
  <2>3. rec \in Req /\ Phase(rec) /\ rec.pc = "store"
    BY <2>2 DEF Req, Idle, Phase
  <2> QED BY <2>1, <2>3, AloneBegins
<1>4. CASE Clear(r)
  <2> DEFINE rec == [Idle EXCEPT !.kind = "clear", !.pc = "store"]
  <2>1. rec \in Req /\ Phase(rec) /\ rec.pc = "store"
    BY DEF Req, Idle, Phase
  <2> QED BY <1>4, <2>1, AloneBegins DEF Clear
<1>5. CASE ApplyAll(r)
  <2> DEFINE rec == [Idle EXCEPT !.kind = "all", !.pc = "row", !.row = overrides]
  <2>1. overrides \in Overrides /\ overrides' = overrides
    BY <1>5 DEF ApplyAll, Alone, Sound, TypeOK
  <2>2. rec \in Req /\ Phase(rec) /\ rec.pc = "row" /\ rec.row = overrides'
    BY <2>1 DEF Req, Idle, Phase
  <2> QED BY <1>5, <2>2, AloneBegins DEF ApplyAll
<1>6. CASE Baseline(r)
  <2>1. PICK o \in {overrides, NoOverrides} : Begin(r, [Idle EXCEPT
          !.kind = "baseline", !.pc = "namespace", !.config = Effective(o, cached)])
    BY <1>6 DEF Baseline
  <2> DEFINE rec == [Idle EXCEPT !.kind = "baseline", !.pc = "namespace",
                                 !.config = Effective(o, cached)]
  <2>2. overrides \in Overrides /\ cached \in Config /\ NoOverrides \in Overrides
    BY DEF Alone, Sound, TypeOK, NoOverrides, Overrides
  <2>3. Effective(o, cached) \in Config
    BY <2>2, EffectiveIsConfig
  <2>4. rec \in Req /\ Phase(rec) /\ rec.kind \notin Writes /\ rec.pc # "idle"
    BY <2>3 DEF Req, Idle, Phase, Writes
  <2> QED BY <2>1, <2>4, AloneBegins
<1> QED BY <1>1, <1>2, <1>3, <1>4, <1>5, <1>6

\* A part of the quota and the limits is written.
LEMMA PartApplied ==
  ASSUME Alone, NEW r \in Requests, NEW part \in SUBSET Enforced, req[r].kind \in Writes,
         req[r].config = Wants
  PROVE  \A k \in Enforced :
           Applied(r, part)[k] = IF k \in part THEN Wants[k] ELSE live[k]
  BY DEF Applied, Writes

LEMMA AloneStep ==
  ASSUME Alone, NEW r \in Requests, Step(r)
  PROVE  \A q \in Requests : Phase(req'[q]) /\ Solitary(q)'
<1> DEFINE me == req[r]
<1>t. /\ req \in [Requests -> Req] /\ me \in Req /\ Phase(me) /\ SoundRequest(me)
      /\ me.alone /\ me.kind \in Writes /\ me.pc # "idle" => Stage(me)
  BY DEF Alone, Sound, TypeOK, Solitary
<1>a. Active(r)
  BY DEF Step, ReadDefaults, Loaded, StoreDefaults, CacheDefaults, StoreRow, ItsTurn,
         CreateNamespace, Quota, Limits, ReadVolume, Grow, Fail, Active
<1>1. CASE ReadDefaults(r) \/ Loaded(r) \/ StoreDefaults(r) \/ CacheDefaults(r)
           \/ CreateNamespace(r)
  <2>1. me.kind \notin Writes
    BY <1>1, <1>t DEF ReadDefaults, Loaded, StoreDefaults, CacheDefaults, CreateNamespace,
                      Phase, Writes
  <2>2. /\ \A q \in Requests \ {r} : req'[q] = req[q]
        /\ req'[r].alone = me.alone /\ req'[r].kind = me.kind
    BY <1>1, <1>t DEF ReadDefaults, Loaded, StoreDefaults, CacheDefaults, CreateNamespace, Go,
                      Req
  <2>3. me.pc # "done"
    BY <1>a DEF Active
  <2>4. Phase(req'[r])
    BY <1>t, <2>1, <2>2, <2>3 DEF Phase, Writes
  <2> QED BY <1>a, <2>1, <2>2, <2>4, AloneGoesOn
<1>2. CASE StoreRow(r)
  <2>1. /\ \A q \in Requests \ {r} : req'[q] = req[q]
        /\ req'[r].alone = me.alone /\ req'[r].kind = me.kind
        /\ req'[r].pc = "quota" /\ req'[r].config = Effective(me.row, cached)
        /\ overrides' = me.row /\ cached' = cached /\ me.pc = "store"
    BY <1>2, <1>t DEF StoreRow, Req
  <2>2. Phase(req'[r])
    BY <1>t, <2>1 DEF Phase
  <2>3. Stage(req[r])'
    BY <2>1 DEF Stage, Wants
  <2> QED BY <1>a, <2>1, <2>2, <2>3, AloneGoesOn
<1>3. CASE ItsTurn(r)
  <2>1. /\ \A q \in Requests \ {r} : req'[q] = req[q]
        /\ req'[r].alone = me.alone /\ req'[r].kind = me.kind
        /\ req'[r].pc = "quota" /\ req'[r].config = Effective(me.row, cached)
        /\ overrides' = overrides /\ cached' = cached /\ me.pc = "row"
    BY <1>3, <1>t DEF ItsTurn, Req
  <2>2. Phase(req'[r])
    BY <1>t, <2>1 DEF Phase
  <2>3. ASSUME me.alone, me.kind \in Writes PROVE Stage(req[r])'
    BY <1>t, <2>1, <2>3 DEF Stage, Wants
  <2> QED BY <1>a, <2>1, <2>2, <2>3, AloneGoesOn
<1>4. CASE Quota(r)
  <2>1. /\ \A q \in Requests \ {r} : req'[q] = req[q]
        /\ req'[r].alone = me.alone /\ req'[r].kind = me.kind
        /\ req'[r].pc = "limits" /\ req'[r].config = me.config
        /\ live' = Applied(r, QuotaKnobs) /\ overrides' = overrides /\ cached' = cached
        /\ me.pc = "quota"
    BY <1>4, <1>t DEF Quota, Go, Req
  <2>2. Phase(req'[r])
    BY <1>t, <2>1 DEF Phase
  <2>3. ASSUME me.alone, me.kind \in Writes PROVE Stage(req[r])'
    <3>1. me.config = Wants
      BY <1>t, <2>1, <2>3 DEF Stage
    <3>2. \A k \in QuotaKnobs : live'[k] = Wants[k]
      BY <2>1, <2>3, <3>1, PartApplied DEF Enforced
    <3>3. Wants' = Wants
      BY <2>1 DEF Wants
    <3> QED BY <2>1, <3>1, <3>2, <3>3 DEF Stage
  <2> QED BY <1>a, <2>1, <2>2, <2>3, AloneGoesOn
<1>5. CASE Limits(r)
  <2>1. /\ \A q \in Requests \ {r} : req'[q] = req[q]
        /\ req'[r] = [me EXCEPT !.pc = AfterLimits(r)]
        /\ live' = Applied(r, LimitKnobs) /\ overrides' = overrides /\ cached' = cached
        /\ me.pc = "limits"
    BY <1>5, <1>t DEF Limits, Go
  <2>2. /\ req'[r].alone = me.alone /\ req'[r].kind = me.kind
        /\ req'[r].pc = AfterLimits(r) /\ req'[r].size = me.size
        /\ AfterLimits(r) \in {"done", "volume"}
        /\ AfterLimits(r) = "done" => me.size = Inherit
    BY <1>t, <2>1 DEF AfterLimits, Req
  <2>3. Phase(req'[r])
    BY <1>t, <2>1, <2>2 DEF Phase
  <2>4. ASSUME me.alone, me.kind \in Writes PROVE Stage(req[r])'
    <3>1. me.config = Wants /\ \A k \in QuotaKnobs : live[k] = Wants[k]
      BY <1>t, <2>1, <2>4 DEF Stage
    <3>2. \A k \in Enforced : live'[k] = Wants[k]
      BY <2>1, <2>4, <3>1, PartApplied DEF Enforced
    <3>3. Wants' = Wants
      BY <2>1 DEF Wants
    <3> QED BY <2>2, <3>2, <3>3 DEF Stage
  <2> QED BY <1>a, <2>1, <2>2, <2>3, <2>4, AloneGoesOn
<1>6. CASE ReadVolume(r) \/ Grow(r)
  <2>1. PICK large : Reported(r, large) \/ Go(r, "grow")
    BY <1>6 DEF ReadVolume, Grow
  <2>2. /\ \A q \in Requests \ {r} : req'[q] = req[q]
        /\ req'[r].alone = me.alone /\ req'[r].kind = me.kind
        /\ req'[r].pc \in {"volume", "grow", "done"} /\ me.pc \in {"volume", "grow"}
        /\ live' = live /\ overrides' = overrides /\ cached' = cached
    BY <1>6, <1>t, <2>1 DEF ReadVolume, Grow, Reported, Go, Req
  <2>3. Phase(req'[r])
    BY <1>t, <2>2 DEF Phase
  <2>4. ASSUME me.alone, me.kind \in Writes PROVE Stage(req[r])'
    <3>1. \A k \in Enforced : live[k] = Wants[k]
      BY <1>t, <2>2, <2>4 DEF Stage
    <3>2. Wants' = Wants
      BY <2>2 DEF Wants
    <3> QED BY <2>2, <3>1, <3>2 DEF Stage
  <2> QED BY <1>a, <2>2, <2>3, <2>4, AloneGoesOn
<1>8. CASE Fail(r)
  <2>1. /\ \A q \in Requests \ {r} : req'[q] = req[q]
        /\ req'[r].alone = me.alone /\ req'[r].kind = me.kind
        /\ req'[r].pc = "done" /\ ~req'[r].ok
    BY <1>8, <1>t DEF Fail, Req
  <2>2. me.kind \in Writes => Phase(req'[r])
    BY <1>t, <2>1 DEF Phase, Writes
  <2>3. Phase(req'[r])
    BY <2>1, <2>2 DEF Phase, Writes
  <2>4. Stage(req[r])'
    BY <2>1 DEF Stage
  <2> QED BY <1>a, <2>1, <2>3, <2>4, AloneGoesOn
<1> QED BY <1>1, <1>2, <1>3, <1>4, <1>5, <1>6, <1>8 DEF Step

LEMMA AloneNext ==
  ASSUME Alone, [ResourcesNext]_resourceVars
  PROVE  \A q \in Requests : Phase(req'[q]) /\ Solitary(q)'
<1>1. ASSUME NEW r \in Requests,
             Load(r) \/ SaveDefaults(r) \/ Save(r) \/ Clear(r) \/ ApplyAll(r) \/ Baseline(r)
      PROVE  \A q \in Requests : Phase(req'[q]) /\ Solitary(q)'
  BY <1>1, AloneRequests
<1>2. ASSUME NEW r \in Requests, Step(r)
      PROVE  \A q \in Requests : Phase(req'[q]) /\ Solitary(q)'
  BY <1>2, AloneStep
<1>3. ASSUME NEW v \in Volumes, MakeVolume(v) \/ DestroyVolume(v), NEW q \in Requests
      PROVE  Phase(req'[q]) /\ Solitary(q)'
  <2>1. /\ live' = live /\ Wants' = Wants /\ overrides' = overrides
    BY <1>3 DEF MakeVolume, DestroyVolume, Wants
  <2>2. ASSUME NEW p \in Requests
        PROVE  /\ req'[p].kind = req[p].kind /\ req'[p].pc = req[p].pc
               /\ req'[p].alone = req[p].alone /\ req'[p].ok = req[p].ok
               /\ req'[p].row = req[p].row /\ req'[p].config = req[p].config
    <3>1. req[p] \in Req
      BY DEF Alone, Sound, TypeOK
    <3> QED BY <1>3, <3>1 DEF MakeVolume, DestroyVolume, Req
  <2>3. Stage(req[q]) => Stage(req[q])'
    BY <2>1, <2>2 DEF Stage
  <2>4. Phase(req[q]) /\ Solitary(q)
    BY DEF Alone
  <2> QED BY <2>2, <2>3, <2>4 DEF Phase, Solitary, Active
<1>4. CASE Restart
  BY <1>4 DEF Restart, Idle, Phase, Solitary
<1>5. CASE UNCHANGED resourceVars
  <2> SUFFICES ASSUME NEW q \in Requests PROVE Phase(req'[q]) /\ Solitary(q)'
    OBVIOUS
  <2>1. Phase(req[q]) /\ Solitary(q)
    BY DEF Alone
  <2> QED BY <1>5, <2>1 DEF resourceVars, Solitary, Stage, Active, Wants
<1> QED BY <1>1, <1>2, <1>3, <1>4, <1>5 DEF ResourcesNext

\* What a page says of the volumes stays true: a volume that is there only grows.
TrulyTold(q) ==
  \A w \in q.told : q.size # Inherit /\ volume[w] # Inherit /\ volume[w] >= q.size
Truthful == \A r \in Requests : TrulyTold(req[r])

LEMMA AtLeastIsTransitive ==
  ASSUME NEW a \in Nat, NEW b \in Nat, NEW c \in Nat, a >= b, b >= c
  PROVE  a >= c
  OBVIOUS

\* A request goes on, while volumes only grow: what it is told is true, and what others were
\* told before stays so.
LEMMA ToldGoesOn ==
  ASSUME Sound, Sound', Truthful, NEW r \in Requests,
         \A q \in Requests \ {r} : req'[q] = req[q],
         \A w \in Volumes : volume[w] # Inherit => volume'[w] # Inherit /\ volume'[w] >= volume[w],
         req'[r].size = req[r].size,
         \A w \in req'[r].told \ req[r].told : req[r].size # Inherit /\ volume'[w] # Inherit
                                               /\ volume'[w] >= req[r].size
  PROVE  Truthful'
<1>1. ASSUME NEW q \in Requests, NEW w \in req[q].told
      PROVE  req[q].size # Inherit /\ volume'[w] # Inherit /\ volume'[w] >= req[q].size
  <2>1. req[q].size # Inherit /\ volume[w] # Inherit /\ volume[w] >= req[q].size
    BY DEF Truthful, TrulyTold
  <2>2. w \in Volumes /\ req[q].size \in Nat /\ volume[w] \in Nat
    BY <2>1, TenantResourcesAssumption DEF Sound, SoundRequest, TypeOK, Req, Quantity
  <2>3. volume'[w] # Inherit /\ volume'[w] >= volume[w]
    BY <2>1, <2>2
  <2>4. volume'[w] \in Nat
    BY <2>2, <2>3, TenantResourcesAssumption DEF Sound, TypeOK, Quantity
  <2>5. volume'[w] >= req[q].size
    BY <2>1, <2>2, <2>3, <2>4, AtLeastIsTransitive
  <2> QED BY <2>1, <2>3, <2>5
<1> QED BY <1>1 DEF Truthful, TrulyTold

LEMMA ToldNext ==
  ASSUME Sound, Sound', Truthful, [ResourcesNext]_resourceVars
  PROVE  Truthful'
<1>t. /\ req \in [Requests -> Req] /\ volume \in [Volumes -> 1..MaxPvcSize \cup {Inherit}]
      /\ \A w \in Volumes : volume[w] # Inherit => volume[w] >= volume[w]
  BY TenantResourcesAssumption DEF Sound, TypeOK, Quantity
<1>1. ASSUME NEW r \in Requests,
             Load(r) \/ SaveDefaults(r) \/ Save(r) \/ Clear(r) \/ ApplyAll(r) \/ Baseline(r)
      PROVE  Truthful'
  <2>1. volume' = volume
    BY <1>1 DEF Load, SaveDefaults, Save, Clear, ApplyAll, Baseline
  <2>2. req'[r].told = {}
    BY <1>1 DEF Load, SaveDefaults, Save, Clear, ApplyAll, Baseline, Begin, Idle
  <2>3. ASSUME NEW q \in Requests, q # r
        PROVE  req'[q].told = {} \/ (req'[q].told = req[q].told /\ req'[q].size = req[q].size)
    <3>1. req'[q] = IF Active(q) THEN [req[q] EXCEPT !.alone = FALSE] ELSE Idle
      BY <1>1, <2>3 DEF Load, SaveDefaults, Save, Clear, ApplyAll, Baseline, Begin
    <3>2. req[q] \in Req
      BY <1>t
    <3> QED BY <3>1, <3>2 DEF Req, Idle
  <2> QED BY <2>1, <2>2, <2>3 DEF Truthful, TrulyTold
<1>2. ASSUME NEW r \in Requests, Step(r), ~ReadVolume(r), ~Grow(r)
      PROVE  Truthful'
  <2>1. volume' = volume
    BY <1>2 DEF Step, ReadDefaults, Loaded, StoreDefaults, CacheDefaults, StoreRow, ItsTurn,
                CreateNamespace, Quota, Limits, Fail
  <2>2. /\ \A q \in Requests \ {r} : req'[q] = req[q]
        /\ req'[r].size = req[r].size /\ req'[r].told = req[r].told
    BY <1>2, <1>t DEF Step, ReadDefaults, Loaded, StoreDefaults, CacheDefaults, StoreRow,
                      ItsTurn, CreateNamespace, Quota, Limits, Fail, Go, Req
  <2> QED BY <1>t, <2>1, <2>2, ToldGoesOn
<1>3. ASSUME NEW r \in Requests, ReadVolume(r)
      PROVE  Truthful'
  <2>1. volume' = volume /\ req[r].vol \in Volumes /\ req[r].size # Inherit
    BY <1>3, <1>t DEF ReadVolume, Req, Sound, SoundRequest
  <2>2. PICK large \in SUBSET Volumes :
          /\ Reported(r, large) \/ Go(r, "grow")
          /\ \A w \in large : volume[w] # Inherit /\ volume[w] >= req[r].size
    BY <1>3, <2>1 DEF ReadVolume
  <2>3. /\ \A q \in Requests \ {r} : req'[q] = req[q]
        /\ req'[r].size = req[r].size /\ req'[r].told \ req[r].told \subseteq large
    BY <1>t, <2>2 DEF Reported, Go, Req
  <2> QED BY <1>t, <2>1, <2>2, <2>3, ToldGoesOn
<1>4. ASSUME NEW r \in Requests, Grow(r)
      PROVE  Truthful'
  <2> DEFINE v == req[r].vol
  <2>1. v \in Volumes /\ req[r].size # Inherit /\ req[r].size \in Nat
    BY <1>4, <1>t DEF Grow, Req, Sound, SoundRequest
  <2>2. PICK large \in SUBSET Volumes :
          /\ Reported(r, large)
          /\ \/ /\ Grows(v, req[r].size) /\ volume' = [volume EXCEPT ![v] = req[r].size]
                /\ large \subseteq {v}
             \/ large = {} /\ volume' = volume
    BY <1>4, <2>1 DEF Grow
  <2>3. /\ \A q \in Requests \ {r} : req'[q] = req[q]
        /\ req'[r].size = req[r].size /\ req'[r].told \ req[r].told \subseteq large
    BY <1>t, <2>2 DEF Reported, Req
  <2>4. ASSUME NEW w \in Volumes, volume[w] # Inherit
        PROVE  volume'[w] # Inherit /\ volume'[w] >= volume[w]
    BY <1>t, <2>1, <2>2, <2>4 DEF Grows
  <2>5. \A w \in large : volume'[w] # Inherit /\ volume'[w] >= req[r].size
    BY <1>t, <2>1, <2>2
  <2> QED BY <2>1, <2>3, <2>4, <2>5, ToldGoesOn
<1>5. ASSUME NEW v \in Volumes, MakeVolume(v)
      PROVE  Truthful'
  <2>1. req' = req /\ volume[v] = Inherit /\ \A w \in Volumes \ {v} : volume'[w] = volume[w]
    BY <1>5, <1>t DEF MakeVolume
  <2>2. \A q \in Requests : \A w \in req[q].told : w \in Volumes \ {v}
    BY <1>t, <2>1 DEF Truthful, TrulyTold, Req
  <2> QED BY <2>1, <2>2 DEF Truthful, TrulyTold
<1>6. ASSUME NEW v \in Volumes, DestroyVolume(v)
      PROVE  Truthful'
  <2>1. \A w \in Volumes \ {v} : volume'[w] = volume[w]
    BY <1>6, <1>t DEF DestroyVolume
  <2>2. ASSUME NEW q \in Requests
        PROVE  req'[q].told = req[q].told \ {v} /\ req'[q].size = req[q].size
    BY <1>6, <1>t DEF DestroyVolume, Req
  <2>3. \A q \in Requests : req[q].told \subseteq Volumes
    BY <1>t DEF Req
  <2> QED BY <2>1, <2>2, <2>3 DEF Truthful, TrulyTold
<1>7. CASE Restart
  BY <1>7 DEF Restart, Idle, Truthful, TrulyTold
<1>8. CASE UNCHANGED resourceVars
  BY <1>8 DEF resourceVars, Truthful, TrulyTold
<1> QED BY <1>1, <1>2, <1>3, <1>4, <1>5, <1>6, <1>7, <1>8 DEF ResourcesNext

\* A save, a clear or a sweep that reports success and had the project to itself leaves the
\* quota and the limits as the row and the defaults ask, and any volume that a page reports
\* as grown or large enough is as large as was asked (and types are kept).
THEOREM AloneLeavesWhatIsAsked == ResourcesSpec => []AloneIsExact
<1> DEFINE Inv == Alone /\ Truthful
<1>1. ResourcesInit => Inv
  <2> SUFFICES ASSUME ResourcesInit PROVE Inv
    OBVIOUS
  <2>1. \A r \in Requests : Phase(req[r]) /\ Solitary(r)
    BY DEF ResourcesInit, Idle, Phase, Solitary
  <2>2. Truthful
    BY DEF ResourcesInit, Idle, Truthful, TrulyTold
  <2> QED BY <2>1, <2>2, InitSound DEF Alone
<1>2. Inv /\ [ResourcesNext]_resourceVars => Inv'
  <2> SUFFICES ASSUME Inv, [ResourcesNext]_resourceVars PROVE Inv'
    OBVIOUS
  <2>1. Sound'
    BY SoundNext DEF Alone
  <2>2. \A q \in Requests : Phase(req'[q]) /\ Solitary(q)'
    BY AloneNext
  <2>3. Truthful'
    BY <2>1, ToldNext DEF Alone
  <2> QED BY <2>1, <2>2, <2>3 DEF Alone
<1>3. Inv => AloneIsExact
  <2> SUFFICES ASSUME Inv, NEW r \in Requests
               PROVE  /\ req[r].alone /\ req[r].kind \in Writes
                         /\ (req[r].pc \in {"volume", "grow"} \/ (req[r].pc = "done" /\ req[r].ok))
                           => \A k \in Enforced : live[k] = Wants[k]
                      /\ \A w \in req[r].told : volume[w] # Inherit /\ volume[w] >= req[r].size
    BY DEF Alone, Sound, AloneIsExact, Wants, Writes
  <2>1. req[r].alone /\ req[r].pc # "idle" /\ req[r].kind \in Writes => Stage(req[r])
    BY DEF Alone, Solitary
  <2>2. TrulyTold(req[r])
    BY DEF Truthful
  <2> QED BY <2>1, <2>2 DEF Stage, TrulyTold
<1> HIDE DEF Inv
<1> QED BY <1>1, <1>2, <1>3, PTL DEF ResourcesSpec

-----------------------------------------------------------------------------
(* An administrator's policy (CooldepsSettings).                           *)

\* Nobody else is under way beside one who is alone, and what he has done so far stands;
\* no template has more restarts than were asked for.
SettingsInv ==
  /\ SettingsAgree
  /\ pod.stamp <= stamp
  /\ told # Unsaved => \A s \in Saves : save[s].pc = "idle"
  /\ \A s \in Saves : save[s].pc # "idle" => save[s].policy \in Policies
  /\ \A s \in Saves : save[s].alone =>
       /\ \A r \in Saves \ {s} : save[r].pc = "idle"
       /\ save[s].pc \in {"map", "roll", "reload"} => policyRow = save[s].policy
       /\ save[s].pc \in {"roll", "reload"} => configMap = save[s].policy
       /\ save[s].pc = "reload" /\ pod.stamp = stamp => pod.policy = configMap

LEMMA TypeOfNoSave == NoSave \in Saving /\ NoSave.pc = "idle" /\ ~ NoSave.alone
BY DEF NoSave, Saving

LEMMA SettingsInitially == SettingsInit => SettingsInv
<1> SUFFICES ASSUME SettingsInit PROVE SettingsInv
  OBVIOUS
<1>1. save \in [Saves -> Saving] /\ \A s \in Saves : save[s].pc = "idle" /\ ~ save[s].alone
  BY TypeOfNoSave DEF SettingsInit
<1>2. pod \in [policy : Policies \cup {Default}, stamp : Nat] /\ pod.stamp = 0 /\ pod.policy = Default
  BY DEF SettingsInit
<1>b. unrolled \in BOOLEAN
  BY Zenon DEF SettingsInit
<1>n. stamp \in Nat /\ submissions \in 0..MaxSaves
  BY CooldepsSettingsAssumption DEF SettingsInit
<1>3. SettingsTypeOK
  BY <1>1, <1>2, <1>b, <1>n DEF SettingsInit, SettingsTypeOK
<1> QED BY <1>1, <1>2, <1>3 DEF SettingsInit, SettingsInv, SettingsAgree

\* A submission goes a step further, or ends.
LEMMA OneSave ==
  ASSUME SettingsInv, NEW s \in Saves, NEW pc \in {"idle", "map", "roll", "reload"},
         save[s].pc # "idle",
         IF pc = "idle" THEN EndSave(s) ELSE Advance(s, pc)
  PROVE  /\ save' \in [Saves -> Saving] /\ save'[s].pc = pc
         /\ pc # "idle" => save'[s].policy = save[s].policy
         /\ save'[s].alone => save[s].alone /\ pc # "idle"
         /\ \A r \in Saves \ {s} : save'[r] = save[r]
<1>1. save \in [Saves -> Saving] /\ save[s] \in Saving
  BY DEF SettingsInv, SettingsAgree, SettingsTypeOK
<1>2. CASE pc = "idle"
  BY <1>1, <1>2, TypeOfNoSave DEF EndSave
<1>3. CASE pc # "idle"
  <2> DEFINE q == [save[s] EXCEPT !.pc = pc]
  <2>1. save' = [save EXCEPT ![s] = q]
    BY <1>1, <1>3 DEF Advance
  <2>2. q \in Saving /\ q.pc = pc /\ q.policy = save[s].policy /\ q.alone = save[s].alone
    BY <1>1 DEF Saving
  <2> HIDE DEF q
  <2> QED BY <1>1, <1>3, <2>1, <2>2
<1> QED BY <1>2, <1>3

LEMMA SettingsStep == SettingsInv /\ [SettingsNext]_settingsVars => SettingsInv'
<1> SUFFICES ASSUME SettingsInv, [SettingsNext]_settingsVars PROVE SettingsInv'
  OBVIOUS
<1>t. /\ policyRow \in Policies \cup {Unsaved} /\ configMap \in Policies \cup {Default}
      /\ stamp \in Nat /\ pod \in [policy : Policies \cup {Default}, stamp : Nat]
      /\ save \in [Saves -> Saving] /\ submissions \in 0..MaxSaves
      /\ told \in Policies \cup {Unsaved} /\ unrolled \in BOOLEAN
      /\ \A s \in Saves : save[s] \in Saving
  BY DEF SettingsInv, SettingsAgree, SettingsTypeOK
<1>p. Unsaved \notin Policies
  BY CooldepsSettingsAssumption
\* While anybody is under way, nobody has been told.
<1>u. ASSUME NEW s \in Saves, save[s].pc # "idle" PROVE told = Unsaved
  BY <1>u DEF SettingsInv
<1>1. CASE UNCHANGED settingsVars
  BY <1>1 DEF settingsVars, SettingsInv, SettingsAgree, SettingsTypeOK
<1>2. ASSUME NEW s \in Saves, NEW p \in Policies, SubmitPolicy(s, p) PROVE SettingsInv'
  <2>1. /\ save[s] = NoSave /\ submissions' \in 0..MaxSaves /\ told' = Unsaved
        /\ UNCHANGED <<policyRow, configMap, stamp, pod, unrolled>>
    BY <1>t, <1>2, CooldepsSettingsAssumption DEF SubmitPolicy
  <2> DEFINE b == Underway = {}
             q == [pc |-> "row", policy |-> p, alone |-> b]
  <2>2. q \in Saving /\ q.pc = "row" /\ q.policy = p
    BY DEF Saving
  <2>3. save'[s] = q /\ \A r \in Saves \ {s} : save'[r] = [save[r] EXCEPT !.alone = FALSE]
    BY <1>2 DEF SubmitPolicy
  <2>4. ASSUME NEW r \in Saves \ {s}
        PROVE  /\ save'[r] \in Saving /\ ~ save'[r].alone
               /\ save'[r].pc = save[r].pc /\ save'[r].policy = save[r].policy
    BY ZenonT(30), <1>t, <2>3 DEF Saving
  <2>5. save'[s].alone => \A r \in Saves : save[r].pc = "idle"
    <3>1. b \in BOOLEAN /\ (b => \A r \in Saves : save[r].pc = "idle")
      BY DEF Underway
    <3> HIDE DEF b
    <3>2. save'[s].alone = b
      BY <2>3
    <3> QED BY <3>1, <3>2
  <2>6. save' \in [Saves -> Saving]
    BY <1>2, <2>2, <2>3, <2>4 DEF SubmitPolicy
  <2> HIDE DEF q
  <2>7. SettingsTypeOK'
    BY <1>t, <2>1, <2>6 DEF SettingsTypeOK
  <2>8. \A r \in Saves : save'[r].pc = "roll" <=> save[r].pc = "roll"
    BY <2>1, <2>2, <2>3, <2>4, TypeOfNoSave
  <2>9. SettingsAgree'
    BY <2>1, <2>7, <2>8 DEF SettingsInv, SettingsAgree
  <2> QED BY <2>1, <2>2, <2>3, <2>4, <2>5, <2>9 DEF SettingsInv
<1>3. ASSUME NEW s \in Saves, SaveRow(s) PROVE SettingsInv'
  <2>1. /\ save[s].pc = "row" /\ UNCHANGED <<configMap, stamp, pod, submissions, told, unrolled>>
        /\ \/ policyRow' = save[s].policy /\ Advance(s, "map")
           \/ policyRow' \in {policyRow, save[s].policy} /\ EndSave(s)
    BY <1>3 DEF SaveRow
  <2>2. PICK pc \in {"map", "idle"} :
          /\ IF pc = "idle" THEN EndSave(s) ELSE Advance(s, pc)
          /\ pc = "map" => policyRow' = save[s].policy
    BY <2>1
  <2>3. /\ save' \in [Saves -> Saving] /\ save'[s].pc = pc
        /\ pc # "idle" => save'[s].policy = save[s].policy
        /\ save'[s].alone => save[s].alone /\ pc # "idle"
        /\ \A r \in Saves \ {s} : save'[r] = save[r]
    BY <2>1, <2>2, OneSave
  <2>4. save[s].policy \in Policies /\ told = Unsaved
    BY <1>u, <2>1 DEF SettingsInv
  <2>5. policyRow' \in Policies \cup {Unsaved}
    BY <1>t, <2>1, <2>4
  <2>6. SettingsAgree'
    BY <1>t, <2>1, <2>2, <2>3, <2>4, <2>5 DEF SettingsInv, SettingsAgree, SettingsTypeOK
  <2>7. \A r \in Saves \ {s} : ~ save[r].alone
    BY <2>1 DEF SettingsInv
  <2> QED BY <2>1, <2>2, <2>3, <2>4, <2>6, <2>7 DEF SettingsInv
<1>4. ASSUME NEW s \in Saves, PatchMap(s) PROVE SettingsInv'
  <2>1. /\ save[s].pc = "map" /\ UNCHANGED <<policyRow, stamp, pod, submissions, told>>
        /\ \/ configMap' = save[s].policy /\ Advance(s, "roll") /\ UNCHANGED unrolled
           \/ configMap' = save[s].policy /\ EndSave(s) /\ unrolled' = TRUE
           \/ UNCHANGED <<configMap, unrolled>> /\ EndSave(s)
    BY <1>4 DEF PatchMap
  <2>2. PICK pc \in {"roll", "idle"} :
          /\ IF pc = "idle" THEN EndSave(s) ELSE Advance(s, pc)
          /\ pc = "roll" => configMap' = save[s].policy /\ UNCHANGED unrolled
          /\ pc = "idle" => unrolled' = TRUE \/ UNCHANGED <<configMap, unrolled>>
    BY <2>1
  <2>3. /\ save' \in [Saves -> Saving] /\ save'[s].pc = pc
        /\ pc # "idle" => save'[s].policy = save[s].policy
        /\ save'[s].alone => save[s].alone /\ pc # "idle"
        /\ \A r \in Saves \ {s} : save'[r] = save[r]
    BY <2>1, <2>2, OneSave
  <2>4. save[s].policy \in Policies /\ told = Unsaved
    BY <1>u, <2>1 DEF SettingsInv
  <2>5. SettingsTypeOK'
    BY <1>t, <2>1, <2>3, <2>4 DEF SettingsTypeOK
  <2>6. \A r \in Saves \ {s} : save'[r].pc = "roll" <=> save[r].pc = "roll"
    BY <2>3
  <2>7. SettingsAgree'
    BY <2>1, <2>2, <2>3, <2>4, <2>5, <2>6 DEF SettingsInv, SettingsAgree
  <2>8. \A r \in Saves \ {s} : ~ save[r].alone
    BY <2>1 DEF SettingsInv
  <2> QED BY <2>1, <2>2, <2>3, <2>4, <2>7, <2>8 DEF SettingsInv
<1>5. ASSUME NEW s \in Saves, Roll(s) PROVE SettingsInv'
  <2>1. /\ save[s].pc = "roll" /\ UNCHANGED <<policyRow, configMap, pod, submissions, told>>
        /\ \/ stamp' = stamp + 1 /\ unrolled' = FALSE /\ (Advance(s, "reload") \/ EndSave(s))
           \/ UNCHANGED stamp /\ unrolled' = TRUE /\ EndSave(s)
    BY <1>5 DEF Roll
  <2>2. PICK pc \in {"reload", "idle"} :
          /\ IF pc = "idle" THEN EndSave(s) ELSE Advance(s, pc)
          /\ pc = "reload" => stamp' = stamp + 1
    BY <2>1
  <2>3. /\ save' \in [Saves -> Saving] /\ save'[s].pc = pc
        /\ pc # "idle" => save'[s].policy = save[s].policy
        /\ save'[s].alone => save[s].alone /\ pc # "idle"
        /\ \A r \in Saves \ {s} : save'[r] = save[r]
    BY <2>1, <2>2, OneSave
  <2>4. told = Unsaved /\ (stamp' = stamp + 1 \/ stamp' = stamp) /\ pod.stamp \in Nat /\ pod.stamp <= stamp
    BY <1>t, <1>u, <2>1 DEF SettingsInv
  <2>5. SettingsTypeOK' /\ pod'.stamp <= stamp' /\ (stamp' = stamp + 1 => pod'.stamp # stamp')
    <3>b. unrolled' \in BOOLEAN
      BY <2>1, Zenon
    <3>1. unrolled' \in BOOLEAN /\ stamp' \in Nat
      BY <1>t, <2>4, <3>b
    <3>2. SettingsTypeOK'
      BY <1>t, <2>1, <2>3, <3>1 DEF SettingsTypeOK
    <3>3. pod' = pod
      BY <2>1
    <3> QED BY <1>t, <2>4, <3>2, <3>3
  <2>6. SettingsAgree'
    BY <2>1, <2>4, <2>5 DEF SettingsAgree
  <2>7. \A r \in Saves \ {s} : ~ save[r].alone
    BY <2>1 DEF SettingsInv
  <2> QED BY <2>1, <2>2, <2>3, <2>4, <2>5, <2>6, <2>7 DEF SettingsInv
<1>6. ASSUME NEW s \in Saves, Reload(s) PROVE SettingsInv'
  <2>1. /\ save[s].pc = "reload" /\ EndSave(s)
        /\ UNCHANGED <<policyRow, configMap, stamp, pod, submissions, unrolled>>
        /\ told' \in {told, IF save[s].alone THEN save[s].policy ELSE told}
    BY <1>6 DEF Reload
  <2>2. /\ save' \in [Saves -> Saving] /\ save'[s].pc = "idle" /\ ~ save'[s].alone
        /\ \A r \in Saves \ {s} : save'[r] = save[r]
    BY <2>1, OneSave
  <2>3. save[s].policy \in Policies /\ told = Unsaved
    BY <1>u, <2>1 DEF SettingsInv
  <2>4. told' # Unsaved => told' = save[s].policy /\ save[s].alone
    BY <2>1, <2>3
  <2>5. \A r \in Saves : save'[r].pc = "roll" <=> save[r].pc = "roll"
    BY <2>1, <2>2
  <2>6. SettingsTypeOK'
    BY <1>t, <2>1, <2>2, <2>3 DEF SettingsTypeOK
  <2>7. SettingsAgree'
    BY <2>1, <2>4, <2>5, <2>6 DEF SettingsInv, SettingsAgree
  <2>8. told' # Unsaved => \A r \in Saves : save'[r].pc = "idle"
    BY <2>2, <2>4 DEF SettingsInv
  <2>9. \A r \in Saves \ {s} : ~ save[r].alone
    BY <2>1 DEF SettingsInv
  <2> QED BY <2>1, <2>2, <2>7, <2>8, <2>9 DEF SettingsInv
<1>7. CASE RollsOut \/ PodRestarts
  <2>1. /\ UNCHANGED <<policyRow, configMap, stamp, save, submissions, told, unrolled>>
        /\ pod' \in [policy : Policies \cup {Default}, stamp : Nat]
        /\ pod'.policy = configMap /\ pod'.stamp \in {pod.stamp, stamp}
    BY <1>t, <1>7 DEF RollsOut, PodRestarts
  <2> QED BY <1>t, <2>1 DEF SettingsInv, SettingsAgree, SettingsTypeOK
<1> QED BY <1>1, <1>2, <1>3, <1>4, <1>5, <1>6, <1>7 DEF SettingsNext

\* POST /admin/cooldeps, in the order of its calls: what an administrator who saved alone was
\* told is so, and no ConfigMap that got its restart is left unread.
THEOREM SettingsHold == SettingsSpec => []SettingsAgree
<1>1. SettingsInv => SettingsAgree
  BY DEF SettingsInv
<1> QED BY <1>1, SettingsInitially, SettingsStep, PTL DEF SettingsSpec

-----------------------------------------------------------------------------
(* The ledger of activity and the badges (Activity).                       *)

Sent(i) == insert[i].pc # "idle"

\* The two halves of the types.
RowTypeOK ==
  /\ calls \in 0..MaxCalls /\ today \in 0..LastDay /\ projects \in SUBSET Projects
  /\ ledger \in [Rows -> Nat] /\ insert \in [Inserts -> Insert]
  /\ viewed \in SUBSET (Residents \X Projects \X (0..LastDay))
  /\ overlapped \in SUBSET Rows /\ blurred \in SUBSET (0..LastDay)
BadgeTypeOK ==
  /\ reconcile \in [Residents -> Reconciling] /\ lately \in SUBSET Residents
  /\ award \in [Residents -> [Badges -> {"none", "pending", "notified"}]]
  /\ toasts \in [Residents -> [Badges -> Nat]]
  /\ earnedOnce \in SUBSET (Residents \X Badges)

\* The views of one site by one resident on one day are told apart by the memory of them.
Remembered(r) ==
  r.kind = "project_view" /\ r.day = today /\ today \notin blurred =>
    <<r.actor, r.project, r.day>> \in viewed

LedgerInv ==
  /\ RowTypeOK
  /\ \A i \in Inserts : Sent(i) =>
       /\ insert[i].row \in Rows /\ insert[i].row.project \in Projects
       /\ insert[i].row.day <= today /\ Remembered(insert[i].row)
  \* two calls about one view only where the memory was lost
  /\ \A i, j \in Inserts :
       i # j /\ Sent(i) /\ Sent(j) /\ insert[i].row = insert[j].row
         /\ insert[i].row.kind = "project_view" => insert[i].row.day \in blurred
  \* of the statements that did not overlap at most one stores, and stores the first row
  /\ \A i, j \in Inserts :
       i # j /\ insert[i].pc = "begun" /\ insert[j].pc = "begun" /\ insert[i].row = insert[j].row
         => insert[i].row \in overlapped
  /\ \A i \in Inserts :
       insert[i].pc = "begun" /\ insert[i].store /\ insert[i].row.kind \in DayCappedKinds
         => insert[i].row \in overlapped \/ ledger[insert[i].row] = 0
  /\ \A r \in Rows :
       /\ r.kind \in DayCappedKinds /\ r.project # NoProject /\ ledger[r] > 1 => r \in overlapped
       /\ r.kind = "project_view" /\ r \in overlapped => r.day \in blurred

\* What the badges rest on: all that is earned is noted, found and given; a toast and the
\* mark that it was shown go together.
BadgeInv ==
  /\ BadgeTypeOK
  /\ \A u \in Residents, b \in Badges : EarnedIn(ledger, u, b) => <<u, b>> \in earnedOnce
  /\ \A u \in Residents, b \in Badges :
       /\ b \in reconcile[u].earned => <<u, b>> \in earnedOnce
       /\ award[u][b] # "none" => <<u, b>> \in earnedOnce
       /\ toasts[u][b] = IF award[u][b] = "notified" THEN 1 ELSE 0

\* Rows that go, or lose their project, earn nobody a badge.
LEMMA LessEarned ==
  ASSUME NEW l \in [Rows -> Nat], NEW m \in [Rows -> Nat], NEW u \in Residents, NEW b \in Badges,
         \A r \in Rows : m[r] > 0 =>
           \/ l[r] > 0
           \/ r.project = NoProject /\ \E q \in Rows : l[q] > 0 /\ q.actor = r.actor /\ q.day = r.day,
         EarnedIn(m, u, b)
  PROVE  EarnedIn(l, u, b)
<1> DEFINE Days(f) == {r.day : r \in Mine(f, u)}
           Shown(f) == {r.project : r \in {q \in Mine(f, u) : q.kind = "project_interaction"}} \ {NoProject}
<1>1. Days(m) \subseteq Days(l)
  BY DEF Mine
<1>2. Shown(m) \subseteq Shown(l)
  BY DEF Mine
<1>3. IsFiniteSet(Days(l))
  <2>1. Days(l) \subseteq 0..LastDay
    BY DEF Mine, Rows
  <2>2. IsFiniteSet(0..LastDay)
    BY ActivityAssumption, FS_Interval
  <2> QED BY <2>1, <2>2, FS_Subset
<1>4. IsFiniteSet(Shown(l))
  <2>1. Shown(l) \subseteq Projects
    BY DEF Mine, Rows
  <2> QED BY <2>1, ActivityAssumption, FS_Subset
<1>5. /\ Cardinality(Days(m)) <= Cardinality(Days(l)) /\ Cardinality(Shown(m)) <= Cardinality(Shown(l))
      /\ Cardinality(Days(m)) \in Nat /\ Cardinality(Days(l)) \in Nat
      /\ Cardinality(Shown(m)) \in Nat /\ Cardinality(Shown(l)) \in Nat
  <2>1. IsFiniteSet(Days(m)) /\ IsFiniteSet(Shown(m))
    BY <1>1, <1>2, <1>3, <1>4, FS_Subset
  <2>2. Cardinality(Days(m)) <= Cardinality(Days(l))
    BY <1>1, <1>3, FS_Subset
  <2>3. Cardinality(Shown(m)) <= Cardinality(Shown(l))
    BY <1>2, <1>4, FS_Subset
  <2> QED BY <1>3, <1>4, <2>1, <2>2, <2>3, FS_CardinalityType
<1>6. /\ ActiveDays(m, u) = Cardinality(Days(m)) /\ ActiveDays(l, u) = Cardinality(Days(l))
      /\ InterDistinct(m, u) = Cardinality(Shown(m)) /\ InterDistinct(l, u) = Cardinality(Shown(l))
  BY DEF ActiveDays, InterDistinct
<1> HIDE DEF Days, Shown
<1>7. Streak \in Nat
  BY ActivityAssumption
<1> QED BY <1>5, <1>6, <1>7 DEF EarnedIn

LEMMA TypeOfNoInsert ==
  /\ NoInsert \in Insert /\ NoInsert.pc = "idle"
  /\ NoReconcile \in Reconciling /\ NoReconcile.earned = {}
BY DEF NoInsert, Insert, NoReconcile, Reconciling

LEMMA TypeOfRow ==
  ASSUME NEW kind \in Kinds, NEW u \in Residents, NEW p \in Projects, NEW d \in 0..LastDay
  PROVE  /\ RowOf(kind, u, p, d) \in Rows /\ RowOf(kind, u, p, d).kind = kind
         /\ RowOf(kind, u, p, d).actor = u /\ RowOf(kind, u, p, d).project = p
         /\ RowOf(kind, u, p, d).day = d
BY DEF RowOf, Rows

\* recordActivity is called: one insert more is sent, and a view is remembered by then.
LEMMA SendKeeps ==
  ASSUME LedgerInv, NEW i \in Inserts, NEW kind \in Kinds, NEW u \in Residents, NEW p \in Projects,
         Send(i, kind, u, p), UNCHANGED <<today, projects, ledger, overlapped, blurred>>,
         viewed' \in SUBSET (Residents \X Projects \X (0..LastDay)), viewed \subseteq viewed',
         kind = "project_view" => <<u, p, today>> \notin viewed /\ <<u, p, today>> \in viewed'
  PROVE  LedgerInv'
<1>t. RowTypeOK
  BY DEF LedgerInv
<1>0. /\ RowOf(kind, u, p, today) \in Rows /\ RowOf(kind, u, p, today).kind = kind
      /\ RowOf(kind, u, p, today).actor = u /\ RowOf(kind, u, p, today).project = p
      /\ RowOf(kind, u, p, today).day = today
  BY <1>t, TypeOfRow DEF RowTypeOK
<1>r. PICK event \in Rows : event = RowOf(kind, u, p, today)
  BY <1>0
<1> DEFINE q == [pc |-> "sent", row |-> event, store |-> FALSE]
<1>1. /\ event \in Rows /\ event.kind = kind /\ event.actor = u /\ event.project = p /\ event.day = today
  BY <1>0, <1>r
<1>2. insert' = [insert EXCEPT ![i] = q] /\ insert[i] = NoInsert /\ calls' \in 0..MaxCalls
  BY <1>t, <1>r, ActivityAssumption DEF Send, RowTypeOK
<1>3. q \in Insert /\ q.pc = "sent" /\ q.row = event
  BY <1>1 DEF Insert
<1> HIDE DEF q
<1>4. \A j \in Inserts : insert'[j] = IF j = i THEN q ELSE insert[j]
  BY <1>t, <1>2 DEF RowTypeOK
<1>5. RowTypeOK'
  BY <1>t, <1>2, <1>3 DEF RowTypeOK
<1>6. Remembered(event)' /\ event.day <= today
  BY <1>t, <1>1 DEF Remembered, RowTypeOK
<1>7. ASSUME NEW j \in Inserts, Sent(j)'
      PROVE  /\ insert'[j].row \in Rows /\ insert'[j].row.project \in Projects
             /\ insert'[j].row.day <= today' /\ Remembered(insert[j].row)'
  <2>1. CASE j = i
    BY <1>1, <1>3, <1>4, <1>6, <2>1
  <2>2. CASE j # i
    <3>1. Sent(j) /\ insert'[j] = insert[j]
      BY <1>4, <1>7, <2>2 DEF Sent
    <3>2. /\ insert[j].row \in Rows /\ insert[j].row.project \in Projects
          /\ insert[j].row.day <= today /\ Remembered(insert[j].row)
      BY <3>1 DEF LedgerInv
    <3> QED BY <3>1, <3>2 DEF Remembered
  <2> QED BY <2>1, <2>2
<1>8. ASSUME NEW j \in Inserts, j # i, Sent(j), insert[j].row = event, kind = "project_view"
      PROVE  event.day \in blurred
  <2>1. Remembered(insert[j].row)
    BY <1>8 DEF LedgerInv
  <2> QED BY <1>1, <1>8, <2>1 DEF Remembered
<1>9. \A j, k \in Inserts :
        j # k /\ Sent(j)' /\ Sent(k)' /\ insert'[j].row = insert'[k].row
          /\ insert'[j].row.kind = "project_view" => insert'[j].row.day \in blurred'
  <2> SUFFICES ASSUME NEW j \in Inserts, NEW k \in Inserts, j # k, Sent(j)', Sent(k)',
                      insert'[j].row = insert'[k].row, insert'[j].row.kind = "project_view"
               PROVE  insert'[j].row.day \in blurred
    OBVIOUS
  <2>1. CASE j = i
    BY <1>1, <1>3, <1>4, <1>8, <2>1 DEF Sent
  <2>2. CASE k = i
    BY <1>1, <1>3, <1>4, <1>8, <2>2 DEF Sent
  <2>3. CASE j # i /\ k # i
    BY <1>4, <2>3 DEF Sent, LedgerInv
  <2> QED BY <2>1, <2>2, <2>3
<1>10. \A j \in Inserts : insert'[j].pc = "begun" => insert'[j] = insert[j]
  BY <1>3, <1>4
<1> QED BY <1>5, <1>7, <1>9, <1>10 DEF LedgerInv

\* A statement starts: it sees who wants its row, and whether there is one.
LEMMA StartsKeeps ==
  ASSUME LedgerInv, NEW i \in Inserts, Starts(i)
  PROVE  LedgerInv'
<1>t. RowTypeOK /\ today \in 0..LastDay /\ insert \in [Inserts -> Insert] /\ insert[i] \in Insert
  BY DEF LedgerInv, RowTypeOK
<1> DEFINE old == insert[i].row
<1>1. insert[i].pc = "sent" /\ Sent(i)
  BY DEF Starts, Sent
<1>2. /\ old \in Rows /\ old.project \in Projects /\ old.day <= today /\ Remembered(old)
  BY <1>1 DEF LedgerInv
<1>0. [old EXCEPT !.day = today] \in Rows
  BY <1>t, <1>2 DEF Rows
<1>r. PICK event \in Rows : event = [old EXCEPT !.day = today]
  BY <1>0
<1> DEFINE b == Missing(event)
           q == [pc |-> "begun", row |-> event, store |-> b]
<1>3. /\ event \in Rows /\ event.kind = old.kind /\ event.actor = old.actor /\ event.project = old.project
      /\ event.day = today /\ (old.day = today => event = old)
  BY <1>t, <1>2, <1>r DEF Rows
<1>4. /\ insert' = [insert EXCEPT ![i] = q]
      /\ overlapped' = IF Wanting(event) # {} THEN overlapped \cup {event} ELSE overlapped
      /\ blurred' = IF today # old.day THEN blurred \cup {today} ELSE blurred
      /\ UNCHANGED <<calls, today, projects, ledger, viewed>>
  BY <1>r DEF Starts
<1>5. b \in BOOLEAN /\ (b <=> Missing(event))
  BY DEF Missing
<1>6. Missing(event) /\ event.kind \in DayCappedKinds => ledger[event] = 0
  <2>1. [event EXCEPT !.day = event.day] = event
    BY <1>3 DEF Rows
  <2>2. event.day \in event.day..LastDay
    BY <1>t, <1>3
  <2> QED BY <2>1, <2>2 DEF Missing
<1> HIDE DEF b
<1>7. q \in Insert /\ q.pc = "begun" /\ q.row = event /\ q.store = b
  BY <1>3, <1>5 DEF Insert
<1> HIDE DEF q
<1>8. \A j \in Inserts : insert'[j] = IF j = i THEN q ELSE insert[j]
  BY <1>t, <1>4
<1>9. RowTypeOK'
  BY <1>t, <1>3, <1>4, <1>7 DEF RowTypeOK
<1>10. Remembered(event)'
  BY <1>2, <1>3, <1>4 DEF Remembered
<1>11. ASSUME NEW j \in Inserts, Sent(j)'
       PROVE  /\ insert'[j].row \in Rows /\ insert'[j].row.project \in Projects
              /\ insert'[j].row.day <= today' /\ Remembered(insert[j].row)'
  <2>1. CASE j = i
    BY <1>t, <1>2, <1>3, <1>4, <1>7, <1>8, <1>10, <2>1
  <2>2. CASE j # i
    <3>1. Sent(j) /\ insert'[j] = insert[j]
      BY <1>8, <1>11, <2>2 DEF Sent
    <3>2. /\ insert[j].row \in Rows /\ insert[j].row.project \in Projects
          /\ insert[j].row.day <= today /\ Remembered(insert[j].row)
      BY <3>1 DEF LedgerInv
    <3> QED BY <1>4, <3>1, <3>2 DEF Remembered
  <2> QED BY <2>1, <2>2
<1>12. ASSUME NEW j \in Inserts, j # i, Sent(j), insert[j].row = event, event.kind = "project_view"
       PROVE  event.day \in blurred'
  <2>1. CASE today # old.day
    BY <1>3, <1>4, <2>1
  <2>2. CASE today = old.day
    <3>1. insert[i].row = event
      BY <1>3, <2>2
    <3>2. insert[i].row.day \in blurred
      BY <1>1, <1>12, <3>1 DEF LedgerInv
    <3> QED BY <1>4, <3>1, <3>2
  <2> QED BY <2>1, <2>2
<1>13. \A j, k \in Inserts :
        j # k /\ Sent(j)' /\ Sent(k)' /\ insert'[j].row = insert'[k].row
          /\ insert'[j].row.kind = "project_view" => insert'[j].row.day \in blurred'
  <2> SUFFICES ASSUME NEW j \in Inserts, NEW k \in Inserts, j # k, Sent(j)', Sent(k)',
                      insert'[j].row = insert'[k].row, insert'[j].row.kind = "project_view"
               PROVE  insert'[j].row.day \in blurred'
    OBVIOUS
  <2>1. CASE j = i
    BY <1>7, <1>8, <1>12, <2>1 DEF Sent
  <2>2. CASE k = i
    BY <1>7, <1>8, <1>12, <2>2 DEF Sent
  <2>3. CASE j # i /\ k # i
    BY <1>4, <1>8, <2>3 DEF Sent, LedgerInv
  <2> QED BY <2>1, <2>2, <2>3
<1>14. ASSUME NEW j \in Inserts, j # i, insert[j].pc = "begun", insert[j].row = event
       PROVE  event \in overlapped'
  BY <1>4, <1>14 DEF Wanting
<1>15. \A j, k \in Inserts :
        j # k /\ insert'[j].pc = "begun" /\ insert'[k].pc = "begun" /\ insert'[j].row = insert'[k].row
          => insert'[j].row \in overlapped'
  <2> SUFFICES ASSUME NEW j \in Inserts, NEW k \in Inserts, j # k, insert'[j].pc = "begun",
                      insert'[k].pc = "begun", insert'[j].row = insert'[k].row
               PROVE  insert'[j].row \in overlapped'
    OBVIOUS
  <2>1. CASE j = i
    BY <1>7, <1>8, <1>14, <2>1
  <2>2. CASE k = i
    BY <1>7, <1>8, <1>14, <2>2
  <2>3. CASE j # i /\ k # i
    BY <1>4, <1>8, <2>3 DEF LedgerInv
  <2> QED BY <2>1, <2>2, <2>3
<1>16. ASSUME NEW j \in Inserts, insert'[j].pc = "begun", insert'[j].store,
              insert'[j].row.kind \in DayCappedKinds
       PROVE  insert'[j].row \in overlapped' \/ ledger'[insert'[j].row] = 0
  <2>1. CASE j = i
    BY <1>4, <1>5, <1>6, <1>7, <1>8, <1>16, <2>1
  <2>2. CASE j # i
    BY <1>4, <1>8, <1>16, <2>2 DEF LedgerInv
  <2> QED BY <2>1, <2>2
<1>17. ASSUME NEW r \in Rows
       PROVE  /\ r.kind \in DayCappedKinds /\ r.project # NoProject /\ ledger'[r] > 1 => r \in overlapped'
              /\ r.kind = "project_view" /\ r \in overlapped' => r.day \in blurred'
  <2>1. r.kind = "project_view" /\ r \in overlapped' /\ r \notin overlapped => r.day \in blurred'
    <3> SUFFICES ASSUME r.kind = "project_view", r \in overlapped', r \notin overlapped
                 PROVE  r.day \in blurred'
      OBVIOUS
    <3>1. r = event /\ Wanting(event) # {}
      BY <1>4
    <3>2. PICK j \in Inserts : insert[j].pc = "begun" /\ insert[j].row = event
      BY <3>1 DEF Wanting
    <3>3. j # i /\ Sent(j)
      BY <1>1, <3>2 DEF Sent
    <3> QED BY <1>12, <3>1, <3>2, <3>3
  <2> QED BY <1>4, <2>1 DEF LedgerInv
<1> QED BY <1>9, <1>11, <1>13, <1>15, <1>16, <1>17 DEF LedgerInv

\* A statement that is over, whether it stored or not.
LEMMA EndsKeeps ==
  ASSUME LedgerInv, NEW i \in Inserts, Commit(i) \/ InsertFails(i)
  PROVE  LedgerInv'
<1>t. RowTypeOK /\ insert \in [Inserts -> Insert] /\ insert[i] \in Insert /\ ledger \in [Rows -> Nat]
  BY DEF LedgerInv, RowTypeOK
<1> DEFINE r == insert[i].row
<1>1. /\ insert' = [insert EXCEPT ![i] = NoInsert]
      /\ UNCHANGED <<calls, today, projects, viewed, overlapped, blurred>>
  BY DEF Commit, InsertFails
<1>2. \A j \in Inserts : insert'[j] = IF j = i THEN NoInsert ELSE insert[j]
  BY <1>t, <1>1
<1>3. /\ ledger' \in [Rows -> Nat]
      /\ \A s \in Rows : ledger'[s] # ledger[s] =>
           /\ s = r /\ insert[i].pc = "begun" /\ insert[i].store
           /\ ledger'[s] = ledger[s] + 1
  <2>1. CASE ledger' = ledger
    BY <1>t, <2>1
  <2>2. CASE ledger' # ledger
    <3>1. insert[i].pc = "begun" /\ insert[i].store /\ ledger' = [ledger EXCEPT ![r] = @ + 1]
      BY <2>2 DEF Commit, InsertFails
    <3>2. r \in Rows
      BY <3>1 DEF LedgerInv, Sent
    <3> HIDE DEF r
    <3> QED BY <1>t, <3>1, <3>2
  <2> QED BY <2>1, <2>2
<1>4. RowTypeOK'
  BY <1>t, <1>1, <1>3, TypeOfNoInsert DEF RowTypeOK
<1>5. ASSUME NEW j \in Inserts, Sent(j)' PROVE j # i /\ insert'[j] = insert[j] /\ Sent(j)
  BY <1>2, <1>5, TypeOfNoInsert DEF Sent
<1>6. ASSUME NEW j \in Inserts, Sent(j)'
      PROVE  /\ insert'[j].row \in Rows /\ insert'[j].row.project \in Projects
             /\ insert'[j].row.day <= today' /\ Remembered(insert[j].row)'
  BY <1>1, <1>5, <1>6 DEF LedgerInv, Remembered
<1>7. \A j, k \in Inserts :
        j # k /\ Sent(j)' /\ Sent(k)' /\ insert'[j].row = insert'[k].row
          /\ insert'[j].row.kind = "project_view" => insert'[j].row.day \in blurred'
  BY <1>1, <1>5 DEF LedgerInv
<1>8. ASSUME NEW j \in Inserts, insert'[j].pc = "begun" PROVE j # i /\ insert'[j] = insert[j]
  BY <1>2, <1>8, TypeOfNoInsert
<1>9. \A j, k \in Inserts :
        j # k /\ insert'[j].pc = "begun" /\ insert'[k].pc = "begun" /\ insert'[j].row = insert'[k].row
          => insert'[j].row \in overlapped'
  BY <1>1, <1>8 DEF LedgerInv
<1>10. ASSUME NEW j \in Inserts, insert'[j].pc = "begun", insert'[j].store,
              insert'[j].row.kind \in DayCappedKinds
       PROVE  insert'[j].row \in overlapped' \/ ledger'[insert'[j].row] = 0
  <2>1. j # i /\ insert'[j] = insert[j] /\ Sent(j)
    BY <1>8, <1>10 DEF Sent
  <2>2. insert[j].row \in Rows /\ (insert[j].row \in overlapped \/ ledger[insert[j].row] = 0)
    BY <1>10, <2>1 DEF LedgerInv
  <2>3. CASE ledger'[insert[j].row] = ledger[insert[j].row]
    BY <1>1, <2>1, <2>2, <2>3
  <2>4. CASE ledger'[insert[j].row] # ledger[insert[j].row]
    <3>1. insert[j].row = insert[i].row /\ insert[i].pc = "begun"
      BY <1>3, <2>2, <2>4
    <3>2. insert[j].row \in overlapped
      BY <1>10, <2>1, <3>1 DEF LedgerInv
    <3> QED BY <1>1, <2>1, <3>2
  <2> QED BY <2>3, <2>4
<1>11. ASSUME NEW s \in Rows
       PROVE  /\ s.kind \in DayCappedKinds /\ s.project # NoProject /\ ledger'[s] > 1 => s \in overlapped'
              /\ s.kind = "project_view" /\ s \in overlapped' => s.day \in blurred'
  <2>1. CASE ledger'[s] = ledger[s]
    BY <1>1, <2>1 DEF LedgerInv
  <2>2. CASE ledger'[s] # ledger[s]
    <3>1. s = insert[i].row /\ insert[i].pc = "begun" /\ insert[i].store /\ ledger'[s] = ledger[s] + 1
      BY <1>3, <2>2
    <3>2. s.kind \in DayCappedKinds => s \in overlapped \/ ledger[s] = 0
      BY <3>1 DEF LedgerInv
    <3>3. s.kind = "project_view" /\ s \in overlapped => s.day \in blurred
      BY DEF LedgerInv
    <3> QED BY <1>1, <3>1, <3>2, <3>3
  <2> QED BY <2>1, <2>2
<1> QED BY <1>4, <1>6, <1>7, <1>9, <1>10, <1>11 DEF LedgerInv

\* Rows that have a project only ever go.
LEMMA GoesKeeps ==
  ASSUME LedgerInv, UNCHANGED <<calls, today, insert, viewed, overlapped, blurred>>,
         projects' \subseteq projects, ledger' \in [Rows -> Nat],
         \A r \in Rows : r.project # NoProject => ledger'[r] = 0 \/ ledger'[r] = ledger[r]
  PROVE  LedgerInv'
<1>1. RowTypeOK'
  BY DEF LedgerInv, RowTypeOK
<1>2. \A i \in Inserts : Sent(i)' =>
        /\ insert'[i].row \in Rows /\ insert'[i].row.project \in Projects
        /\ insert'[i].row.day <= today' /\ Remembered(insert[i].row)'
  BY DEF LedgerInv, Sent, Remembered
<1>3. ASSUME NEW i \in Inserts, insert[i].pc = "begun", insert[i].store,
             insert[i].row.kind \in DayCappedKinds
      PROVE  insert[i].row \in overlapped \/ ledger'[insert[i].row] = 0
  <2>1. insert[i].row \in Rows /\ insert[i].row.project # NoProject
    BY <1>3, ActivityAssumption DEF LedgerInv, Sent
  <2> QED BY <1>3, <2>1 DEF LedgerInv
<1>4. ASSUME NEW r \in Rows
      PROVE  /\ r.kind \in DayCappedKinds /\ r.project # NoProject /\ ledger'[r] > 1 => r \in overlapped
             /\ r.kind = "project_view" /\ r \in overlapped => r.day \in blurred
  BY DEF LedgerInv
<1>5. /\ \A i, j \in Inserts :
           i # j /\ Sent(i)' /\ Sent(j)' /\ insert'[i].row = insert'[j].row
             /\ insert'[i].row.kind = "project_view" => insert'[i].row.day \in blurred'
      /\ \A i, j \in Inserts :
           i # j /\ insert'[i].pc = "begun" /\ insert'[j].pc = "begun" /\ insert'[i].row = insert'[j].row
             => insert'[i].row \in overlapped'
  BY DEF LedgerInv, Sent
<1> QED BY <1>1, <1>2, <1>3, <1>4, <1>5 DEF LedgerInv

\* The memory of the views goes, or the day does.
LEMMA ForgetsKeeps ==
  ASSUME LedgerInv, UNCHANGED <<calls, projects, ledger, insert, overlapped>>,
         \/ Forgets /\ UNCHANGED today
         \/ NextDay
  PROVE  LedgerInv'
<1>t. today \in 0..LastDay /\ blurred \in SUBSET (0..LastDay)
  BY DEF LedgerInv, RowTypeOK
<1>1. today' \in 0..LastDay /\ today <= today' /\ blurred \subseteq blurred' /\ blurred' \in SUBSET (0..LastDay)
  <2>1. CASE Forgets /\ UNCHANGED today
    BY <1>t, <2>1 DEF Forgets
  <2>2. CASE NextDay
    <3>1. today' = today + 1 /\ today < LastDay /\ blurred' = blurred
      BY <2>2 DEF NextDay
    <3> QED BY <1>t, <3>1, ActivityAssumption
  <2> QED BY <2>1, <2>2
<1>2. viewed' \in SUBSET (Residents \X Projects \X (0..LastDay))
  BY DEF LedgerInv, RowTypeOK, Forgets, NextDay
<1>3. RowTypeOK'
  BY <1>1, <1>2 DEF LedgerInv, RowTypeOK
<1>4. ASSUME NEW i \in Inserts, Sent(i)
      PROVE  /\ insert[i].row \in Rows /\ insert[i].row.project \in Projects
             /\ insert[i].row.day <= today' /\ Remembered(insert[i].row)'
  <2>1. /\ insert[i].row \in Rows /\ insert[i].row.project \in Projects
        /\ insert[i].row.day <= today /\ insert[i].row.day \in 0..LastDay
    BY <1>4 DEF LedgerInv, Rows
  <2>2. today' # today => today' = today + 1
    BY DEF NextDay
  <2>3. today' = today => today \in blurred'
    BY <1>t DEF Forgets, NextDay
  <2>4. Remembered(insert[i].row)'
    BY <1>t, <1>1, <2>1, <2>2, <2>3 DEF Remembered
  <2> QED BY <1>t, <1>1, <2>1, <2>4
<1>5. /\ \A i \in Inserts : Sent(i)' <=> Sent(i)
      /\ \A i \in Inserts : insert'[i] = insert[i]
  BY DEF Sent
<1> QED BY <1>1, <1>3, <1>4, <1>5 DEF LedgerInv

\* A row of the badges that is replaced, for one resident.
LEMMA BadgesKeep ==
  ASSUME BadgeInv, ledger \in [Rows -> Nat], NEW u \in Residents,
         reconcile' \in [Residents -> Reconciling], lately' \in SUBSET Residents,
         award' \in [Residents -> [Badges -> {"none", "pending", "notified"}]],
         toasts' \in [Residents -> [Badges -> Nat]],
         UNCHANGED <<ledger, earnedOnce>>,
         \A v \in Residents \ {u} : /\ reconcile'[v] = reconcile[v]
                                    /\ award'[v] = award[v] /\ toasts'[v] = toasts[v],
         \A b \in Badges :
           /\ b \in reconcile'[u].earned => <<u, b>> \in earnedOnce
           /\ award'[u][b] # "none" => <<u, b>> \in earnedOnce
           /\ toasts'[u][b] = IF award'[u][b] = "notified" THEN 1 ELSE 0
  PROVE  BadgeInv'
<1>1. BadgeTypeOK'
  BY DEF BadgeInv, BadgeTypeOK
<1>2. \A v \in Residents, b \in Badges : EarnedIn(ledger, v, b)' => <<v, b>> \in earnedOnce'
  <2>1. \A v \in Residents, b \in Badges : EarnedIn(ledger, v, b) => <<v, b>> \in earnedOnce
    BY DEF BadgeInv
  <2> QED BY <2>1 DEF EarnedIn, ActiveDays, InterDistinct, Mine
<1>3. ASSUME NEW v \in Residents, NEW b \in Badges
      PROVE  /\ b \in reconcile'[v].earned => <<v, b>> \in earnedOnce'
             /\ award'[v][b] # "none" => <<v, b>> \in earnedOnce'
             /\ toasts'[v][b] = IF award'[v][b] = "notified" THEN 1 ELSE 0
  <2>1. CASE v = u
    BY <2>1
  <2>2. CASE v # u
    BY <2>2 DEF BadgeInv
  <2> QED BY <2>1, <2>2
<1> QED BY <1>1, <1>2, <1>3 DEF BadgeInv

\* Only the ledger changes, and not in anybody's favour; or all that is earned is noted.
LEMMA NotedKeeps ==
  ASSUME BadgeInv, ledger \in [Rows -> Nat], ledger' \in [Rows -> Nat],
         UNCHANGED <<badgeVars>>,
         \/ Remark(ledger')
         \/ /\ UNCHANGED earnedOnce
            /\ \A r \in Rows : ledger'[r] > 0 =>
                 \/ ledger[r] > 0
                 \/ r.project = NoProject
                    /\ \E q \in Rows : ledger[q] > 0 /\ q.actor = r.actor /\ q.day = r.day
  PROVE  BadgeInv'
<1>1. earnedOnce \subseteq earnedOnce' /\ earnedOnce' \in SUBSET (Residents \X Badges)
  BY DEF Remark, BadgeInv, BadgeTypeOK
<1>2. UNCHANGED <<reconcile, lately, award, toasts>>
  BY DEF badgeVars
<1>3. BadgeTypeOK'
  BY <1>1, <1>2 DEF BadgeInv, BadgeTypeOK
<1>4. ASSUME NEW u \in Residents, NEW b \in Badges, EarnedIn(ledger', u, b)
      PROVE  <<u, b>> \in earnedOnce'
  <2>1. CASE Remark(ledger')
    BY <1>4, <2>1 DEF Remark
  <2>2. CASE ~ Remark(ledger')
    <3>1. EarnedIn(ledger, u, b)
      BY <1>4, <2>2, LessEarned
    <3> QED BY <1>1, <3>1 DEF BadgeInv
  <2> QED BY <2>1, <2>2
<1>5. \A u \in Residents, b \in Badges : EarnedIn(ledger, u, b)' => <<u, b>> \in earnedOnce'
  BY <1>4 DEF EarnedIn, ActiveDays, InterDistinct, Mine
<1>6. \A u \in Residents, b \in Badges :
        /\ b \in reconcile'[u].earned => <<u, b>> \in earnedOnce'
        /\ award'[u][b] # "none" => <<u, b>> \in earnedOnce'
        /\ toasts'[u][b] = IF award'[u][b] = "notified" THEN 1 ELSE 0
  BY <1>1, <1>2 DEF BadgeInv
<1> QED BY <1>3, <1>5, <1>6 DEF BadgeInv

ActivityInv == LedgerInv /\ BadgeInv

LEMMA ActivityInitially == ActivityInit => ActivityInv
<1> SUFFICES ASSUME ActivityInit PROVE ActivityInv
  OBVIOUS
<1>1. RowTypeOK
  BY TypeOfNoInsert, ActivityAssumption DEF ActivityInit, RowTypeOK
<1>2. \A i \in Inserts : ~ Sent(i) /\ insert[i].pc # "begun"
  BY TypeOfNoInsert DEF ActivityInit, Sent
<1>3. \A r \in Rows : ledger[r] = 0
  BY DEF ActivityInit
<1>4. LedgerInv
  BY <1>1, <1>2, <1>3 DEF LedgerInv, ActivityInit
<1>5. BadgeTypeOK
  BY TypeOfNoInsert DEF ActivityInit, BadgeTypeOK
<1>6. ASSUME NEW u \in Residents, NEW b \in Badges PROVE ~ EarnedIn(ledger, u, b)
  <2>1. Mine(ledger, u) = {}
    BY <1>3 DEF Mine
  <2>2. {r.day : r \in Mine(ledger, u)} = {}
    BY <2>1
  <2>3. {r.project : r \in {q \in Mine(ledger, u) : q.kind = "project_interaction"}} \ {NoProject} = {}
    BY <2>1
  <2>4. ActiveDays(ledger, u) = 0 /\ InterDistinct(ledger, u) = 0
    BY <2>2, <2>3, FS_EmptySet DEF ActiveDays, InterDistinct
  <2> QED BY <2>4, ActivityAssumption DEF EarnedIn
<1>7. \A u \in Residents, b \in Badges :
        reconcile[u].earned = {} /\ award[u][b] = "none" /\ toasts[u][b] = 0
  BY TypeOfNoInsert DEF ActivityInit
<1>8. BadgeInv
  BY <1>5, <1>6, <1>7 DEF BadgeInv
<1> QED BY <1>4, <1>8 DEF ActivityInv

LEMMA ActivityStep == ActivityInv /\ [ActivityNext]_activityVars => ActivityInv'
<1> SUFFICES ASSUME ActivityInv, [ActivityNext]_activityVars PROVE ActivityInv'
  OBVIOUS
<1>t. LedgerInv /\ RowTypeOK /\ BadgeInv /\ BadgeTypeOK
  BY DEF ActivityInv, LedgerInv, BadgeInv
<1>l. /\ ledger \in [Rows -> Nat] /\ today \in 0..LastDay
      /\ viewed \in SUBSET (Residents \X Projects \X (0..LastDay))
  BY <1>t DEF RowTypeOK
\* The steps of the badges leave the ledger alone, and most of its steps the badges.
<1>r. ASSUME UNCHANGED rowVars PROVE LedgerInv'
  BY <1>t, <1>r DEF rowVars, LedgerInv, RowTypeOK, Sent, Remembered
<1>b. ASSUME UNCHANGED <<badgeVars, ledger, earnedOnce>> PROVE BadgeInv'
  <2>1. ledger' \in [Rows -> Nat] /\ \A r \in Rows : ledger'[r] > 0 => ledger[r] > 0
    BY <1>l, <1>b
  <2> QED BY <1>t, <1>l, <1>b, <2>1, NotedKeeps
<1>1. CASE UNCHANGED activityVars
  <2>1. UNCHANGED rowVars /\ UNCHANGED <<badgeVars, ledger, earnedOnce>>
    BY <1>1 DEF activityVars, rowVars, badgeVars
  <2> QED BY <1>r, <1>b, <2>1 DEF ActivityInv
<1>2. ASSUME NEW i \in Inserts, NEW u \in Residents, NEW p \in Projects, View(i, u, p)
      PROVE  ActivityInv'
  <2>1. /\ Send(i, "project_view", u, p) /\ <<u, p, today>> \notin viewed
        /\ viewed' = viewed \cup {<<u, p, today>>}
        /\ UNCHANGED <<today, projects, ledger, overlapped, blurred, badgeVars, earnedOnce>>
    BY <1>2 DEF View
  <2>2. viewed' \in SUBSET (Residents \X Projects \X (0..LastDay))
    BY <1>l, <2>1
  <2>3. LedgerInv'
    BY <1>t, <2>1, <2>2, SendKeeps DEF Kinds
  <2>4. BadgeInv'
    BY <1>b, <2>1
  <2> QED BY <2>3, <2>4 DEF ActivityInv
<1>3. ASSUME NEW i \in Inserts, NEW kind \in {"project_interaction", "pr_merged"},
             NEW u \in Residents, NEW p \in Projects, Act(i, kind, u, p)
      PROVE  ActivityInv'
  <2>1. /\ Send(i, kind, u, p) /\ kind \in Kinds /\ kind # "project_view"
        /\ UNCHANGED <<today, projects, ledger, viewed, overlapped, blurred, badgeVars, earnedOnce>>
    BY <1>3 DEF Act, Kinds
  <2>3. LedgerInv'
    BY <1>t, <1>l, <2>1, SendKeeps
  <2>4. BadgeInv'
    BY <1>b, <2>1
  <2> QED BY <2>3, <2>4 DEF ActivityInv
<1>4. ASSUME NEW i \in Inserts, Starts(i) PROVE ActivityInv'
  <2>1. UNCHANGED <<badgeVars, ledger, earnedOnce>>
    BY <1>4 DEF Starts
  <2> QED BY <1>t, <1>b, <1>4, <2>1, StartsKeeps DEF ActivityInv
<1>5. ASSUME NEW i \in Inserts, Commit(i) PROVE ActivityInv'
  <2>1. LedgerInv'
    BY <1>t, <1>5, EndsKeeps
  <2>2. Remark(ledger') /\ UNCHANGED badgeVars
    BY <1>5 DEF Commit
  <2>3. ledger' \in [Rows -> Nat]
    BY <2>1 DEF LedgerInv, RowTypeOK
  <2>4. BadgeInv'
    BY <1>t, <1>l, <2>2, <2>3, NotedKeeps
  <2> QED BY <2>1, <2>4 DEF ActivityInv
<1>6. ASSUME NEW i \in Inserts, InsertFails(i) PROVE ActivityInv'
  <2>1. UNCHANGED <<badgeVars, ledger, earnedOnce>>
    BY <1>6 DEF InsertFails
  <2> QED BY <1>t, <1>b, <1>6, <2>1, EndsKeeps DEF ActivityInv
<1>7. CASE NextDay \/ ClearViewed
  <2>1. UNCHANGED <<badgeVars, ledger, earnedOnce>> /\ UNCHANGED <<calls, projects, ledger, insert, overlapped>>
        /\ ((Forgets /\ UNCHANGED today) \/ NextDay)
    BY <1>7 DEF NextDay, ClearViewed
  <2> QED BY <1>t, <1>b, <2>1, ForgetsKeeps DEF ActivityInv
<1>8. CASE Prune
  <2>1. PICK old : ledger' = [r \in Rows |-> IF r \in old THEN 0 ELSE ledger[r]]
    BY ZenonT(30), <1>8 DEF Prune
  <2>2. /\ ledger' \in [Rows -> Nat]
        /\ \A r \in Rows : ledger'[r] = 0 \/ ledger'[r] = ledger[r]
        /\ \A r \in Rows : ledger'[r] > 0 => ledger[r] > 0
    BY <1>l, <2>1
  <2>3. UNCHANGED <<calls, today, projects, insert, viewed, overlapped, blurred, badgeVars, earnedOnce>>
    BY <1>8 DEF Prune
  <2>4. LedgerInv'
    BY <1>t, <2>2, <2>3, GoesKeeps
  <2>5. BadgeInv'
    BY <1>t, <1>l, <2>2, <2>3, NotedKeeps
  <2> QED BY <2>4, <2>5 DEF ActivityInv
<1>9. ASSUME NEW p \in Projects, ProjectGone(p) PROVE ActivityInv'
  <2>1. /\ ledger' = [r \in Rows |-> IF r.project = p THEN 0
                        ELSE IF r.project = NoProject
                        THEN ledger[r] + ledger[[r EXCEPT !.project = p]] ELSE ledger[r]]
        /\ projects' \subseteq projects
        /\ UNCHANGED <<calls, today, insert, viewed, overlapped, blurred, badgeVars, earnedOnce>>
    BY <1>9 DEF ProjectGone
  <2>2. ASSUME NEW r \in Rows
        PROVE  /\ ledger'[r] \in Nat
               /\ r.project # NoProject => ledger'[r] = 0 \/ ledger'[r] = ledger[r]
               /\ ledger'[r] > 0 =>
                    \/ ledger[r] > 0
                    \/ r.project = NoProject
                       /\ \E q \in Rows : ledger[q] > 0 /\ q.actor = r.actor /\ q.day = r.day
    <3> DEFINE q == [r EXCEPT !.project = p]
    <3>1. q \in Rows /\ q.actor = r.actor /\ q.day = r.day
      BY DEF Rows
    <3>2. ledger'[r] = IF r.project = p THEN 0
                       ELSE IF r.project = NoProject THEN ledger[r] + ledger[q] ELSE ledger[r]
      BY <2>1
    <3> HIDE DEF q
    <3>3. ledger[r] \in Nat /\ ledger[q] \in Nat
      BY <1>l, <3>1
    <3>4. ledger'[r] > 0 /\ ~ (ledger[r] > 0) => r.project = NoProject /\ ledger[q] > 0
      BY <3>2, <3>3
    <3> QED BY <3>1, <3>2, <3>3, <3>4
  <2>3. ledger' \in [Rows -> Nat]
    BY <2>1, <2>2
  <2>4. LedgerInv'
    BY <1>t, <2>1, <2>2, <2>3, GoesKeeps
  <2>5. BadgeInv'
    BY <1>t, <1>l, <2>1, <2>2, <2>3, NotedKeeps
  <2> QED BY <2>4, <2>5 DEF ActivityInv
<1>10. CASE RestartLedger
  <2>1. LedgerInv'
    BY <1>t, <1>10, ForgetsKeeps DEF RestartLedger
  <2>2. /\ reconcile' = [u \in Residents |-> NoReconcile] /\ lately' = {}
        /\ UNCHANGED <<ledger, award, toasts, earnedOnce>>
    BY <1>10 DEF RestartLedger
  <2>3. BadgeTypeOK' /\ \A u \in Residents : reconcile'[u].earned = {}
    BY <1>t, <2>2, TypeOfNoInsert DEF BadgeTypeOK
  <2>4. \A u \in Residents, b \in Badges : EarnedIn(ledger, u, b)' => <<u, b>> \in earnedOnce'
    BY <1>t, <2>2 DEF BadgeInv, EarnedIn, ActiveDays, InterDistinct, Mine
  <2>5. \A u \in Residents, b \in Badges :
          /\ award'[u][b] # "none" => <<u, b>> \in earnedOnce'
          /\ toasts'[u][b] = IF award'[u][b] = "notified" THEN 1 ELSE 0
    BY <1>t, <2>2 DEF BadgeInv
  <2> QED BY <2>1, <2>3, <2>4, <2>5 DEF ActivityInv, BadgeInv
\* The badges of one resident.
<1>c. /\ reconcile \in [Residents -> Reconciling] /\ lately \in SUBSET Residents
      /\ award \in [Residents -> [Badges -> {"none", "pending", "notified"}]]
      /\ toasts \in [Residents -> [Badges -> Nat]]
      /\ \A u \in Residents, b \in Badges :
           /\ EarnedIn(ledger, u, b) => <<u, b>> \in earnedOnce
           /\ b \in reconcile[u].earned => <<u, b>> \in earnedOnce
           /\ award[u][b] # "none" => <<u, b>> \in earnedOnce
           /\ toasts[u][b] = IF award[u][b] = "notified" THEN 1 ELSE 0
  BY <1>t DEF BadgeInv, BadgeTypeOK
<1>11. ASSUME NEW u \in Residents, Reconcile(u) PROVE ActivityInv'
  <2> DEFINE q == [on |-> TRUE, unread |-> Badges, earned |-> {}]
  <2>1. /\ reconcile' = [reconcile EXCEPT ![u] = q] /\ lately' = lately \cup {u}
        /\ UNCHANGED <<award, toasts, earnedOnce>> /\ UNCHANGED rowVars
    BY <1>11 DEF Reconcile
  <2>2. q \in Reconciling /\ q.earned = {}
    BY DEF Reconciling
  <2>3. ledger' = ledger
    BY <2>1 DEF rowVars
  <2> HIDE DEF q
  <2>4. reconcile' \in [Residents -> Reconciling] /\ reconcile'[u].earned = {}
        /\ \A v \in Residents \ {u} : reconcile'[v] = reconcile[v]
    BY <1>c, <2>1, <2>2
  <2>5. BadgeInv'
    BY ZenonT(30), <1>t, <1>l, <1>c, <2>1, <2>3, <2>4, BadgesKeep
  <2> QED BY <1>r, <2>1, <2>5 DEF ActivityInv
<1>12. ASSUME NEW u \in Residents, Cooled(u) PROVE ActivityInv'
  <2>1. lately' \in SUBSET Residents /\ UNCHANGED <<reconcile, award, toasts, earnedOnce>> /\ UNCHANGED rowVars
    BY <1>c, <1>12 DEF Cooled
  <2>2. ledger' = ledger
    BY <2>1 DEF rowVars
  <2>3. BadgeInv'
    BY <1>t, <1>l, <1>c, <2>1, <2>2, BadgesKeep
  <2> QED BY <1>r, <2>1, <2>3 DEF ActivityInv
<1>13. ASSUME NEW u \in Residents, NEW b \in Badges, Query(u, b) PROVE ActivityInv'
  <2> DEFINE e == IF EarnedIn(ledger, u, b) THEN reconcile[u].earned \cup {b} ELSE reconcile[u].earned
             q == [reconcile[u] EXCEPT !.unread = reconcile[u].unread \ {b}, !.earned = e]
  <2>1. /\ reconcile' = [reconcile EXCEPT ![u] = q]
        /\ UNCHANGED <<lately, award, toasts, earnedOnce>> /\ UNCHANGED rowVars
    <3>1. reconcile[u] \in Reconciling
      BY <1>c
    <3> QED BY <1>13, <3>1 DEF Query, Reconciling
  <2>2. e \subseteq Badges /\ \A d \in Badges : d \in e => <<u, d>> \in earnedOnce
    <3>1. reconcile[u].earned \subseteq Badges
      BY <1>c DEF Reconciling
    <3> QED BY <1>c, <3>1
  <2> HIDE DEF e
  <2>3. q \in Reconciling /\ q.earned = e
    BY <1>c, <2>2 DEF Reconciling
  <2>4. ledger' = ledger
    BY <2>1 DEF rowVars
  <2> HIDE DEF q
  <2>5. reconcile' \in [Residents -> Reconciling] /\ reconcile'[u] = q
        /\ \A v \in Residents \ {u} : reconcile'[v] = reconcile[v]
    BY <1>c, <2>1, <2>3
  <2>6. BadgeInv'
    BY <1>t, <1>l, <1>c, <2>1, <2>2, <2>3, <2>4, <2>5, BadgesKeep
  <2> QED BY <1>r, <2>1, <2>6 DEF ActivityInv
<1>14. ASSUME NEW u \in Residents, Upsert(u) PROVE ActivityInv'
  <2> DEFINE a == [b \in Badges |-> IF b \in reconcile[u].earned THEN Awarded(award[u][b]) ELSE award[u][b]]
  <2>1. /\ award' = [award EXCEPT ![u] = a] \/ award' = award
        /\ reconcile' = [reconcile EXCEPT ![u] = NoReconcile]
        /\ UNCHANGED <<lately, toasts, earnedOnce>> /\ UNCHANGED rowVars
    BY <1>14 DEF Upsert
  <2>2. /\ a \in [Badges -> {"none", "pending", "notified"}]
        /\ \A b \in Badges : /\ a[b] # "none" => <<u, b>> \in earnedOnce
                             /\ a[b] = "notified" <=> award[u][b] = "notified"
    BY <1>c DEF Awarded
  <2> HIDE DEF a
  <2>3. /\ award' \in [Residents -> [Badges -> {"none", "pending", "notified"}]]
        /\ \A v \in Residents \ {u} : award'[v] = award[v]
        /\ award'[u] = a \/ award'[u] = award[u]
    BY <1>c, <2>1, <2>2
  <2>4. reconcile' \in [Residents -> Reconciling] /\ reconcile'[u].earned = {}
        /\ \A v \in Residents \ {u} : reconcile'[v] = reconcile[v]
    BY <1>c, <2>1, TypeOfNoInsert
  <2>5. ledger' = ledger
    BY <2>1 DEF rowVars
  <2>6. \A b \in Badges : /\ award'[u][b] # "none" => <<u, b>> \in earnedOnce
                          /\ toasts'[u][b] = IF award'[u][b] = "notified" THEN 1 ELSE 0
    BY <1>c, <2>1, <2>2, <2>3
  <2>7. BadgeInv'
    BY <1>t, <1>l, <1>c, <2>1, <2>3, <2>4, <2>5, <2>6, BadgesKeep
  <2> QED BY <1>r, <2>1, <2>7 DEF ActivityInv
<1>15. ASSUME NEW u \in Residents, Toast(u) PROVE ActivityInv'
  <2> DEFINE pending == {b \in Badges : award[u][b] = "pending"}
             a == [b \in Badges |-> IF b \in pending THEN "notified" ELSE award[u][b]]
             n == [b \in Badges |-> IF b \in pending THEN toasts[u][b] + 1 ELSE toasts[u][b]]
  <2>1. /\ award' = [award EXCEPT ![u] = a] /\ toasts' = [toasts EXCEPT ![u] = n]
        /\ UNCHANGED <<reconcile, lately, earnedOnce>> /\ UNCHANGED rowVars
    BY <1>15 DEF Toast
  <2>2. \A b \in Badges : award[u][b] \in {"none", "pending", "notified"} /\ toasts[u][b] \in Nat
    BY <1>c
  <2>3. /\ a \in [Badges -> {"none", "pending", "notified"}] /\ n \in [Badges -> Nat]
        /\ \A b \in Badges : /\ a[b] # "none" => <<u, b>> \in earnedOnce
                             /\ n[b] = IF a[b] = "notified" THEN 1 ELSE 0
    BY <1>c, <2>2
  <2> HIDE DEF a, n
  <2>4. /\ award' \in [Residents -> [Badges -> {"none", "pending", "notified"}]]
        /\ toasts' \in [Residents -> [Badges -> Nat]]
        /\ award'[u] = a /\ toasts'[u] = n
        /\ \A v \in Residents \ {u} : award'[v] = award[v] /\ toasts'[v] = toasts[v]
    BY <1>c, <2>1, <2>3
  <2>5. ledger' = ledger
    BY <2>1 DEF rowVars
  <2>6. BadgeInv'
    BY <1>t, <1>l, <1>c, <2>1, <2>3, <2>4, <2>5, BadgesKeep
  <2> QED BY <1>r, <2>1, <2>6 DEF ActivityInv
<1> QED BY <1>1, <1>2, <1>3, <1>4, <1>5, <1>6, <1>7, <1>8, <1>9, <1>10, <1>11, <1>12, <1>13,
           <1>14, <1>15 DEF ActivityNext

\* recordActivity's NOT EXISTS, the memory of markViewed, awardBadge and takePendingToasts, in
\* whatever order they run and whatever is pruned or deleted meanwhile.
THEOREM OneOfEach == ActivitySpec => []OnceEach
<1>1. ActivityInv => OnceEach
  <2> SUFFICES ASSUME ActivityInv PROVE OnceEach
    OBVIOUS
  <2>1. ActivityTypeOK
    BY DEF ActivityInv, LedgerInv, BadgeInv, RowTypeOK, BadgeTypeOK, ActivityTypeOK
  <2>2. \A r \in Rows :
          /\ r.kind \in DayCappedKinds /\ r.project # NoProject /\ ledger[r] > 1 => r \in overlapped
          /\ r.kind = "project_view" /\ r \in overlapped => r.day \in blurred
    BY DEF ActivityInv, LedgerInv
  <2>3. \A u \in Residents, b \in Badges :
          /\ award[u][b] # "none" => <<u, b>> \in earnedOnce
          /\ toasts[u][b] = IF award[u][b] = "notified" THEN 1 ELSE 0
    BY DEF ActivityInv, BadgeInv
  <2>4. ASSUME NEW u \in Residents, NEW b \in Badges PROVE toasts[u][b] <= 1
    <3>1. toasts[u][b] = 1 \/ toasts[u][b] = 0
      BY <2>3
    <3> QED BY <3>1
  <2> QED BY <2>1, <2>2, <2>3, <2>4 DEF OnceEach
<1> QED BY <1>1, ActivityInitially, ActivityStep, PTL DEF ActivitySpec

-----------------------------------------------------------------------------
(* The audiences of the clients (ClientAudiences).                         *)

\* What two lists have in common, and what the code promises to keep: the audiences of which
\* there was always a project.
Lasting == Audiences \ absent
Listed(c, a) == allow[c][a] > 0

\* What an authorization knows of its client's list.
FacadeOK(f) ==
  LET c == facade[f].client IN
  /\ facade[f].pc # "idle" => c \in Clients /\ facade[f].aud \in Audiences
  /\ facade[f].pc \in {"append", "seed", "ask", "set"} => life[c] # "new"
  /\ facade[f].pc \in {"memo", "read", "seed"} => facade[f].seen = EmptyBag
  /\ facade[f].pc \in {"seed", "ask"} /\ ~ facade[f].stale =>
       \A a \in Lasting : Listed(c, a) => facade[f].seen[a] > 0
  /\ facade[f].pc = "set" /\ c \notin raced /\ facade[f].aud \in Lasting => Listed(c, facade[f].aud)

\* What an update of a registration knows: with the list read, whatever was allowed is in
\* what it will write; without, nothing is remembered of the client.
EditOK(e) ==
  LET c == edit[e].client IN
  /\ edit[e].op # "idle" => c \in Clients
  /\ edit[e].op = "delete" => ~ edit[e].merged
  /\ edit[e].op = "put" /\ edit[e].merged => life[c] # "new"
  /\ edit[e].op # "idle" /\ ~ edit[e].stale =>
       IF edit[e].merged THEN \A a \in Audiences : Listed(c, a) => a \in edit[e].list
       ELSE \A a \in Audiences : <<c, a>> \notin memo

ListInv ==
  /\ MemoTrue
  /\ Slugs \ exists \subseteq absent
  /\ \A c \in Clients, a \in Audiences : life[c] = "new" => <<c, a>> \notin memo
  /\ \A f \in Facades : FacadeOK(f)
  /\ \A e \in Edits : EditOK(e)

LEMMA TypeOfNoList ==
  /\ NoFacade \in Facade /\ NoFacade.pc = "idle" /\ NoFacade.seen = EmptyBag /\ ~ NoFacade.stale
  /\ NoFacade.client = Nobody /\ NoFacade.ask = {}
  /\ NoEdit \in Edit /\ NoEdit.op = "idle" /\ ~ NoEdit.merged /\ NoEdit.client = Nobody
  /\ EmptyBag \in Bag
<1>1. EmptyBag \in Bag
  BY DEF EmptyBag, Bag
<1> QED BY <1>1 DEF NoFacade, Facade, NoEdit, Edit

LEMMA ListInitially == ListInit => ListInv
<1> SUFFICES ASSUME ListInit PROVE ListInv
  OBVIOUS
<1>1. ListTypeOK
  BY TypeOfNoList DEF ListInit, ListTypeOK
<1>2. (\A f \in Facades : facade[f].pc = "idle") /\ \A e \in Edits : edit[e].op = "idle"
  BY TypeOfNoList DEF ListInit
<1> QED BY <1>1, <1>2 DEF ListInit, ListInv, MemoTrue, FacadeOK, EditOK

\* One authorization goes on, and nobody else is the wiser.
LEMMA OneFacade ==
  ASSUME ListInv, NEW f \in Facades, NEW q \in Facade, facade' = [facade EXCEPT ![f] = q],
         UNCHANGED <<exists, life, allow, memo, edit, raced, absent>>,
         q.pc # "idle" => q.client \in Clients /\ q.aud \in Audiences,
         q.pc \in {"append", "seed", "ask", "set"} => life[q.client] # "new",
         q.pc \in {"memo", "read", "seed"} => q.seen = EmptyBag,
         q.pc \in {"seed", "ask"} /\ ~ q.stale =>
           \A a \in Lasting : Listed(q.client, a) => q.seen[a] > 0,
         q.pc = "set" /\ q.client \notin raced /\ q.aud \in Lasting => Listed(q.client, q.aud)
  PROVE  ListInv'
<1>t. ListTypeOK /\ MemoTrue /\ facade \in [Facades -> Facade]
  BY DEF ListInv, MemoTrue, ListTypeOK
<1>1. facade'[f] = q /\ \A g \in Facades \ {f} : facade'[g] = facade[g]
  BY <1>t
<1>2. facade' \in [Facades -> Facade]
  BY <1>t
<1>3. MemoTrue'
  BY <1>t, <1>2 DEF MemoTrue, ListTypeOK
<1>4. FacadeOK(f)'
  BY <1>1 DEF FacadeOK, Lasting, Listed
<1>5. ASSUME NEW g \in Facades \ {f} PROVE FacadeOK(g)'
  <2>1. FacadeOK(g)
    BY DEF ListInv
  <2> QED BY <1>1, <2>1 DEF FacadeOK, Lasting, Listed
<1>6. ASSUME NEW e \in Edits PROVE EditOK(e)'
  <2>1. EditOK(e)
    BY DEF ListInv
  <2> QED BY <2>1 DEF EditOK, Listed
<1> QED BY <1>3, <1>4, <1>5, <1>6 DEF ListInv

LEMMA FacadeStep ==
  ASSUME ListInv, NEW f \in Facades,
         \/ \E c \in Clients, resources \in ResourceLists : Authorize(f, c, resources)
         \/ Recall(f) \/ Read(f) \/ FacadeFails(f)
         \/ \E a \in Audiences : AskStale(f, a)
  PROVE  ListInv'
<1> DEFINE d == facade[f]
           c == d.client
<1>t. /\ facade \in [Facades -> Facade] /\ allow \in [Clients -> Bag] /\ d \in Facade
      /\ exists \in SUBSET Slugs /\ Slugs \ exists \subseteq absent
  BY DEF ListInv, MemoTrue, ListTypeOK
<1>k. FacadeOK(f)
  BY DEF ListInv
<1>n. ASSUME facade' = [facade EXCEPT ![f] = NoFacade],
             UNCHANGED <<exists, life, allow, memo, edit, raced, absent>>
      PROVE  ListInv'
  BY <1>n, TypeOfNoList, OneFacade
<1>1. ASSUME NEW k \in Clients, NEW resources \in ResourceLists, Authorize(f, k, resources)
      PROVE  ListInv'
  <2>1. Select(resources) \in Audiences
    <3>1. Select(resources) # Unknown /\ resources \in Seq(Slugs \cup {Platform, Malformed})
      BY <1>1, ClientAudiencesAssumption DEF Authorize
    <3>2. CASE resources = <<>>
      BY <3>2 DEF Select, Audiences
    <3>3. CASE resources # <<>>
      <4>1. ~ (Len(resources) > 1 \/ resources[1] = Malformed) /\ Select(resources) = resources[1]
        BY <3>1, <3>3 DEF Select
      <4>2. resources[1] \in Slugs \cup {Platform, Malformed}
        BY <3>1, <3>3
      <4> QED BY <4>1, <4>2 DEF Audiences
    <3> QED BY <3>2, <3>3
  <2> DEFINE q == [NoFacade EXCEPT !.pc = "memo", !.client = k, !.aud = Select(resources)]
  <2>2. /\ facade' = [facade EXCEPT ![f] = q]
        /\ UNCHANGED <<exists, life, allow, memo, edit, raced, absent>>
    BY <1>1 DEF Authorize
  <2>3. /\ q \in Facade /\ q.pc = "memo" /\ q.client = k /\ q.aud \in Audiences /\ q.seen = EmptyBag
    BY <2>1, TypeOfNoList DEF Facade, NoFacade
  <2> HIDE DEF q
  <2> QED BY <2>2, <2>3, OneFacade
<1>2. CASE Recall(f)
  <2> DEFINE q == [d EXCEPT !.pc = "read"]
  <2>1. /\ d.pc = "memo" /\ UNCHANGED <<exists, life, allow, memo, edit, raced, absent>>
        /\ \/ facade' = [facade EXCEPT ![f] = NoFacade]
           \/ facade' = [facade EXCEPT ![f] = q]
    BY <1>t, <1>2 DEF Recall
  <2>2. /\ q \in Facade /\ q.pc = "read" /\ q.client = c /\ q.aud = d.aud /\ q.seen = d.seen
    BY <1>t DEF Facade
  <2> HIDE DEF q
  <2>3. c \in Clients /\ d.aud \in Audiences /\ d.seen = EmptyBag
    BY <1>k, <2>1 DEF FacadeOK
  <2>4. CASE facade' = [facade EXCEPT ![f] = q]
    BY <2>1, <2>2, <2>3, <2>4, OneFacade
  <2> QED BY <1>n, <2>1, <2>4
<1>3. CASE Read(f)
  <2>1. d.pc = "read" /\ life[c] = "live" /\ UNCHANGED <<exists, life, allow, memo, edit, raced, absent>>
    BY <1>3 DEF Read
  <2>2. c \in Clients /\ d.aud \in Audiences /\ d.seen = EmptyBag /\ allow[c] \in Bag
    BY <1>k, <1>t, <2>1 DEF FacadeOK
  <2>3. CASE /\ d.aud \in In(allow[c])
             /\ facade' = [facade EXCEPT ![f] = [d EXCEPT !.pc = "set"]]
    <3> DEFINE q == [d EXCEPT !.pc = "set"]
    <3>1. q \in Facade /\ q.pc = "set" /\ q.client = c /\ q.aud = d.aud
      BY <1>t DEF Facade
    <3>2. facade' = [facade EXCEPT ![f] = q] /\ Listed(c, d.aud)
      BY <2>3 DEF In, Listed
    <3> HIDE DEF q
    <3> QED BY <2>1, <2>2, <3>1, <3>2, OneFacade
  <2>4. CASE facade' = [facade EXCEPT ![f] = [d EXCEPT !.pc = "ask", !.seen = allow[c], !.ask = In(allow[c])]]
    <3> DEFINE q == [d EXCEPT !.pc = "ask", !.seen = allow[c], !.ask = In(allow[c])]
    <3>1. q \in Facade /\ q.pc = "ask" /\ q.client = c /\ q.aud = d.aud /\ q.seen = allow[c]
      BY <1>t, <2>2 DEF Facade, In
    <3>2. facade' = [facade EXCEPT ![f] = q]
      BY <2>4
    <3> HIDE DEF q
    <3> QED BY <2>1, <2>2, <3>1, <3>2, OneFacade DEF Listed
  <2>5. CASE /\ allow[c] = EmptyBag
             /\ facade' = [facade EXCEPT ![f] = [d EXCEPT !.pc = "seed"]]
    <3> DEFINE q == [d EXCEPT !.pc = "seed"]
    <3>1. q \in Facade /\ q.pc = "seed" /\ q.client = c /\ q.aud = d.aud /\ q.seen = EmptyBag
      BY <1>t, <2>2 DEF Facade
    <3>2. facade' = [facade EXCEPT ![f] = q] /\ \A a \in Audiences : ~ Listed(c, a)
      BY <2>5 DEF Listed, EmptyBag
    <3> HIDE DEF q
    <3> QED BY <2>1, <2>2, <3>1, <3>2, OneFacade DEF Lasting
  <2>6. CASE facade' = [facade EXCEPT ![f] = [d EXCEPT !.pc = "append"]]
    <3> DEFINE q == [d EXCEPT !.pc = "append"]
    <3>1. q \in Facade /\ q.pc = "append" /\ q.client = c /\ q.aud = d.aud
      BY <1>t DEF Facade
    <3>2. facade' = [facade EXCEPT ![f] = q]
      BY <2>6
    <3> HIDE DEF q
    <3> QED BY <2>1, <2>2, <3>1, <3>2, OneFacade
  <2> QED BY <1>t, <1>3, <2>3, <2>4, <2>5, <2>6 DEF Read
<1>4. CASE FacadeFails(f)
  BY <1>n, <1>4 DEF FacadeFails
<1>5. ASSUME NEW a \in Audiences, AskStale(f, a) PROVE ListInv'
  <2> DEFINE gone == a \in Slugs \ exists
             kept == [d.seen EXCEPT ![a] = IF gone THEN 0 ELSE d.seen[a]]
  <2>1. d.pc = "ask" /\ UNCHANGED <<exists, life, allow, memo, edit, raced, absent>>
    BY <1>5 DEF AskStale
  <2>2. kept \in Bag /\ \A x \in Lasting : kept[x] = d.seen[x]
    <3>1. d.seen \in Bag
      BY <1>t DEF Facade
    <3>2. ~ gone \/ a \in absent
      BY <1>t
    <3> QED BY <3>1, <3>2 DEF Bag, Lasting
  <2>3. /\ c \in Clients /\ d.aud \in Audiences /\ life[c] # "new"
        /\ ~ d.stale => \A x \in Lasting : Listed(c, x) => d.seen[x] > 0
    BY <1>k, <2>1 DEF FacadeOK
  <2>4. \/ facade' = [facade EXCEPT ![f] = NoFacade]
        \/ \E left \in SUBSET Audiences :
             facade' = [facade EXCEPT ![f] = [d EXCEPT !.seen = kept, !.ask = left]]
    <3>1. d.ask \ {a} \in SUBSET Audiences
      BY <1>t DEF Facade
    <3> QED BY <1>t, <1>5, <3>1 DEF AskStale
  <2> HIDE DEF kept
  <2>5. ASSUME NEW left \in SUBSET Audiences,
               facade' = [facade EXCEPT ![f] = [d EXCEPT !.seen = kept, !.ask = left]]
        PROVE  ListInv'
    <3> DEFINE q == [d EXCEPT !.seen = kept, !.ask = left]
    <3>1. /\ q \in Facade /\ q.pc = "ask" /\ q.client = c /\ q.aud = d.aud /\ q.seen = kept
          /\ q.stale = d.stale
      BY <1>t, <2>1, <2>2 DEF Facade
    <3>2. facade' = [facade EXCEPT ![f] = q]
      BY <2>5
    <3>3. ~ q.stale => \A x \in Lasting : Listed(c, x) => q.seen[x] > 0
      BY <2>2, <2>3, <3>1
    <3> HIDE DEF q
    <3> QED BY <2>1, <2>3, <3>1, <3>2, <3>3, OneFacade
  <2> QED BY <1>n, <2>1, <2>4, <2>5
<1> QED BY <1>1, <1>2, <1>3, <1>4, <1>5

\* What somebody else's writing leaves of the others.
LEMMA Outdated ==
  ASSUME NEW F \in [Facades -> Facade], NEW E \in [Edits -> Edit], NEW c
  PROVE  /\ OutdatedFacades(F, c) \in [Facades -> Facade]
         /\ \A g \in Facades :
              LET r == OutdatedFacades(F, c)[g] IN
              /\ r.pc = F[g].pc /\ r.client = F[g].client /\ r.aud = F[g].aud /\ r.seen = F[g].seen
              /\ F[g].client = c /\ F[g].pc \in {"seed", "ask"} => r.stale
              /\ F[g].client # c => r = F[g]
         /\ OutdatedEdits(E, c) \in [Edits -> Edit]
         /\ \A e \in Edits :
              LET r == OutdatedEdits(E, c)[e] IN
              /\ r.op = E[e].op /\ r.client = E[e].client /\ r.list = E[e].list
              /\ r.merged = E[e].merged
              /\ E[e].client = c => r.stale
              /\ E[e].client # c => r = E[e]
<1>1. ASSUME NEW g \in Facades
      PROVE  LET r == OutdatedFacades(F, c)[g] IN
             /\ r \in Facade
             /\ r.pc = F[g].pc /\ r.client = F[g].client /\ r.aud = F[g].aud /\ r.seen = F[g].seen
             /\ F[g].client = c /\ F[g].pc \in {"seed", "ask"} => r.stale
             /\ F[g].client # c => r = F[g]
  <2>1. /\ F[g] \in Facade
        /\ OutdatedFacades(F, c)[g] =
             IF F[g].client = c /\ F[g].pc \in {"seed", "ask"} THEN [F[g] EXCEPT !.stale = TRUE] ELSE F[g]
    BY DEF OutdatedFacades
  <2> QED BY <2>1 DEF Facade
<1>2. ASSUME NEW e \in Edits
      PROVE  LET r == OutdatedEdits(E, c)[e] IN
             /\ r \in Edit
             /\ r.op = E[e].op /\ r.client = E[e].client /\ r.list = E[e].list
             /\ r.merged = E[e].merged
             /\ E[e].client = c => r.stale
             /\ E[e].client # c => r = E[e]
  <2>1. /\ E[e] \in Edit
        /\ OutdatedEdits(E, c)[e] = IF E[e].client = c THEN [E[e] EXCEPT !.stale = TRUE] ELSE E[e]
    BY DEF OutdatedEdits
  <2> QED BY <2>1 DEF Edit
<1>3. OutdatedFacades(F, c) \in [Facades -> Facade]
  BY <1>1 DEF OutdatedFacades
<1>4. OutdatedEdits(E, c) \in [Edits -> Edit]
  BY <1>2 DEF OutdatedEdits
<1> QED BY <1>1, <1>2, <1>3, <1>4

\* A client's list is written anew.  Unless the writing is noted as a race, what is
\* remembered of it, or about to be, stands in the new one.
LEMMA Rewritten ==
  ASSUME ListInv, NEW c \in Clients, NEW n \in Bag, allow' = [allow EXCEPT ![c] = n],
         raced \subseteq raced', raced' \subseteq raced \cup {c},
         UNCHANGED <<exists, memo, absent>>,
         life' \in [Clients -> {"new", "live", "gone"}], life'[c] # "new",
         \A k \in Clients \ {c} : life'[k] = life[k],
         NEW F \in [Facades -> Facade], NEW E \in [Edits -> Edit],
         facade' = OutdatedFacades(F, c), edit' = OutdatedEdits(E, c),
         \A g \in Facades :
           \/ F[g] = facade[g]
           \/ F[g].pc = "set" /\ F[g].client = c /\ F[g].aud \in Audiences /\ n[F[g].aud] > 0,
         \A e \in Edits : E[e] = edit[e] \/ E[e].op = "idle",
         c \notin raced' =>
           \A a \in Lasting : Listed(c, a) /\ (<<c, a>> \in memo \/ Remembering(c)) => n[a] > 0
  PROVE  ListInv'
<1>t. /\ ListTypeOK /\ MemoTrue /\ allow \in [Clients -> Bag] /\ raced \in SUBSET Clients
      /\ Slugs \ exists \subseteq absent
      /\ \A k \in Clients, a \in Audiences : life[k] = "new" => <<k, a>> \notin memo
  BY DEF ListInv, MemoTrue, ListTypeOK
<1>1. allow' \in [Clients -> Bag] /\ allow'[c] = n /\ \A k \in Clients \ {c} : allow'[k] = allow[k]
  BY <1>t
<1>2. \A k \in Clients \ {c} : k \in raced' <=> k \in raced
  OBVIOUS
<1>3. /\ facade' \in [Facades -> Facade]
      /\ \A g \in Facades :
           /\ facade'[g].pc = F[g].pc /\ facade'[g].client = F[g].client
           /\ facade'[g].aud = F[g].aud /\ facade'[g].seen = F[g].seen
           /\ F[g].client = c /\ F[g].pc \in {"seed", "ask"} => facade'[g].stale
           /\ F[g].client # c => facade'[g] = F[g]
      /\ edit' \in [Edits -> Edit]
      /\ \A e \in Edits :
           /\ edit'[e].op = E[e].op /\ edit'[e].client = E[e].client /\ edit'[e].list = E[e].list
           /\ edit'[e].merged = E[e].merged
           /\ E[e].client = c => edit'[e].stale
           /\ E[e].client # c => edit'[e] = E[e]
  BY Outdated
<1>4. ListTypeOK'
  BY <1>t, <1>1, <1>3 DEF ListTypeOK
<1>5. MemoTrue'
  <2> SUFFICES ASSUME NEW k \in Clients, NEW a \in Audiences, <<k, a>> \in memo, k \notin raced', a \notin absent
               PROVE  allow'[k][a] > 0
    BY <1>4 DEF MemoTrue
  <2>1. allow[k][a] > 0
    BY <1>t DEF MemoTrue
  <2>2. CASE k = c
    BY <1>1, <2>1, <2>2 DEF Lasting, Listed
  <2>3. CASE k # c
    BY <1>1, <2>1, <2>3
  <2> QED BY <2>2, <2>3
<1>6. \A k \in Clients, a \in Audiences : life'[k] = "new" => <<k, a>> \notin memo'
  BY <1>t
<1>7. ASSUME NEW g \in Facades PROVE FacadeOK(g)'
  <2>1. FacadeOK(g)
    BY DEF ListInv
  <2>2. CASE F[g] # facade[g]
    <3>1. /\ facade'[g].pc = "set" /\ facade'[g].client = c /\ facade'[g].aud \in Audiences
          /\ n[facade'[g].aud] > 0
      BY <1>3, <2>2
    <3> QED BY <1>1, <3>1 DEF FacadeOK, Listed
  <2>3. CASE F[g] = facade[g] /\ facade[g].client = c
    <3>1. /\ facade'[g].pc = facade[g].pc /\ facade'[g].client = c
          /\ facade'[g].aud = facade[g].aud /\ facade'[g].seen = facade[g].seen
          /\ facade'[g].pc \in {"seed", "ask"} => facade'[g].stale
      BY <1>3, <2>3
    <3>2. facade[g].pc = "set" => Remembering(c)
      BY <2>3 DEF Remembering
    <3>3. facade'[g].pc = "set" /\ c \notin raced' /\ facade'[g].aud \in Lasting
            => n[facade'[g].aud] > 0
      BY <2>1, <2>3, <3>1, <3>2 DEF FacadeOK
    <3> QED BY <1>1, <2>1, <2>3, <3>1, <3>3 DEF FacadeOK, Lasting, Listed
  <2>4. CASE F[g] = facade[g] /\ facade[g].client # c
    <3>1. facade'[g] = facade[g]
      BY <1>3, <2>4
    <3>2. CASE facade[g].pc = "idle"
      BY <3>1, <3>2 DEF FacadeOK
    <3>3. CASE facade[g].pc # "idle"
      <4>1. facade[g].client \in Clients \ {c}
        BY <2>1, <2>4, <3>3 DEF FacadeOK
      <4> QED BY <1>1, <1>2, <2>1, <3>1, <4>1 DEF FacadeOK, Lasting, Listed
    <3> QED BY <3>2, <3>3
  <2> QED BY <2>2, <2>3, <2>4
<1>8. ASSUME NEW e \in Edits PROVE EditOK(e)'
  <2>1. EditOK(e)
    BY DEF ListInv
  <2>2. CASE E[e].op = "idle"
    BY <1>3, <2>2 DEF EditOK
  <2>3. CASE E[e].op # "idle" /\ edit[e].client = c
    BY <1>3, <2>1, <2>3 DEF EditOK
  <2>4. CASE E[e].op # "idle" /\ edit[e].client # c
    <3>1. edit'[e] = edit[e] /\ edit[e].op # "idle"
      BY <1>3, <2>4
    <3>2. edit[e].client \in Clients \ {c}
      BY <2>1, <2>4, <3>1 DEF EditOK
    <3> QED BY <1>1, <2>1, <3>1, <3>2 DEF EditOK, Listed
  <2> QED BY <2>2, <2>3, <2>4
<1> QED BY <1>t, <1>5, <1>6, <1>7, <1>8 DEF ListInv

LEMMA PatchStep ==
  ASSUME ListInv, NEW f \in Facades, Patch(f)
  PROVE  ListInv'
<1> DEFINE d == facade[f]
           c == d.client
           base == IF d.pc = "append" THEN allow[c] ELSE d.seen
           n == OneMore(base, d.aud)
           q == [NoFacade EXCEPT !.pc = "set", !.client = c, !.aud = d.aud]
           F == [facade EXCEPT ![f] = q]
<1>t. /\ facade \in [Facades -> Facade] /\ allow \in [Clients -> Bag] /\ d \in Facade
      /\ edit \in [Edits -> Edit] /\ life \in [Clients -> {"new", "live", "gone"}]
      /\ raced \in SUBSET Clients
  BY DEF ListInv, MemoTrue, ListTypeOK
<1>k. FacadeOK(f)
  BY DEF ListInv
<1>1. d.pc \in {"append", "seed", "ask"} /\ life[c] = "live" /\ UNCHANGED <<exists, life, memo, absent>>
  BY DEF Patch
<1>2. c \in Clients /\ d.aud \in Audiences
  BY <1>k, <1>1 DEF FacadeOK
<1>3. base \in Bag
  BY <1>t, <1>2 DEF Facade
<1>4. n \in Bag /\ n[d.aud] > 0 /\ \A a \in Audiences : base[a] > 0 => n[a] > 0
  <2> HIDE DEF base
  <2>1. base[d.aud] \in Nat
    BY <1>2, <1>3 DEF Bag
  <2> QED BY <1>2, <1>3, <2>1 DEF OneMore, Bag
<1>5. allow' = [allow EXCEPT ![c] = n]
  BY <1>t, <1>1, <1>2 DEF Patch
<1>6. raced' = IF d.pc # "append" /\ d.stale THEN raced \cup {c} ELSE raced
  BY <1>1 DEF Patch
<1>7. facade' = OutdatedFacades(F, c) /\ edit' = OutdatedEdits(edit, c)
  BY DEF Patch
<1>8. q \in Facade /\ q.pc = "set" /\ q.client = c /\ q.aud = d.aud
  BY <1>2, TypeOfNoList DEF Facade, NoFacade
<1>9. ASSUME NEW a \in Lasting, c \notin raced', Listed(c, a) PROVE n[a] > 0
  <2>1. base[a] > 0
    BY <1>k, <1>1, <1>6, <1>9 DEF FacadeOK, Listed
  <2> QED BY <1>4, <2>1 DEF Lasting
<1> HIDE DEF n, q, base
<1>10. F \in [Facades -> Facade] /\ \A g \in Facades : F[g] = IF g = f THEN q ELSE facade[g]
  BY <1>t, <1>8
<1>11. \A g \in Facades :
         \/ F[g] = facade[g]
         \/ F[g].pc = "set" /\ F[g].client = c /\ F[g].aud \in Audiences /\ n[F[g].aud] > 0
  BY <1>2, <1>4, <1>8, <1>10
<1> HIDE DEF F
<1>12. raced \subseteq raced' /\ raced' \subseteq raced \cup {c}
  BY <1>6
<1>13. life' = life /\ life'[c] # "new"
  BY <1>1
<1> QED BY <1>t, <1>1, <1>2, <1>4, <1>5, <1>7, <1>9, <1>10, <1>11, <1>12, <1>13, Rewritten

LEMMA ReplaceStep ==
  ASSUME ListInv, NEW e \in Edits, Replace(e)
  PROVE  ListInv'
<1> DEFINE d == edit[e]
           c == d.client
           n == IF d.op = "put" THEN Once(d.list) ELSE EmptyBag
           E == [edit EXCEPT ![e] = NoEdit]
<1>t. /\ facade \in [Facades -> Facade] /\ allow \in [Clients -> Bag] /\ d \in Edit
      /\ edit \in [Edits -> Edit] /\ life \in [Clients -> {"new", "live", "gone"}]
  BY DEF ListInv, MemoTrue, ListTypeOK
<1>k. EditOK(e)
  BY DEF ListInv
<1>1. d.op \in {"put", "delete"} /\ life[c] = "live" /\ UNCHANGED <<exists, memo, absent>>
  BY DEF Replace
<1>2. c \in Clients
  BY <1>k, <1>1 DEF EditOK
<1>3. /\ allow' = [allow EXCEPT ![c] = n]
      /\ life' = [life EXCEPT ![c] = IF d.op = "put" THEN "live" ELSE "gone"]
      /\ raced' = (IF d.stale \/ (~ d.merged /\ Remembering(c)) THEN raced \cup {c} ELSE raced)
      /\ facade' = OutdatedFacades(facade, c) /\ edit' = OutdatedEdits(E, c)
  BY DEF Replace
<1>4. n \in Bag
  BY TypeOfNoList DEF Once, Bag
<1>5. ASSUME NEW a \in Lasting, c \notin raced', Listed(c, a), <<c, a>> \in memo \/ Remembering(c)
      PROVE  n[a] > 0
  <2>1. ~ d.stale /\ (d.merged \/ ~ Remembering(c)) /\ a \in Audiences
    BY <1>3, <1>5 DEF Lasting
  <2>2. d.merged /\ a \in d.list
    BY <1>k, <1>1, <1>5, <2>1 DEF EditOK
  <2>3. d.op = "put"
    BY <1>k, <1>1, <2>2 DEF EditOK
  <2>4. Once(d.list)[a] = 1
    BY <2>1, <2>2 DEF Once
  <2> QED BY <2>3, <2>4
<1>6. /\ life' \in [Clients -> {"new", "live", "gone"}] /\ life'[c] # "new"
      /\ \A k \in Clients \ {c} : life'[k] = life[k]
  BY <1>t, <1>2, <1>3
<1>7. E \in [Edits -> Edit] /\ \A g \in Edits : E[g] = edit[g] \/ E[g].op = "idle"
  BY <1>t, TypeOfNoList
<1>8. raced \subseteq raced' /\ raced' \subseteq raced \cup {c}
  BY <1>3
<1>9. c \notin raced' =>
        \A a \in Lasting : Listed(c, a) /\ (<<c, a>> \in memo \/ Remembering(c)) => n[a] > 0
  BY <1>5
<1>10. \A g \in Facades :
         \/ facade[g] = facade[g]
         \/ facade[g].pc = "set" /\ facade[g].client = c /\ facade[g].aud \in Audiences
            /\ n[facade[g].aud] > 0
  OBVIOUS
<1>11. /\ allow' = [allow EXCEPT ![c] = n]
       /\ facade' = OutdatedFacades(facade, c) /\ edit' = OutdatedEdits(E, c)
  BY <1>3
<1> HIDE DEF n, E, c
<1> QED BY <1>t, <1>1, <1>2, <1>4, <1>6, <1>7, <1>8, <1>9, <1>10, <1>11, Rewritten

\* What was allowed is remembered, or what was remembered is forgotten.
LEMMA MemoizeStep ==
  ASSUME ListInv, NEW f \in Facades, Memoize(f)
  PROVE  ListInv'
<1> DEFINE d == facade[f]
           c == d.client
<1>t. /\ ListTypeOK /\ MemoTrue /\ facade \in [Facades -> Facade] /\ edit \in [Edits -> Edit]
      /\ memo \in SUBSET (Clients \X Audiences) /\ Slugs \ exists \subseteq absent
      /\ \A k \in Clients, a \in Audiences : life[k] = "new" => <<k, a>> \notin memo
  BY DEF ListInv, MemoTrue, ListTypeOK
<1>k. FacadeOK(f)
  BY DEF ListInv
<1>1. /\ d.pc = "set" /\ facade' = [facade EXCEPT ![f] = NoFacade]
      /\ UNCHANGED <<exists, life, allow, raced, absent>>
  BY DEF Memoize
<1>2. /\ c \in Clients /\ d.aud \in Audiences /\ life[c] # "new"
      /\ c \notin raced /\ d.aud \in Lasting => Listed(c, d.aud)
  BY <1>k, <1>1 DEF FacadeOK
<1>3. /\ memo' \subseteq memo \cup {<<c, d.aud>>}
      /\ edit' \in [Edits -> Edit]
      /\ \A e \in Edits :
           /\ edit'[e].op = edit[e].op /\ edit'[e].client = edit[e].client
           /\ edit'[e].list = edit[e].list /\ edit'[e].merged = edit[e].merged
           /\ edit[e].stale => edit'[e].stale
           /\ memo' # memo /\ edit[e].client = c /\ ~ edit[e].merged => edit'[e].stale
  <2>1. CASE UNCHANGED <<memo, edit>>
    BY <1>t, <2>1
  <2>2. CASE /\ memo' = memo \cup {<<c, d.aud>>}
             /\ edit' = [e \in Edits |-> IF edit[e].client = c /\ ~edit[e].merged
                                         THEN [edit[e] EXCEPT !.stale = TRUE] ELSE edit[e]]
    <3>1. ASSUME NEW e \in Edits
          PROVE  /\ edit'[e] \in Edit
                 /\ edit'[e].op = edit[e].op /\ edit'[e].client = edit[e].client
                 /\ edit'[e].list = edit[e].list /\ edit'[e].merged = edit[e].merged
                 /\ edit[e].stale => edit'[e].stale
                 /\ edit[e].client = c /\ ~ edit[e].merged => edit'[e].stale
      <4>1. /\ edit[e] \in Edit
            /\ edit'[e] = IF edit[e].client = c /\ ~edit[e].merged
                          THEN [edit[e] EXCEPT !.stale = TRUE] ELSE edit[e]
        BY <1>t, <2>2
      <4> QED BY <4>1 DEF Edit
    <3>2. edit' \in [Edits -> Edit]
      BY <2>2, <3>1
    <3> QED BY <2>2, <3>1, <3>2
  <2> QED BY <2>1, <2>2 DEF Memoize
<1>4. memo' \in SUBSET (Clients \X Audiences)
  BY <1>t, <1>2, <1>3
<1>5. facade' \in [Facades -> Facade] /\ \A g \in Facades : facade'[g] = IF g = f THEN NoFacade ELSE facade[g]
  BY <1>t, <1>1, TypeOfNoList
<1>6. ListTypeOK'
  BY <1>t, <1>1, <1>3, <1>4, <1>5 DEF ListTypeOK
<1>7. MemoTrue'
  <2> SUFFICES ASSUME NEW k \in Clients, NEW a \in Audiences, <<k, a>> \in memo', k \notin raced, a \notin absent
               PROVE  allow[k][a] > 0
    BY <1>1, <1>6 DEF MemoTrue
  <2>1. CASE <<k, a>> \in memo
    BY <1>t, <2>1 DEF MemoTrue
  <2>2. CASE k = c /\ a = d.aud
    BY <1>2, <2>2 DEF Lasting, Listed
  <2> QED BY <1>3, <2>1, <2>2
<1>8. \A k \in Clients, a \in Audiences : life'[k] = "new" => <<k, a>> \notin memo'
  BY <1>t, <1>1, <1>2, <1>3
<1>9. ASSUME NEW g \in Facades PROVE FacadeOK(g)'
  <2>1. FacadeOK(g)
    BY DEF ListInv
  <2> QED BY <1>1, <1>5, <2>1, TypeOfNoList DEF FacadeOK, Lasting, Listed
<1>10. ASSUME NEW e \in Edits PROVE EditOK(e)'
  <2>1. EditOK(e)
    BY DEF ListInv
  <2>2. ASSUME edit[e].op # "idle", ~ edit'[e].stale, ~ edit[e].merged, NEW a \in Audiences
        PROVE  <<edit[e].client, a>> \notin memo'
    <3>1. ~ edit[e].stale /\ <<edit[e].client, a>> \notin memo
      BY <1>3, <2>1, <2>2 DEF EditOK
    <3>2. memo' = memo \/ edit[e].client # c
      BY <1>3, <2>2
    <3> QED BY <1>3, <3>1, <3>2
  <2> QED BY <1>1, <1>3, <2>1, <2>2 DEF EditOK, Listed
<1> QED BY <1>t, <1>1, <1>7, <1>8, <1>9, <1>10 DEF ListInv

\* A change of the registration begins: one edit more, and less is remembered.
LEMMA OneEdit ==
  ASSUME ListInv, NEW e \in Edits, NEW q \in Edit, edit' = [edit EXCEPT ![e] = q],
         memo' \subseteq memo, UNCHANGED <<exists, life, allow, facade, raced, absent>>,
         q.op # "idle" => q.client \in Clients,
         q.op = "delete" => ~ q.merged,
         q.op = "put" /\ q.merged => life[q.client] # "new",
         q.op # "idle" /\ ~ q.stale =>
           IF q.merged THEN \A a \in Audiences : Listed(q.client, a) => a \in q.list
           ELSE \A a \in Audiences : <<q.client, a>> \notin memo'
  PROVE  ListInv'
<1>t. /\ ListTypeOK /\ MemoTrue /\ edit \in [Edits -> Edit] /\ memo \in SUBSET (Clients \X Audiences)
  BY DEF ListInv, MemoTrue, ListTypeOK
<1>1. edit'[e] = q /\ edit' \in [Edits -> Edit] /\ \A g \in Edits \ {e} : edit'[g] = edit[g]
  BY <1>t
<1>2. ListTypeOK'
  BY <1>t, <1>1 DEF ListTypeOK
<1>3. MemoTrue'
  BY <1>t, <1>2 DEF MemoTrue
<1>4. ASSUME NEW g \in Facades PROVE FacadeOK(g)'
  <2>1. FacadeOK(g)
    BY DEF ListInv
  <2> QED BY <2>1 DEF FacadeOK, Lasting, Listed
<1>5. ASSUME NEW g \in Edits PROVE EditOK(g)'
  <2>1. CASE g = e
    BY <1>1, <2>1 DEF EditOK, Listed
  <2>2. CASE g # e
    <3>1. EditOK(g) /\ edit'[g] = edit[g]
      BY <1>1, <2>2 DEF ListInv
    <3> QED BY <3>1 DEF EditOK, Listed
  <2> QED BY <2>1, <2>2
<1>6. /\ Slugs \ exists' \subseteq absent'
      /\ \A k \in Clients, a \in Audiences : life'[k] = "new" => <<k, a>> \notin memo'
  BY DEF ListInv
<1> QED BY <1>3, <1>4, <1>5, <1>6 DEF ListInv

LEMMA EditStep ==
  ASSUME ListInv, NEW e \in Edits,
         \/ \E c \in Clients, body \in Bodies : Update(e, c, body)
         \/ \E c \in Clients : Delete(e, c)
         \/ EditFails(e)
  PROVE  ListInv'
<1>t. /\ allow \in [Clients -> Bag] /\ edit \in [Edits -> Edit]
  BY DEF ListInv, MemoTrue, ListTypeOK
<1>m. ASSUME NEW c, memo' = Forget(c)
      PROVE  memo' \subseteq memo /\ \A a \in Audiences : <<c, a>> \notin memo'
  BY <1>m DEF Forget
<1>1. ASSUME NEW c \in Clients, NEW body \in Bodies, Update(e, c, body) PROVE ListInv'
  <2>1. body \subseteq Audiences /\ Platform \in Audiences /\ In(allow[c]) \subseteq Audiences
    BY ClientAudiencesAssumption DEF Audiences, In
  <2>2. memo' = Forget(c) /\ UNCHANGED <<exists, life, allow, facade, raced, absent>>
    BY <1>1 DEF Update
  <2>3. CASE /\ life[c] = "live"
             /\ edit' = [edit EXCEPT ![e] = [NoEdit EXCEPT !.op = "put", !.client = c, !.merged = TRUE,
                                             !.list = body \cup {Platform} \cup In(allow[c])]]
    <3> DEFINE l == body \cup {Platform} \cup In(allow[c])
               q == [NoEdit EXCEPT !.op = "put", !.client = c, !.merged = TRUE, !.list = l]
    <3>1. l \in SUBSET Audiences /\ \A a \in Audiences : Listed(c, a) => a \in l
      BY <2>1 DEF In, Listed
    <3> HIDE DEF l
    <3>2. q \in Edit /\ q.op = "put" /\ q.client = c /\ q.merged /\ q.list = l
      BY <3>1, TypeOfNoList DEF Edit, NoEdit
    <3>3. edit' = [edit EXCEPT ![e] = q]
      BY <2>3 DEF l
    <3> HIDE DEF q
    <3> QED BY <1>m, <2>2, <2>3, <3>1, <3>2, <3>3, OneEdit
  <2>4. CASE edit' = [edit EXCEPT ![e] = [NoEdit EXCEPT !.op = "put", !.client = c,
                                                        !.list = body \cup {Platform}]]
    <3> DEFINE l == body \cup {Platform}
               q == [NoEdit EXCEPT !.op = "put", !.client = c, !.list = l]
    <3>1. l \in SUBSET Audiences
      BY <2>1
    <3> HIDE DEF l
    <3>2. q \in Edit /\ q.op = "put" /\ q.client = c /\ ~ q.merged
      BY <3>1, TypeOfNoList DEF Edit, NoEdit
    <3>3. edit' = [edit EXCEPT ![e] = q]
      BY <2>4 DEF l
    <3> HIDE DEF q
    <3> QED BY <1>m, <2>2, <3>2, <3>3, OneEdit
  <2> QED BY <1>1, <2>3, <2>4 DEF Update
<1>2. ASSUME NEW c \in Clients, Delete(e, c) PROVE ListInv'
  <2> DEFINE q == [NoEdit EXCEPT !.op = "delete", !.client = c]
  <2>1. q \in Edit /\ q.op = "delete" /\ q.client = c /\ ~ q.merged
    BY TypeOfNoList DEF Edit, NoEdit
  <2>2. /\ edit' = [edit EXCEPT ![e] = q]
        /\ memo' = Forget(c) /\ UNCHANGED <<exists, life, allow, facade, raced, absent>>
    BY <1>2 DEF Delete
  <2> HIDE DEF q
  <2> QED BY <1>m, <2>1, <2>2, OneEdit
<1>3. CASE EditFails(e)
  BY <1>3, TypeOfNoList, OneEdit DEF EditFails
<1> QED BY <1>1, <1>2, <1>3

\* Registrations, projects that come and go, the memo's expiry and restarts.
LEMMA RestStep ==
  ASSUME ListInv,
         \/ \E c \in Clients, body \in Bodies : Register(c, body)
         \/ \E c \in Clients, a \in Audiences : Expire(c, a)
         \/ \E s \in Slugs : CreateProject(s) \/ DeleteProject(s)
         \/ RestartFacades
  PROVE  ListInv'
<1>t. /\ ListTypeOK /\ MemoTrue /\ allow \in [Clients -> Bag] /\ edit \in [Edits -> Edit]
      /\ facade \in [Facades -> Facade] /\ life \in [Clients -> {"new", "live", "gone"}]
      /\ Slugs \ exists \subseteq absent /\ exists \in SUBSET Slugs /\ absent \in SUBSET Slugs
      /\ \A k \in Clients, a \in Audiences : life[k] = "new" => <<k, a>> \notin memo
      /\ \A f \in Facades : FacadeOK(f)
      /\ \A e \in Edits : EditOK(e)
  BY DEF ListInv, MemoTrue, ListTypeOK
<1>1. ASSUME NEW c \in Clients, NEW body \in Bodies, Register(c, body) PROVE ListInv'
  <2>1. /\ life[c] = "new" /\ life' = [life EXCEPT ![c] = "live"]
        /\ allow' = [allow EXCEPT ![c] = Once(body \cup {Platform})]
        /\ UNCHANGED <<exists, memo, facade, edit, raced, absent>>
    BY <1>1 DEF Register
  <2>2. Once(body \cup {Platform}) \in Bag
    BY DEF Once, Bag
  <2>3. /\ life' \in [Clients -> {"new", "live", "gone"}] /\ life'[c] = "live"
        /\ \A k \in Clients \ {c} : life'[k] = life[k] /\ allow'[k] = allow[k]
        /\ allow' \in [Clients -> Bag]
    BY <1>t, <2>1, <2>2
  <2>4. MemoTrue'
    BY <1>t, <2>1, <2>3 DEF MemoTrue, ListTypeOK
  <2>5. ASSUME NEW f \in Facades PROVE FacadeOK(f)'
    <3>1. FacadeOK(f)
      BY <1>t
    <3>2. CASE facade[f].pc \in {"append", "seed", "ask", "set"}
      <4>1. facade[f].client \in Clients \ {c}
        BY <2>1, <3>1, <3>2 DEF FacadeOK
      <4> QED BY <2>1, <2>3, <3>1, <4>1 DEF FacadeOK, Lasting, Listed
    <3>3. CASE facade[f].pc \notin {"append", "seed", "ask", "set"}
      BY <2>1, <3>1, <3>3 DEF FacadeOK
    <3> QED BY <3>2, <3>3
  <2>6. ASSUME NEW e \in Edits PROVE EditOK(e)'
    <3>1. EditOK(e) /\ edit[e].op \in {"idle", "put", "delete"}
      BY <1>t DEF Edit
    <3>2. CASE edit[e].op # "idle" /\ edit[e].merged
      <4>1. edit[e].client \in Clients \ {c}
        BY <2>1, <3>1, <3>2 DEF EditOK
      <4> QED BY <2>1, <2>3, <3>1, <4>1 DEF EditOK, Listed
    <3>3. CASE ~ (edit[e].op # "idle" /\ edit[e].merged)
      BY <2>1, <3>1, <3>3 DEF EditOK
    <3> QED BY <3>2, <3>3
  <2> QED BY <1>t, <2>1, <2>3, <2>4, <2>5, <2>6 DEF ListInv
<1>2. ASSUME memo' \subseteq memo, UNCHANGED <<exists, life, allow, edit, raced, absent>>,
             \/ UNCHANGED facade
             \/ facade' = [f \in Facades |-> NoFacade]
      PROVE  ListInv'
  <2>1. facade' \in [Facades -> Facade] /\ \A f \in Facades : facade'[f] \in {facade[f], NoFacade}
    BY <1>t, <1>2, TypeOfNoList
  <2>2. MemoTrue'
    BY <1>t, <1>2, <2>1 DEF MemoTrue, ListTypeOK
  <2>3. ASSUME NEW f \in Facades PROVE FacadeOK(f)'
    <3>1. CASE facade'[f] = facade[f]
      BY <1>t, <1>2, <3>1 DEF FacadeOK, Lasting, Listed
    <3>2. CASE facade'[f] = NoFacade
      BY <3>2, TypeOfNoList DEF FacadeOK
    <3> QED BY <2>1, <3>1, <3>2
  <2>4. ASSUME NEW e \in Edits PROVE EditOK(e)'
    <3>1. EditOK(e)
      BY <1>t
    <3> QED BY <1>2, <3>1 DEF EditOK, Listed
  <2> QED BY <1>t, <1>2, <2>2, <2>3, <2>4 DEF ListInv
<1>3. ASSUME NEW c \in Clients, NEW a \in Audiences, Expire(c, a) PROVE ListInv'
  BY <1>2, <1>3 DEF Expire
<1>4. CASE RestartFacades
  BY <1>2, <1>4 DEF RestartFacades
<1>5. ASSUME NEW s \in Slugs, CreateProject(s) \/ DeleteProject(s) PROVE ListInv'
  <2>1. /\ UNCHANGED <<life, allow, memo, facade, edit, raced>> /\ absent \subseteq absent'
        /\ exists' \in SUBSET Slugs /\ absent' \in SUBSET Slugs /\ Slugs \ exists' \subseteq absent'
    BY <1>t, <1>5 DEF CreateProject, DeleteProject
  <2>2. MemoTrue'
    BY <1>t, <2>1 DEF MemoTrue, ListTypeOK
  <2>3. ASSUME NEW f \in Facades PROVE FacadeOK(f)'
    BY <1>t, <2>1 DEF FacadeOK, Lasting, Listed
  <2>4. ASSUME NEW e \in Edits PROVE EditOK(e)'
    <3>1. EditOK(e)
      BY <1>t
    <3> QED BY <2>1, <3>1 DEF EditOK, Listed
  <2> QED BY <1>t, <2>1, <2>2, <2>3, <2>4 DEF ListInv
<1> QED BY <1>1, <1>3, <1>4, <1>5

LEMMA ListStep == ListInv /\ [ListNext]_listVars => ListInv'
<1> SUFFICES ASSUME ListInv, [ListNext]_listVars PROVE ListInv'
  OBVIOUS
<1>1. CASE UNCHANGED listVars
  <2>1. UNCHANGED <<exists, life, allow, memo, facade, edit, raced, absent>>
    BY <1>1 DEF listVars
  <2> QED BY <2>1 DEF ListInv, MemoTrue, ListTypeOK, FacadeOK, EditOK, Lasting, Listed
<1>2. CASE ListNext
  BY <1>2, FacadeStep, PatchStep, MemoizeStep, EditStep, ReplaceStep, RestStep DEF ListNext
<1> QED BY <1>1, <1>2

\* ensureClientAudience, planMcpAuthorize and proxyRegister, each between its awaits: what the
\* memo lets through without a look, Hydra will accept.
THEOREM MemoHolds == ListSpec => []MemoTrue
<1>1. ListInv => MemoTrue
  BY DEF ListInv
<1> QED BY <1>1, ListInitially, ListStep, PTL DEF ListSpec

-----------------------------------------------------------------------------
(* The capabilities of a project (Capabilities).                           *)

Enabling == {"claim", "reread", "readManifest", "writeManifest", "readSealed", "writeSealed"}
Holding == {"readManifest", "writeManifest", "readSealed", "writeSealed"}
Dropping == {"lookManifest", "lookSealed", "dropManifest", "dropSealed"}

Added(h) == handler[h].next \ handler[h].cur
Dropped(h) == handler[h].cur \ handler[h].next

\* What the row, the sealed files and the volumes have in common until data is destroyed.
Agree ==
  \A b \in Stateful :
    /\ running[b] => disk[b] # None
    /\ ~cleared[b] => /\ sealed[b] # None => sealed[b].cred = row[b]
                      /\ disk[b] # None => disk[b] = row[b]

\* The credentials that a request has in its hands are those of the row.
Knows(h) ==
  /\ handler[h].on \cap handler[h].off = {}
  /\ handler[h].purge => handler[h].on = {}
  /\ handler[h].pc \in {"dropVolume", "clear"} => handler[h].purge
  /\ handler[h].pc \in Enabling \cup Dropping => handler[h].left # {}
  /\ \A b \in Stateful : ~cleared[b] /\ handler[h].prior[b] # None => handler[h].prior[b] = row[b]
  /\ handler[h].pc \in Holding =>
       handler[h].cred \in Cred /\ (~cleared[Backend(h)] => handler[h].cred = row[Backend(h)])

\* Nobody came in since a request that is alone, and it finds the repository as it left it:
\* up to the backend at hand what was added has its files, and what was dropped has none.
Progress(h) ==
  handler[h].tool /\ handler[h].alone /\ handler[h].pc \notin {"idle", "detect"} =>
    /\ Added(h) \subseteq handler[h].on /\ Dropped(h) \subseteq handler[h].off
    /\ handler[h].left \subseteq Added(h) \cup Dropped(h)
    /\ handler[h].pc \in Enabling => Backend(h) \in Added(h)
    /\ handler[h].pc \in Dropping => Backend(h) \in Dropped(h)
    /\ handler[h].pc \notin Enabling \cup Dropping => handler[h].left = {}
    /\ handler[h].pc \in {"gateway", "dropVolume", "clear", "done"} => deploy = handler[h].next
    /\ handler[h].pc \notin {"gateway", "dropVolume", "clear", "done"} => deploy = handler[h].cur
    /\ handler[h].pc = "writeDeploy" => handler[h].seen = deploy
    /\ handler[h].pc \in Holding => handler[h].cred = row[Backend(h)]
    /\ handler[h].pc \in {"readSealed", "writeSealed"} => manifest[Backend(h)]
    /\ ~handler[h].misread =>
         /\ handler[h].pc \in {"lookSealed", "dropManifest"} => handler[h].found = manifest[Backend(h)]
         /\ handler[h].pc \in {"dropManifest", "dropSealed"} => handler[h].file = sealed[Backend(h)]
         /\ handler[h].pc = "dropSealed" => ~manifest[Backend(h)]
    /\ \A b \in Added(h) \cap Stateful : b \notin handler[h].left =>
         manifest[b] /\ sealed[b] # None /\ sealed[b].cred = row[b]
    /\ \A b \in Dropped(h) \cap Stateful : b \notin handler[h].left /\ ~handler[h].misread =>
         ~manifest[b] /\ sealed[b] = None
    /\ handler[h].pc \in {"dropVolume", "clear", "done"} =>
         /\ "mcp" \in Added(h) => route
         /\ "mcp" \in Dropped(h) => ~route

Own(h) ==
  /\ Knows(h) /\ Progress(h)
  /\ handler[h].alone /\ handler[h].pc \notin {"idle", "done"} =>
       \A b \in Stateful : handler[h].prior[b] # None => handler[h].prior[b] = row[b]

Sole(h) ==
  handler[h].alone /\ handler[h].pc # "idle" => \A g \in Handlers \ {h} : ~Busy(g)

CapsInv == CapsTypeOK /\ Agree /\ \A h \in Handlers : Own(h) /\ Sole(h)

\* The variables but for the requests have their types.
Typed ==
  /\ row \in [Stateful -> Cred \cup {None}]
  /\ manifest \in [Stateful -> BOOLEAN] /\ sealed \in [Stateful -> Sealed \cup {None}]
  /\ deploy \in SUBSET Caps /\ route \in BOOLEAN
  /\ running \in [Stateful -> BOOLEAN] /\ doomed \in [Stateful -> BOOLEAN]
  /\ disk \in [Stateful -> Cred \cup {None}] /\ cleared \in [Stateful -> BOOLEAN]
  /\ events \in 0..MaxEvents

LEMMA TypeOfUnused == Unused \in Handler /\ Unused.pc = "idle" /\ Unused.on = {}
                      /\ Unused.prior = [b \in Stateful |-> None] /\ ~Unused.alone
BY DEF Unused, Handler, ToggleStages

LEMMA BackendIsLeft ==
  ASSUME NEW h \in Handlers, handler[h].left \in SUBSET Stateful
  PROVE  Backend(h) \in Stateful /\ (handler[h].left # {} => Backend(h) \in handler[h].left)
BY DEF Backend, Stateful

\* A step of one request, seen from the others: they keep what they hold, for the row of
\* a backend that has credentials changes only when they are cleared.
LEMMA StepKeeps ==
  ASSUME CapsInv, NEW h \in Handlers, Busy(h), NEW q \in Handler,
         handler' = [handler EXCEPT ![h] = q], q.alone => handler[h].alone,
         \A b \in Stateful : ~cleared'[b] => ~cleared[b] /\ (row[b] # None => row'[b] = row[b]),
         Typed', Agree', Own(h)'
  PROVE  CapsInv'
<1>1. handler \in [Handlers -> Handler] /\ handler[h].pc \notin {"idle", "done"}
  BY DEF CapsInv, CapsTypeOK, Busy
<1>2. handler' \in [Handlers -> Handler] /\ handler'[h] = q
      /\ \A g \in Handlers \ {h} : handler'[g] = handler[g]
  BY <1>1
<1>3. Sole(h)'
  BY <1>1, <1>2 DEF CapsInv, Sole, Busy
<1>4. ASSUME NEW g \in Handlers \ {h} PROVE Own(g)' /\ Sole(g)'
  <2>1. ~(handler[g].alone /\ handler[g].pc # "idle")
    BY DEF CapsInv, Sole
  <2>2. handler'[g] = handler[g] /\ handler[g] \in Handler
    BY <1>1, <1>2
  <2>3. Knows(g) /\ Backend(g)' = Backend(g)
    BY <2>2 DEF CapsInv, Own, Backend
  <2>4. Backend(g) \in Stateful
    BY <2>2, BackendIsLeft DEF Handler
  <2>5. \A b \in Stateful : handler[g].prior[b] # None /\ ~cleared'[b] => handler[g].prior[b] = row'[b]
    BY <2>3 DEF Knows
  <2>6. handler[g].pc \in Holding =>
          handler[g].cred \in Cred /\ (~cleared'[Backend(g)] => handler[g].cred = row'[Backend(g)])
    BY <2>3, <2>4, CapabilitiesAssumption DEF Knows
  <2>7. Knows(g)'
    BY <2>2, <2>3, <2>5, <2>6 DEF Knows
  <2> QED BY <2>1, <2>2, <2>7 DEF Own, Sole, Progress
<1>5. CapsTypeOK'
  BY <1>2 DEF CapsTypeOK, Typed
<1> QED BY <1>2, <1>3, <1>4, <1>5 DEF CapsInv

\* A call that throws, and a write that Gitea refuses.
LEMMA FailsKeeps ==
  ASSUME CapsInv, NEW h \in Handlers, Busy(h), Fails(h), events' \in 0..MaxEvents,
         UNCHANGED <<row, repoVars, clusterVars>>
  PROVE  CapsInv'
<1>1. handler \in [Handlers -> Handler] /\ handler' = [handler EXCEPT ![h] = Unused]
  BY DEF CapsInv, CapsTypeOK, Fails, Put
<1>2. handler'[h] = Unused
  BY <1>1
<1>3. Own(h)'
  BY <1>2, TypeOfUnused DEF Own, Knows, Progress, Enabling, Dropping, Holding, Unused
<1>4. Typed' /\ Agree'
  BY DEF CapsInv, CapsTypeOK, Typed, Agree, repoVars, clusterVars
<1> QED BY <1>1, <1>3, <1>4, TypeOfUnused, StepKeeps DEF clusterVars

\* What everybody knows at the start of a step.
LEMMA AtHand ==
  ASSUME CapsInv, NEW h \in Handlers
  PROVE  /\ handler \in [Handlers -> Handler] /\ handler[h] \in Handler
         /\ Typed /\ Agree /\ Own(h) /\ Knows(h) /\ Progress(h)
         /\ Backend(h) \in Stateful /\ Backend(h) \in Caps
         /\ handler[h].pc \in Enabling \cup Dropping => Backend(h) \in handler[h].left
<1>1. /\ handler \in [Handlers -> Handler] /\ handler[h] \in Handler
      /\ Typed /\ Agree /\ Own(h) /\ Knows(h) /\ Progress(h)
  BY DEF CapsInv, CapsTypeOK, Typed, Own
<1>2. Backend(h) \in Stateful /\ (handler[h].left # {} => Backend(h) \in handler[h].left)
  BY <1>1, BackendIsLeft DEF Handler
<1> QED BY <1>1, <1>2 DEF Knows, Caps

\* Somebody comes in: those who were under way are not alone any more.
LEMMA AcceptKeeps ==
  ASSUME CapsInv, NEW h \in Handlers, NEW rec \in Handler, Accept(h, rec),
         rec.pc \in {"detect", "claim", "lookManifest"}, rec.pc # "detect" => ~rec.tool,
         rec.pc # "detect" => rec.left # {}, rec.on \cap rec.off = {}, rec.purge => rec.on = {},
         rec.prior = row
  PROVE  CapsInv'
<1> DEFINE sole == \A f \in Handlers \ {h} : ~Busy(f)
           new == [rec EXCEPT !.alone = sole]
<1>1. sole \in BOOLEAN /\ (sole <=> \A f \in Handlers \ {h} : ~Busy(f))
  OBVIOUS
<1>2. /\ handler' = [g \in Handlers |-> IF g = h THEN new
                       ELSE IF Busy(g) THEN [handler[g] EXCEPT !.alone = FALSE] ELSE Unused]
      /\ events' \in 0..MaxEvents /\ UNCHANGED <<row, repoVars, clusterVars>>
  BY CapabilitiesAssumption DEF Accept, Event, CapsInv, CapsTypeOK
<1> HIDE DEF sole
<1>3. /\ new \in Handler /\ new.pc = rec.pc /\ new.alone = sole /\ new.tool = rec.tool
      /\ new.left = rec.left /\ new.prior = rec.prior /\ new.on = rec.on /\ new.off = rec.off
      /\ new.purge = rec.purge
  BY <1>1 DEF Handler
<1> HIDE DEF new
<1>4. handler'[h] = new
  BY <1>2
<1>5. ASSUME NEW g \in Handlers \ {h}
      PROVE  /\ handler'[g] \in Handler /\ ~handler'[g].alone /\ Own(g)'
             /\ Busy(g)' => Busy(g)
  <2>1. handler[g] \in Handler /\ Knows(g)
    BY AtHand
  <2>2. CASE Busy(g)
    <3> DEFINE q == [handler[g] EXCEPT !.alone = FALSE]
    <3>1. handler'[g] = q
      BY <1>2, <2>2
    <3>2. /\ q \in Handler /\ ~q.alone /\ q.pc = handler[g].pc /\ q.left = handler[g].left
          /\ q.prior = handler[g].prior /\ q.cred = handler[g].cred
          /\ q.on = handler[g].on /\ q.off = handler[g].off /\ q.purge = handler[g].purge
      BY <2>1 DEF Handler
    <3> HIDE DEF q
    <3>3. Backend(g)' = Backend(g)
      BY <3>1, <3>2 DEF Backend
    <3>4. Knows(g)'
      BY <1>2, <2>1, <3>1, <3>2, <3>3 DEF Knows, clusterVars
    <3> QED BY <2>2, <3>1, <3>2, <3>4 DEF Own, Progress
  <2>3. CASE ~Busy(g)
    <3>1. handler'[g] = Unused
      BY <1>2, <2>3
    <3>2. Knows(g)'
      BY <3>1, TypeOfUnused DEF Knows, Enabling, Dropping, Holding, Unused
    <3> QED BY <3>1, <3>2, TypeOfUnused DEF Own, Progress, Busy
  <2> QED BY <2>2, <2>3
<1>6. Knows(h)'
  BY <1>2, <1>3, <1>4 DEF Knows, Enabling, Dropping, Holding
<1>7. Own(h)'
  BY <1>2, <1>3, <1>4, <1>6 DEF Own, Progress
<1>8. Sole(h)'
  BY <1>1, <1>3, <1>4, <1>5 DEF Sole
<1>9. \A g \in Handlers \ {h} : Own(g)' /\ Sole(g)'
  BY <1>5 DEF Sole
<1>10. handler' \in [Handlers -> Handler]
  BY <1>2, <1>3, <1>5
<1>11. CapsTypeOK' /\ Agree'
  BY <1>2, <1>10 DEF CapsInv, CapsTypeOK, Agree, repoVars, clusterVars
<1> QED BY <1>7, <1>8, <1>9, <1>11 DEF CapsInv

LEMMA SetCapabilitiesKeeps ==
  ASSUME CapsInv, NEW h \in Handlers, NEW on \in SUBSET Caps, NEW off \in SUBSET Caps,
         NEW purge \in BOOLEAN, SetCapabilities(h, on, off, purge)
  PROVE  CapsInv'
<1> DEFINE rec == [Unused EXCEPT !.pc = "detect", !.tool = TRUE, !.on = on, !.off = off,
                                 !.purge = purge, !.prior = row]
<1>1. row \in [Stateful -> Cred \cup {None}]
  BY DEF CapsInv, CapsTypeOK
<1>2. /\ rec \in Handler /\ rec.pc = "detect" /\ rec.on = on /\ rec.off = off
      /\ rec.purge = purge /\ rec.prior = row
  BY <1>1, TypeOfUnused DEF Handler, ToggleStages
<1>3. on \cap off = {} /\ (purge => on = {})
  BY CapabilitiesAssumption DEF SetCapabilities
<1>4. Accept(h, rec)
  BY DEF SetCapabilities
<1> HIDE DEF rec
<1> QED BY <1>2, <1>3, <1>4, AcceptKeeps

LEMMA ToggleKeeps ==
  ASSUME CapsInv, NEW h \in Handlers, NEW b \in Stateful, NEW on \in BOOLEAN,
         NEW purge \in BOOLEAN, Toggle(h, b, on, purge)
  PROVE  CapsInv'
<1>1. PICK pc \in {"claim", "lookManifest"}, y \in SUBSET Caps, n \in SUBSET Caps :
        /\ y \cap n = {} /\ (purge => y = {})
        /\ Accept(h, [Unused EXCEPT !.pc = pc, !.on = y, !.off = n,
                                    !.purge = purge, !.prior = row, !.left = {b}])
  <2>1. CASE on
    <3>1. Accept(h, [Unused EXCEPT !.pc = "claim", !.on = {b}, !.off = {},
                                   !.purge = purge, !.prior = row, !.left = {b}])
      BY <2>1 DEF Toggle
    <3> QED BY <2>1, <3>1 DEF Toggle, Caps
  <2>2. CASE ~on
    <3>1. Accept(h, [Unused EXCEPT !.pc = "lookManifest", !.on = {}, !.off = {b},
                                   !.purge = purge, !.prior = row, !.left = {b}])
      BY <2>2 DEF Toggle
    <3> QED BY <2>2, <3>1 DEF Toggle, Caps
  <2> QED BY <2>1, <2>2
<1> DEFINE rec == [Unused EXCEPT !.pc = pc, !.on = y, !.off = n,
                                 !.purge = purge, !.prior = row, !.left = {b}]
<1>2. row \in [Stateful -> Cred \cup {None}]
  BY DEF CapsInv, CapsTypeOK
<1>3. /\ rec \in Handler /\ rec.pc = pc /\ rec.on = y /\ rec.off = n /\ rec.left = {b}
      /\ rec.purge = purge /\ rec.prior = row /\ rec.tool = Unused.tool
  BY <1>2, TypeOfUnused DEF Handler, ToggleStages
<1>4. ~rec.tool
  BY <1>3 DEF Unused
<1>5. Accept(h, rec)
  BY <1>1
<1> HIDE DEF rec
<1> QED BY <1>1, <1>3, <1>4, <1>5, AcceptKeeps

\* Where a request goes: to the first backend that is left, or on.
LEMMA ThenGoes ==
  ASSUME NEW h \in Handlers, NEW rest \in SUBSET Stateful
  PROVE  /\ Then(h, rest) \in {"claim", "lookManifest", "readDeploy", "dropVolume", "done"}
         /\ rest # {} => \E b \in rest :
              /\ b = IF "database" \in rest THEN "database" ELSE "storage"
              /\ Then(h, rest) = IF b \in handler[h].on THEN "claim" ELSE "lookManifest"
         /\ rest = {} => Then(h, rest) \in {"readDeploy", "dropVolume", "done"}
         /\ rest = {} /\ handler[h].tool => Then(h, rest) = "readDeploy"
         /\ Then(h, rest) = "dropVolume" => handler[h].purge
BY DEF Then, Stateful

LEMMA DetectKeeps ==
  ASSUME CapsInv, NEW h \in Handlers, Detect(h)
  PROVE  CapsInv'
<1>1. /\ handler \in [Handlers -> Handler] /\ handler[h] \in Handler
      /\ Typed /\ Agree /\ Own(h) /\ Knows(h) /\ handler[h].pc = "detect" /\ Busy(h)
  BY AtHand DEF Detect, At, Busy
<1>2. PICK next, rest, pc :
        /\ next = Target(h, deploy) /\ rest = Stateful \cap ((next \ deploy) \cup (deploy \ next))
        /\ pc = Then(h, rest)
        /\ handler' = [handler EXCEPT ![h] = [handler[h] EXCEPT !.cur = deploy, !.next = next,
                                                                !.left = rest, !.pc = pc]]
        /\ UNCHANGED <<row, repoVars, clusterVars, events>>
  BY DEF Detect, Put, NoEvent
<1> DEFINE q == [handler[h] EXCEPT !.cur = deploy, !.next = next, !.left = rest, !.pc = pc]
<1>3. next \in SUBSET Caps /\ rest \in SUBSET Stateful /\ deploy \in SUBSET Caps
  BY <1>1, <1>2 DEF Target, Handler, Typed
<1>4. /\ pc \in {"claim", "lookManifest", "readDeploy", "dropVolume", "done"}
      /\ rest # {} => \E b \in rest :
              /\ b = IF "database" \in rest THEN "database" ELSE "storage"
              /\ pc = IF b \in handler[h].on THEN "claim" ELSE "lookManifest"
      /\ rest = {} => pc \in {"readDeploy", "dropVolume", "done"}
      /\ rest = {} /\ handler[h].tool => pc = "readDeploy"
      /\ pc = "dropVolume" => handler[h].purge
  BY <1>2, <1>3, ThenGoes
<1>5. /\ q \in Handler /\ q.pc = pc /\ q.cur = deploy /\ q.next = next /\ q.left = rest
      /\ q.tool = handler[h].tool /\ q.on = handler[h].on /\ q.off = handler[h].off
      /\ q.purge = handler[h].purge /\ q.prior = handler[h].prior /\ q.cred = handler[h].cred
      /\ q.alone = handler[h].alone /\ q.misread = handler[h].misread
  BY <1>1, <1>3, <1>4 DEF Handler, ToggleStages
<1>6. handler' = [handler EXCEPT ![h] = q]
  BY <1>2
<1> HIDE DEF q
<1>7. handler'[h] = q
  BY <1>1, <1>6
<1>8. UNCHANGED <<row, manifest, sealed, deploy, route, running, disk, doomed, cleared, events>>
  BY <1>2 DEF repoVars, clusterVars
<1>9. Knows(h)'
  BY <1>1, <1>4, <1>5, <1>7, <1>8 DEF Knows, Enabling, Dropping, Holding
<1>10. Progress(h)'
  <2> SUFFICES ASSUME handler[h].tool, handler[h].alone PROVE Progress(h)'
    BY <1>5, <1>7 DEF Progress
  <2>1. next \ deploy \subseteq handler[h].on /\ deploy \ next \subseteq handler[h].off
    BY <1>2 DEF Target
  <2>2. Added(h)' = next \ deploy /\ Dropped(h)' = deploy \ next
    BY <1>5, <1>7 DEF Added, Dropped
  <2>3. rest # {} => /\ Backend(h)' \in rest
                     /\ pc = IF Backend(h)' \in handler[h].on THEN "claim" ELSE "lookManifest"
    BY <1>4, <1>5, <1>7 DEF Backend
  <2>4. handler[h].on \cap handler[h].off = {}
    BY <1>1 DEF Knows
  <2>5. pc \in Enabling => Backend(h)' \in Added(h)'
    BY <1>2, <1>4, <2>1, <2>2, <2>3, <2>4 DEF Enabling
  <2>6. pc \in Dropping => Backend(h)' \in Dropped(h)'
    BY <1>2, <1>4, <2>1, <2>2, <2>3, <2>4 DEF Dropping
  <2>7. pc \notin Enabling \cup Dropping => rest = {}
    BY <1>4 DEF Enabling, Dropping
  <2>8. pc \in {"claim", "lookManifest", "readDeploy"} /\ pc \notin Holding
    BY <1>4 DEF Holding
  <2>9. \A b \in (next \ deploy) \cup (deploy \ next) : b \in Stateful => b \in rest
    BY <1>2
  <2>10. rest \subseteq (next \ deploy) \cup (deploy \ next)
    BY <1>2
  <2> QED BY <1>5, <1>7, <1>8, <2>1, <2>2, <2>5, <2>6, <2>7, <2>8, <2>9, <2>10 DEF Progress
<1>11. Own(h)'
  BY <1>1, <1>5, <1>7, <1>8, <1>9, <1>10 DEF Own
<1>12. Typed' /\ Agree'
  BY <1>1, <1>8 DEF Typed, Agree
<1> QED BY <1>1, <1>5, <1>6, <1>8, <1>11, <1>12, StepKeeps

\* A request that has its credentials: those it had read with the project, those that it
\* claims where there were none, or the winner's.
LEMMA HoldsKeeps ==
  ASSUME CapsInv, NEW h \in Handlers, handler[h].pc \in {"claim", "reread"}, NEW c \in Cred,
         Put(h, [handler[h] EXCEPT !.cred = c, !.pc = "readManifest"]),
         \/ row' = row
         \/ row[Backend(h)] = None /\ row' = [row EXCEPT ![Backend(h)] = c],
         ~cleared[Backend(h)] \/ handler[h].alone => row'[Backend(h)] = c,
         events' = events, UNCHANGED <<repoVars, clusterVars>>
  PROVE  CapsInv'
<1> USE CapabilitiesAssumption
<1> DEFINE q == [handler[h] EXCEPT !.cred = c, !.pc = "readManifest"]
<1>1. /\ handler \in [Handlers -> Handler] /\ handler[h] \in Handler /\ Backend(h) \in Stateful
      /\ Typed /\ Agree /\ Own(h) /\ Knows(h) /\ Progress(h) /\ Busy(h)
      /\ handler[h].pc \in Enabling \cup Dropping
  BY AtHand DEF Busy, Enabling
<1>2. /\ q \in Handler /\ q.pc = "readManifest" /\ q.cred = c
      /\ q.cur = handler[h].cur /\ q.next = handler[h].next /\ q.left = handler[h].left
      /\ q.tool = handler[h].tool /\ q.on = handler[h].on /\ q.off = handler[h].off
      /\ q.purge = handler[h].purge /\ q.prior = handler[h].prior
      /\ q.alone = handler[h].alone /\ q.misread = handler[h].misread
  BY <1>1 DEF Handler, ToggleStages
<1>3. handler' = [handler EXCEPT ![h] = q]
  BY DEF Put
<1> HIDE DEF q
<1>4. handler'[h] = q
  BY <1>1, <1>3
<1>5. UNCHANGED <<manifest, sealed, deploy, route, running, disk, doomed, cleared, events>>
  BY DEF repoVars, clusterVars
<1>6. Backend(h)' = Backend(h) /\ Added(h)' = Added(h) /\ Dropped(h)' = Dropped(h)
  BY <1>2, <1>4 DEF Backend, Added, Dropped
<1>7. PICK B \in Stateful : B = Backend(h)
  BY <1>1
<1>8. /\ row' \in [Stateful -> Cred \cup {None}]
      /\ \A b \in Stateful : row[b] # None => row'[b] = row[b]
      /\ \A b \in Stateful \ {B} : row'[b] = row[b]
  BY <1>1, <1>7 DEF Typed
<1>9. Knows(h)'
  <2>1. \A b \in Stateful : ~cleared'[b] /\ q.prior[b] # None => q.prior[b] = row'[b]
    BY <1>1, <1>2, <1>5, <1>8 DEF Knows
  <2>2. ~cleared'[B] => c = row'[B]
    BY <1>5, <1>7
  <2> QED BY <1>1, <1>2, <1>4, <1>6, <1>7, <2>1, <2>2 DEF Knows
<1>10. Progress(h)'
  <2> SUFFICES ASSUME handler[h].tool, handler[h].alone PROVE Progress(h)'
    BY <1>2, <1>4 DEF Progress
  <2>1. row'[B] = c
    BY <1>7
  <2>2. B \in Added(h)
    BY <1>1, <1>7 DEF Progress, Enabling
  <2>3. \A b \in Added(h) \cap Stateful : b \notin q.left => manifest[b] /\ sealed[b] # None /\ sealed[b].cred = row'[b]
    <3> SUFFICES ASSUME NEW b \in Added(h) \cap Stateful, b \notin q.left
                 PROVE  manifest[b] /\ sealed[b] # None /\ sealed[b].cred = row'[b]
      OBVIOUS
    <3>1. manifest[b] /\ sealed[b] # None /\ sealed[b].cred = row[b]
      BY <1>1, <1>2 DEF Progress
    <3>2. b # B
      BY <1>1, <1>2, <1>7, AtHand
    <3> QED BY <1>8, <3>1, <3>2
  <2> QED BY <1>1, <1>2, <1>4, <1>5, <1>6, <1>7, <2>1, <2>2, <2>3
          DEF Progress, Enabling, Dropping, Holding
<1>11. Own(h)'
  <2>1. handler[h].alone => \A b \in Stateful : q.prior[b] # None => q.prior[b] = row'[b]
    BY <1>1, <1>2, <1>8 DEF Own
  <2> QED BY <1>2, <1>4, <1>9, <1>10, <2>1 DEF Own
<1>12. Agree'
  <2>1. \A b \in Stateful : sealed[b] # None => sealed[b].cred \in Cred
    BY <1>1 DEF Typed, Sealed
  <2>2. \A b \in Stateful : ~cleared[b] /\ sealed[b] # None => sealed[b].cred = row'[b]
    BY <1>1, <1>8, <2>1 DEF Agree
  <2>3. \A b \in Stateful : ~cleared[b] /\ disk[b] # None => disk[b] = row'[b]
    BY <1>1, <1>8 DEF Agree
  <2> QED BY <1>1, <1>5, <2>2, <2>3 DEF Agree
<1>13. Typed'
  BY <1>1, <1>5, <1>8 DEF Typed
<1> QED BY <1>1, <1>2, <1>3, <1>5, <1>8, <1>11, <1>12, <1>13, StepKeeps

\* A step with the files of the backend at hand, and not the last.
LEMMA MovesKeep ==
  ASSUME CapsInv, NEW h \in Handlers, NEW q \in Handler,
         handler[h].pc \in Enabling \cup Dropping, handler' = [handler EXCEPT ![h] = q],
         q.pc \in Enabling <=> handler[h].pc \in Enabling,
         q.pc \in Dropping <=> handler[h].pc \in Dropping,
         q.pc \in Holding => handler[h].pc \in Holding,
         q.tool = handler[h].tool, q.on = handler[h].on, q.off = handler[h].off,
         q.purge = handler[h].purge, q.prior = handler[h].prior, q.cur = handler[h].cur,
         q.next = handler[h].next, q.left = handler[h].left, q.cred = handler[h].cred,
         q.alone = handler[h].alone, handler[h].misread => q.misread,
         manifest' \in [Stateful -> BOOLEAN], events' \in 0..MaxEvents,
         \A b \in Stateful \ {Backend(h)} : manifest'[b] = manifest[b],
         UNCHANGED <<row, sealed, deploy, clusterVars>>,
         handler[h].tool /\ handler[h].alone =>
           /\ q.pc \in {"readSealed", "writeSealed"} => manifest'[Backend(h)]
           /\ ~q.misread =>
                /\ q.pc \in {"lookSealed", "dropManifest"} => q.found = manifest'[Backend(h)]
                /\ q.pc \in {"dropManifest", "dropSealed"} => q.file = sealed[Backend(h)]
                /\ q.pc = "dropSealed" => ~manifest'[Backend(h)]
  PROVE  CapsInv'
<1>1. /\ handler \in [Handlers -> Handler] /\ handler[h] \in Handler /\ Backend(h) \in Stateful
      /\ Typed /\ Agree /\ Own(h) /\ Knows(h) /\ Progress(h) /\ Backend(h) \in handler[h].left
  BY AtHand
<1>2. Busy(h) /\ handler[h].pc \notin {"idle", "done", "detect"}
  BY DEF Busy, Enabling, Dropping
<1>3. handler'[h] = q
  BY <1>1
<1>4. UNCHANGED <<row, sealed, deploy, route, running, disk, doomed, cleared>>
  BY DEF clusterVars
<1>5. Backend(h)' = Backend(h) /\ Added(h)' = Added(h) /\ Dropped(h)' = Dropped(h)
  BY <1>3 DEF Backend, Added, Dropped
<1>6. Knows(h)'
  BY <1>1, <1>3, <1>4, <1>5 DEF Knows, Enabling, Dropping
<1>7. Progress(h)'
  <2> SUFFICES ASSUME handler[h].tool, handler[h].alone PROVE Progress(h)'
    BY <1>3 DEF Progress
  <2> DEFINE final == {"gateway", "dropVolume", "clear", "done"}
  <2>1. q.pc \notin final \cup {"writeDeploy"} /\ handler[h].pc \notin final
    BY DEF Enabling, Dropping
  <2>2. deploy' = q.cur
    BY <1>1, <1>2, <1>4, <2>1 DEF Progress
  <2>3. \A b \in Added(h) \cap Stateful : b \notin q.left =>
          manifest'[b] /\ sealed'[b] # None /\ sealed'[b].cred = row'[b]
    BY <1>1, <1>2, <1>4 DEF Progress
  <2>4. \A b \in Dropped(h) \cap Stateful : b \notin q.left /\ ~q.misread =>
          ~manifest'[b] /\ sealed'[b] = None
    BY <1>1, <1>2, <1>4 DEF Progress
  <2>5. /\ Added(h) \subseteq q.on /\ Dropped(h) \subseteq q.off /\ q.left \subseteq Added(h) \cup Dropped(h)
        /\ q.pc \in Enabling => Backend(h) \in Added(h)
        /\ q.pc \in Dropping => Backend(h) \in Dropped(h)
        /\ q.pc \in Holding => q.cred = row'[Backend(h)]
    BY <1>1, <1>2, <1>4 DEF Progress
  <2>6. /\ q.pc \in {"readSealed", "writeSealed"} => manifest'[Backend(h)]
        /\ ~q.misread =>
             /\ q.pc \in {"lookSealed", "dropManifest"} => q.found = manifest'[Backend(h)]
             /\ q.pc \in {"dropManifest", "dropSealed"} => q.file = sealed'[Backend(h)]
             /\ q.pc = "dropSealed" => ~manifest'[Backend(h)]
    BY <1>4
  <2> QED BY <1>3, <1>5, <2>1, <2>2, <2>3, <2>4, <2>5, <2>6 DEF Progress
<1>8. Own(h)'
  BY <1>1, <1>2, <1>3, <1>4, <1>6, <1>7 DEF Own
<1>9. Typed' /\ Agree'
  BY <1>1, <1>4 DEF Typed, Agree
<1> QED BY <1>1, <1>2, <1>4, <1>8, <1>9, StepKeeps

\* The last step with the files of a backend, and the request goes on from there.
LEMMA OnwardsKeep ==
  ASSUME CapsInv, NEW h \in Handlers, handler[h].pc \in {"writeSealed", "dropSealed"}, Onwards(h),
         sealed' \in [Stateful -> Sealed \cup {None}], events' = events,
         \A b \in Stateful \ {Backend(h)} : sealed'[b] = sealed[b],
         ~cleared[Backend(h)] /\ sealed'[Backend(h)] # None =>
           sealed'[Backend(h)].cred = row[Backend(h)],
         UNCHANGED <<row, manifest, deploy, clusterVars>>,
         handler[h].tool /\ handler[h].alone =>
           /\ Backend(h) \in Added(h) => /\ manifest[Backend(h)] /\ sealed'[Backend(h)] # None
                                         /\ sealed'[Backend(h)].cred = row[Backend(h)]
           /\ Backend(h) \in Dropped(h) /\ ~handler[h].misread =>
                ~manifest[Backend(h)] /\ sealed'[Backend(h)] = None
  PROVE  CapsInv'
<1>1. /\ handler \in [Handlers -> Handler] /\ handler[h] \in Handler /\ Backend(h) \in Stateful
      /\ Typed /\ Agree /\ Own(h) /\ Knows(h) /\ Progress(h) /\ Backend(h) \in handler[h].left
  BY AtHand DEF Enabling, Dropping
<1>2. Busy(h) /\ handler[h].pc \notin {"idle", "done", "detect"}
  BY DEF Busy
<1>3. PICK B, rest, pc :
        /\ B = Backend(h) /\ rest = handler[h].left \ {B} /\ pc = Then(h, rest)
        /\ handler' = [handler EXCEPT ![h] = [handler[h] EXCEPT !.left = rest, !.pc = pc,
                         !.cred = None, !.found = FALSE, !.file = None]]
  BY DEF Onwards, Put
<1> DEFINE q == [handler[h] EXCEPT !.left = rest, !.pc = pc,
                   !.cred = None, !.found = FALSE, !.file = None]
<1>4. rest \in SUBSET Stateful
  BY <1>1, <1>3 DEF Handler
<1>5. /\ pc \in {"claim", "lookManifest", "readDeploy", "dropVolume", "done"}
      /\ rest # {} => \E b \in rest :
              /\ b = IF "database" \in rest THEN "database" ELSE "storage"
              /\ pc = IF b \in handler[h].on THEN "claim" ELSE "lookManifest"
      /\ rest = {} => pc \in {"readDeploy", "dropVolume", "done"}
      /\ rest = {} /\ handler[h].tool => pc = "readDeploy"
      /\ pc = "dropVolume" => handler[h].purge
  BY <1>3, <1>4, ThenGoes
<1>6. /\ q \in Handler /\ q.pc = pc /\ q.left = rest /\ q.cur = handler[h].cur
      /\ q.next = handler[h].next
      /\ q.tool = handler[h].tool /\ q.on = handler[h].on /\ q.off = handler[h].off
      /\ q.purge = handler[h].purge /\ q.prior = handler[h].prior
      /\ q.alone = handler[h].alone /\ q.misread = handler[h].misread
  BY <1>1, <1>4, <1>5 DEF Handler, ToggleStages
<1>7. handler' = [handler EXCEPT ![h] = q]
  BY <1>3
<1> HIDE DEF q
<1>8. handler'[h] = q
  BY <1>1, <1>7
<1>9. UNCHANGED <<row, manifest, deploy, route, running, disk, doomed, cleared, events>>
  BY DEF clusterVars
<1>10. Added(h)' = Added(h) /\ Dropped(h)' = Dropped(h)
  BY <1>6, <1>8 DEF Added, Dropped
<1>11. Knows(h)'
  BY <1>1, <1>5, <1>6, <1>8, <1>9 DEF Knows, Enabling, Dropping, Holding
<1>12. Progress(h)'
  <2> SUFFICES ASSUME handler[h].tool, handler[h].alone PROVE Progress(h)'
    BY <1>6, <1>8 DEF Progress
  <2>1. /\ Added(h) \subseteq q.on /\ Dropped(h) \subseteq q.off /\ rest \subseteq Added(h) \cup Dropped(h)
        /\ deploy' = q.cur
    BY <1>1, <1>2, <1>3, <1>6, <1>9 DEF Progress
  <2>2. rest # {} => /\ Backend(h)' \in rest
                     /\ pc = IF Backend(h)' \in handler[h].on THEN "claim" ELSE "lookManifest"
    BY <1>5, <1>6, <1>8 DEF Backend
  <2>3. handler[h].on \cap handler[h].off = {}
    BY <1>1 DEF Knows
  <2>4. pc \in Enabling => Backend(h)' \in Added(h)
    BY <1>5, <1>6, <2>1, <2>2, <2>3 DEF Enabling
  <2>5. pc \in Dropping => Backend(h)' \in Dropped(h)
    BY <1>5, <1>6, <2>1, <2>2, <2>3 DEF Dropping
  <2>6. pc \notin Enabling \cup Dropping => rest = {}
    BY <1>5 DEF Enabling, Dropping
  <2>7. pc \in {"claim", "lookManifest", "readDeploy"} /\ pc \notin Holding
    BY <1>5 DEF Holding
  <2>8. \A b \in Added(h) \cap Stateful : b \notin rest =>
          manifest'[b] /\ sealed'[b] # None /\ sealed'[b].cred = row'[b]
    <3> SUFFICES ASSUME NEW b \in Added(h) \cap Stateful, b \notin rest
                 PROVE  manifest[b] /\ sealed'[b] # None /\ sealed'[b].cred = row[b]
      BY <1>9
    <3>1. CASE b = B
      BY <1>3, <3>1
    <3>2. CASE b # B
      BY <1>1, <1>2, <1>3, <3>2 DEF Progress
    <3> QED BY <3>1, <3>2
  <2>9. \A b \in Dropped(h) \cap Stateful : b \notin rest /\ ~q.misread =>
          ~manifest'[b] /\ sealed'[b] = None
    <3> SUFFICES ASSUME NEW b \in Dropped(h) \cap Stateful, b \notin rest, ~q.misread
                 PROVE  ~manifest[b] /\ sealed'[b] = None
      BY <1>9
    <3>1. CASE b = B
      BY <1>3, <1>6, <3>1
    <3>2. CASE b # B
      BY <1>1, <1>2, <1>3, <1>6, <3>2 DEF Progress
    <3> QED BY <3>1, <3>2
  <2> QED BY <1>6, <1>8, <1>10, <2>1, <2>4, <2>5, <2>6, <2>7, <2>8, <2>9 DEF Progress
<1>13. Own(h)'
  BY <1>1, <1>2, <1>6, <1>8, <1>9, <1>11, <1>12 DEF Own
<1>14. Agree'
  BY <1>1, <1>9 DEF Agree
<1>15. Typed'
  BY <1>1, <1>9 DEF Typed
<1> QED BY <1>1, <1>2, <1>6, <1>7, <1>9, <1>13, <1>14, <1>15, StepKeeps

LEMMA ClaimKeeps ==
  ASSUME CapsInv, NEW h \in Handlers, NEW b \in Stateful, Claim(h, b) \/ Reread(h, b)
  PROVE  CapsInv'
<1>1. /\ handler \in [Handlers -> Handler] /\ handler[h] \in Handler /\ Backend(h) \in Stateful
      /\ Typed /\ Own(h) /\ Knows(h) /\ Busy(h) /\ b = Backend(h)
      /\ handler[h].pc \in {"claim", "reread"} /\ events' = events
      /\ UNCHANGED <<repoVars, clusterVars>>
  BY AtHand DEF Claim, Reread, At, Busy, NoEvent
<1>2. CASE Claim(h, b) /\ handler[h].prior[b] # None
  <2>1. PICK c \in Cred : c = handler[h].prior[b]
    BY <1>1, <1>2 DEF Handler
  <2>2. Put(h, [handler[h] EXCEPT !.cred = c, !.pc = "readManifest"]) /\ row' = row
    BY <1>2, <2>1 DEF Claim
  <2>3. ~cleared[b] \/ handler[h].alone => row'[b] = c
    BY <1>1, <1>2, <2>1, <2>2 DEF Knows, Own
  <2> QED BY <1>1, <2>2, <2>3, HoldsKeeps
<1>3. CASE Claim(h, b) /\ handler[h].prior[b] = None /\ Claimable(b)
  <2>1. PICK c \in Cred : /\ row' = [row EXCEPT ![b] = c]
                          /\ Put(h, [handler[h] EXCEPT !.cred = c, !.pc = "readManifest"])
    BY <1>3 DEF Claim
  <2>2. row'[b] = c /\ row[b] = None
    BY <1>1, <1>3, <2>1 DEF Claimable, Typed
  <2> QED BY <1>1, <2>1, <2>2, HoldsKeeps
<1>4. CASE Claim(h, b) /\ handler[h].prior[b] = None /\ ~Claimable(b)
  <2> DEFINE q == [handler[h] EXCEPT !.pc = "reread"]
  <2>1. handler' = [handler EXCEPT ![h] = q] /\ row' = row /\ handler[h].pc = "claim"
    BY <1>4 DEF Claim, Goto, Put, At
  <2>2. /\ q \in Handler /\ q.pc = "reread"
        /\ q.tool = handler[h].tool /\ q.on = handler[h].on /\ q.off = handler[h].off
        /\ q.purge = handler[h].purge /\ q.prior = handler[h].prior /\ q.cur = handler[h].cur
        /\ q.next = handler[h].next /\ q.left = handler[h].left /\ q.cred = handler[h].cred
        /\ q.alone = handler[h].alone /\ q.misread = handler[h].misread
    BY <1>1 DEF Handler, ToggleStages
  <2> HIDE DEF q
  <2>3. /\ manifest' = manifest /\ manifest \in [Stateful -> BOOLEAN] /\ events \in 0..MaxEvents
        /\ UNCHANGED <<row, sealed, deploy, clusterVars>>
    BY <1>1, <2>1 DEF Typed, repoVars
  <2> QED BY <1>1, <2>1, <2>2, <2>3, MovesKeep DEF Enabling, Dropping, Holding
<1>5. CASE Reread(h, b) /\ row[b] = None
  <2>1. Fails(h) /\ row' = row /\ events \in 0..MaxEvents
    BY <1>1, <1>5 DEF Reread, Typed
  <2> QED BY <1>1, <2>1, FailsKeeps
<1>6. CASE Reread(h, b) /\ row[b] # None
  <2>1. PICK c \in Cred : c = row[b]
    BY <1>1, <1>6 DEF Typed
  <2>2. Put(h, [handler[h] EXCEPT !.cred = c, !.pc = "readManifest"]) /\ row' = row
    BY <1>6, <2>1 DEF Reread
  <2> QED BY <1>1, <2>1, <2>2, HoldsKeeps
<1> QED BY <1>2, <1>3, <1>4, <1>5, <1>6

\* The two reads, while a backend is enabled and while it is disabled.
LEMMA ReadsKeep ==
  ASSUME CapsInv, NEW h \in Handlers,
         ReadManifest(h) \/ ReadSealed(h) \/ LookManifest(h) \/ LookSealed(h)
  PROVE  CapsInv'
<1>1. /\ handler \in [Handlers -> Handler] /\ handler[h] \in Handler /\ Backend(h) \in Stateful
      /\ Typed /\ Progress(h) /\ events \in 0..MaxEvents /\ manifest \in [Stateful -> BOOLEAN]
  BY AtHand DEF Typed
<1>2. /\ UNCHANGED <<row, sealed, deploy, clusterVars>> /\ manifest' = manifest
      /\ events' \in 0..MaxEvents
  BY <1>1, CapabilitiesAssumption
     DEF ReadManifest, ReadSealed, LookManifest, LookSealed, ReadsManifest, ReadsSealed, repoVars,
         Event, NoEvent
<1>3. ASSUME NEW to \in {"writeManifest", "lookSealed"}, ReadsManifest(h, to),
             handler[h].pc = IF to = "writeManifest" THEN "readManifest" ELSE "lookManifest"
      PROVE  CapsInv'
  <2>1. PICK found \in BOOLEAN, misread \in BOOLEAN :
          /\ handler' = [handler EXCEPT ![h] =
               [handler[h] EXCEPT !.found = found, !.misread = misread, !.pc = to]]
          /\ handler[h].misread => misread
          /\ ~misread => found = manifest[Backend(h)]
    <3>1. CASE Put(h, [handler[h] EXCEPT !.found = manifest[Backend(h)], !.pc = to])
      <4>1. manifest[Backend(h)] \in BOOLEAN /\ handler[h].misread \in BOOLEAN
        BY <1>1 DEF Handler
      <4>2. [handler[h] EXCEPT !.found = manifest[Backend(h)], !.pc = to]
            = [handler[h] EXCEPT !.found = manifest[Backend(h)], !.misread = handler[h].misread, !.pc = to]
        BY <1>1 DEF Handler
      <4> QED BY <3>1, <4>1, <4>2 DEF Put
    <3>2. CASE Put(h, [handler[h] EXCEPT !.found = FALSE, !.misread = TRUE, !.pc = to])
      BY <3>2 DEF Put
    <3> QED BY <1>3, <3>1, <3>2 DEF ReadsManifest
  <2> DEFINE q == [handler[h] EXCEPT !.found = found, !.misread = misread, !.pc = to]
  <2>2. /\ q \in Handler /\ q.pc = to /\ q.found = found
        /\ q.tool = handler[h].tool /\ q.on = handler[h].on /\ q.off = handler[h].off
        /\ q.purge = handler[h].purge /\ q.prior = handler[h].prior /\ q.cur = handler[h].cur
        /\ q.next = handler[h].next /\ q.left = handler[h].left /\ q.cred = handler[h].cred
        /\ q.alone = handler[h].alone /\ q.misread = misread
    BY <1>1 DEF Handler, ToggleStages
  <2>3. handler' = [handler EXCEPT ![h] = q]
    BY <2>1
  <2> HIDE DEF q
  <2> QED BY ZenonT(30), <1>1, <1>2, <1>3, <2>1, <2>2, <2>3, MovesKeep DEF Enabling, Dropping, Holding
<1>4. ASSUME NEW to \in {"writeSealed", "dropManifest"}, ReadsSealed(h, to),
             handler[h].pc = IF to = "writeSealed" THEN "readSealed" ELSE "lookSealed"
      PROVE  CapsInv'
  <2>1. PICK file \in Sealed \cup {None}, misread \in BOOLEAN :
          /\ handler' = [handler EXCEPT ![h] =
               [handler[h] EXCEPT !.file = file, !.misread = misread, !.pc = to]]
          /\ handler[h].misread => misread
          /\ ~misread => file = sealed[Backend(h)]
    <3>1. CASE Put(h, [handler[h] EXCEPT !.file = sealed[Backend(h)], !.pc = to])
      <4>1. sealed[Backend(h)] \in Sealed \cup {None} /\ handler[h].misread \in BOOLEAN
        BY <1>1 DEF Handler, Typed
      <4>2. [handler[h] EXCEPT !.file = sealed[Backend(h)], !.pc = to]
            = [handler[h] EXCEPT !.file = sealed[Backend(h)], !.misread = handler[h].misread, !.pc = to]
        BY <1>1 DEF Handler
      <4> QED BY <3>1, <4>1, <4>2 DEF Put
    <3>2. CASE Put(h, [handler[h] EXCEPT !.file = None, !.misread = TRUE, !.pc = to])
      BY <3>2 DEF Put
    <3> QED BY <1>4, <3>1, <3>2 DEF ReadsSealed
  <2> DEFINE q == [handler[h] EXCEPT !.file = file, !.misread = misread, !.pc = to]
  <2>2. /\ q \in Handler /\ q.pc = to /\ q.found = handler[h].found /\ q.file = file
        /\ q.tool = handler[h].tool /\ q.on = handler[h].on /\ q.off = handler[h].off
        /\ q.purge = handler[h].purge /\ q.prior = handler[h].prior /\ q.cur = handler[h].cur
        /\ q.next = handler[h].next /\ q.left = handler[h].left /\ q.cred = handler[h].cred
        /\ q.alone = handler[h].alone /\ q.misread = misread
    BY <1>1 DEF Handler, ToggleStages
  <2>3. handler' = [handler EXCEPT ![h] = q]
    BY <2>1
  <2>4. handler[h].tool /\ handler[h].alone =>
          /\ to = "writeSealed" => manifest'[Backend(h)]
          /\ ~misread /\ to = "dropManifest" => handler[h].found = manifest'[Backend(h)]
    BY <1>1, <1>2, <1>4, <2>1 DEF Progress
  <2> HIDE DEF q
  <2>5. /\ handler[h].pc \in Enabling \cup Dropping
        /\ q.pc \in Enabling <=> handler[h].pc \in Enabling
        /\ q.pc \in Dropping <=> handler[h].pc \in Dropping
        /\ q.pc \in Holding => handler[h].pc \in Holding
    BY <1>4, <2>2 DEF Enabling, Dropping, Holding
  <2>6. handler[h].tool /\ handler[h].alone =>
          /\ q.pc \in {"readSealed", "writeSealed"} => manifest'[Backend(h)]
          /\ ~q.misread =>
               /\ q.pc \in {"lookSealed", "dropManifest"} => q.found = manifest'[Backend(h)]
               /\ q.pc \in {"dropManifest", "dropSealed"} => q.file = sealed[Backend(h)]
               /\ q.pc = "dropSealed" => ~manifest'[Backend(h)]
    BY <2>1, <2>2, <2>4
  <2> QED BY <1>1, <1>2, <2>1, <2>2, <2>3, <2>5, <2>6, MovesKeep
<1> QED BY <1>3, <1>4 DEF ReadManifest, ReadSealed, LookManifest, LookSealed, At

LEMMA ManifestKeeps ==
  ASSUME CapsInv, NEW h \in Handlers, WriteManifest(h) \/ DropManifest(h)
  PROVE  CapsInv'
<1>1. /\ handler \in [Handlers -> Handler] /\ handler[h] \in Handler /\ Backend(h) \in Stateful
      /\ Typed /\ Progress(h) /\ events \in 0..MaxEvents /\ manifest \in [Stateful -> BOOLEAN]
      /\ handler[h].pc \in {"writeManifest", "dropManifest"} /\ Busy(h)
      /\ events' = events /\ UNCHANGED clusterVars
  BY AtHand DEF Typed, WriteManifest, DropManifest, At, Busy, NoEvent
<1>2. CASE Refused(h)
  <2>1. Fails(h) /\ UNCHANGED <<row, repoVars, clusterVars>>
    BY <1>1, <1>2 DEF Refused
  <2> QED BY <1>1, <2>1, FailsKeeps
<1>3. ASSUME NEW to \in {"readSealed", "dropSealed"}, Goto(h, to), UNCHANGED <<row, sealed, deploy>>,
             handler[h].pc = IF to = "readSealed" THEN "writeManifest" ELSE "dropManifest",
             NEW m \in BOOLEAN, manifest' = [manifest EXCEPT ![Backend(h)] = m],
             to = "readSealed" => m,
             to = "dropSealed" => m = (~handler[h].found /\ manifest[Backend(h)])
      PROVE  CapsInv'
  <2> DEFINE q == [handler[h] EXCEPT !.pc = to]
  <2>1. handler' = [handler EXCEPT ![h] = q]
    BY <1>3 DEF Goto, Put
  <2>2. /\ q \in Handler /\ q.pc = to /\ q.found = handler[h].found /\ q.file = handler[h].file
        /\ q.tool = handler[h].tool /\ q.on = handler[h].on /\ q.off = handler[h].off
        /\ q.purge = handler[h].purge /\ q.prior = handler[h].prior /\ q.cur = handler[h].cur
        /\ q.next = handler[h].next /\ q.left = handler[h].left /\ q.cred = handler[h].cred
        /\ q.alone = handler[h].alone /\ q.misread = handler[h].misread
    BY <1>1 DEF Handler, ToggleStages
  <2> HIDE DEF q
  <2>3. /\ manifest' \in [Stateful -> BOOLEAN] /\ manifest'[Backend(h)] = m
        /\ \A b \in Stateful \ {Backend(h)} : manifest'[b] = manifest[b]
    BY <1>1, <1>3
  <2>4. handler[h].tool /\ handler[h].alone /\ ~handler[h].misread /\ to = "dropSealed" =>
          /\ handler[h].file = sealed[Backend(h)]
          /\ handler[h].found = manifest[Backend(h)]
    BY <1>1, <1>3 DEF Progress
  <2>5. handler[h].tool /\ handler[h].alone /\ ~handler[h].misread /\ to = "dropSealed" => ~m
    BY <1>3, <2>4
  <2> QED BY <1>1, <1>3, <2>1, <2>2, <2>3, <2>4, <2>5, MovesKeep DEF Enabling, Dropping, Holding
<1>4. CASE WriteManifest(h) /\ ~Refused(h)
  <2>1. /\ manifest' = [manifest EXCEPT ![Backend(h)] = TRUE] /\ Goto(h, "readSealed")
        /\ UNCHANGED <<row, sealed, deploy>> /\ handler[h].pc = "writeManifest"
    BY <1>4 DEF WriteManifest, At
  <2> QED BY <1>3, <2>1
<1>5. CASE DropManifest(h) /\ ~Refused(h)
  <2>1. handler[h].pc = "dropManifest" /\ Goto(h, "dropSealed") /\ UNCHANGED <<row, sealed, deploy>>
    BY <1>5 DEF DropManifest, At, repoVars
  <2>2. CASE handler[h].found /\ manifest' = [manifest EXCEPT ![Backend(h)] = FALSE]
    BY <1>3, <2>1, <2>2
  <2>3. CASE ~handler[h].found /\ manifest' = manifest
    <3>1. PICK m \in BOOLEAN : m = manifest[Backend(h)]
      BY <1>1
    <3>2. manifest' = [manifest EXCEPT ![Backend(h)] = m]
      BY <1>1, <2>3, <3>1
    <3>3. m = (~handler[h].found /\ manifest[Backend(h)])
      BY <2>3, <3>1
    <3> QED BY <1>3, <2>1, <3>2, <3>3
  <2> QED BY <1>5, <2>2, <2>3 DEF DropManifest, repoVars
<1> QED BY <1>2, <1>4, <1>5

LEMMA SealedKeeps ==
  ASSUME CapsInv, NEW h \in Handlers, WriteSealed(h) \/ DropSealed(h)
  PROVE  CapsInv'
<1> USE CapabilitiesAssumption
<1>1. /\ handler[h] \in Handler /\ Backend(h) \in Stateful /\ Knows(h)
      /\ Typed /\ Agree /\ Progress(h) /\ events \in 0..MaxEvents
      /\ handler[h].pc \in {"writeSealed", "dropSealed"} /\ Busy(h)
      /\ events' = events /\ UNCHANGED clusterVars
  BY AtHand DEF Typed, WriteSealed, DropSealed, At, Busy, NoEvent
<1>2. CASE Refused(h)
  <2>1. Fails(h) /\ UNCHANGED <<row, repoVars, clusterVars>>
    BY <1>1, <1>2 DEF Refused
  <2> QED BY <1>1, <2>1, FailsKeeps
<1>3. sealed \in [Stateful -> Sealed \cup {None}]
  BY <1>1 DEF Typed
<1>4. CASE WriteSealed(h) /\ ~Refused(h)
  <2>1. PICK n \in Blob :
          /\ sealed' = [sealed EXCEPT ![Backend(h)] = [cred |-> handler[h].cred, blob |-> n]]
          /\ Onwards(h) /\ UNCHANGED <<row, manifest, deploy>> /\ handler[h].pc = "writeSealed"
    BY <1>4 DEF WriteSealed, At
  <2>2. handler[h].cred \in Cred /\ (~cleared[Backend(h)] => handler[h].cred = row[Backend(h)])
    BY <1>1, <2>1 DEF Knows, Holding
  <2>3. [cred |-> handler[h].cred, blob |-> n] \in Sealed
        /\ [cred |-> handler[h].cred, blob |-> n] # None
    BY <2>2 DEF Sealed
  <2>4. /\ sealed' \in [Stateful -> Sealed \cup {None}]
        /\ \A b \in Stateful \ {Backend(h)} : sealed'[b] = sealed[b]
        /\ sealed'[Backend(h)] # None /\ sealed'[Backend(h)].cred = handler[h].cred
    BY <1>1, <1>3, <2>1, <2>3
  <2>5. handler[h].tool /\ handler[h].alone =>
          /\ manifest[Backend(h)] /\ handler[h].cred = row[Backend(h)]
          /\ Backend(h) \notin Dropped(h)
    BY <1>1, <2>1 DEF Progress, Holding, Enabling, Added, Dropped
  <2> QED BY <1>1, <2>1, <2>2, <2>4, <2>5, OnwardsKeep
<1>5. CASE DropSealed(h) /\ ~Refused(h)
  <2>1. /\ Onwards(h) /\ UNCHANGED <<row, manifest, deploy>> /\ handler[h].pc = "dropSealed"
        /\ \/ handler[h].file = None /\ sealed' = sealed
           \/ handler[h].file # None /\ sealed' = [sealed EXCEPT ![Backend(h)] = None]
    BY <1>5 DEF DropSealed, At, repoVars
  <2>2. /\ sealed' \in [Stateful -> Sealed \cup {None}]
        /\ \A b \in Stateful \ {Backend(h)} : sealed'[b] = sealed[b]
        /\ sealed'[Backend(h)] \in {None, sealed[Backend(h)]}
        /\ handler[h].file = sealed[Backend(h)] => sealed'[Backend(h)] = None
    BY <1>1, <1>3, <2>1
  <2>3. handler[h].tool /\ handler[h].alone =>
          /\ Backend(h) \notin Added(h)
          /\ ~handler[h].misread => ~manifest[Backend(h)] /\ handler[h].file = sealed[Backend(h)]
    BY <1>1, <2>1 DEF Progress, Dropping, Added, Dropped
  <2> QED BY <1>1, <2>1, <2>2, <2>3, OnwardsKeep DEF Agree
<1> QED BY <1>2, <1>4, <1>5

\* The steps after the backends: the Deployment, the route, and the data.
LEMMA LaterKeeps ==
  ASSUME CapsInv, NEW h \in Handlers, NEW q \in Handler,
         handler[h].pc \in {"readDeploy", "writeDeploy", "gateway", "dropVolume", "clear"},
         q.pc \in {"writeDeploy", "gateway", "dropVolume", "clear", "done"},
         handler' = [handler EXCEPT ![h] = q],
         q.tool = handler[h].tool, q.on = handler[h].on, q.off = handler[h].off,
         q.purge = handler[h].purge, q.prior = handler[h].prior, q.cur = handler[h].cur,
         q.next = handler[h].next, q.left = handler[h].left,
         q.alone = handler[h].alone, q.misread = handler[h].misread,
         q.pc \in {"dropVolume", "clear"} => handler[h].purge,
         q.pc = "writeDeploy" => q.seen = deploy',
         Typed', Agree', UNCHANGED <<manifest, sealed>>,
         \A b \in Stateful : cleared'[b] # cleared[b] \/ row'[b] # row[b] =>
           q.pc = "done" /\ cleared'[b] /\ handler[h].purge,
         handler[h].tool /\ handler[h].alone =>
           /\ deploy' = IF q.pc = "writeDeploy" THEN q.cur ELSE q.next
           /\ q.pc \in {"dropVolume", "clear", "done"} => /\ "mcp" \in Added(h) => route'
                                                          /\ "mcp" \in Dropped(h) => ~route'
  PROVE  CapsInv'
<1>1. /\ handler \in [Handlers -> Handler] /\ handler[h] \in Handler
      /\ Typed /\ Own(h) /\ Knows(h) /\ Progress(h) /\ Busy(h)
  BY AtHand DEF Busy
<1>2. /\ handler[h].pc \notin {"idle", "done", "detect"} \cup Enabling \cup Dropping
      /\ q.pc \notin {"idle", "detect"} \cup Enabling \cup Dropping \cup Holding
  BY DEF Enabling, Dropping, Holding
<1>3. handler'[h] = q
  BY <1>1
<1>4. Added(h)' = Added(h) /\ Dropped(h)' = Dropped(h)
  BY <1>3 DEF Added, Dropped
<1>5. Knows(h)'
  BY <1>1, <1>2, <1>3 DEF Knows
<1>6. Progress(h)'
  <2> SUFFICES ASSUME handler[h].tool, handler[h].alone PROVE Progress(h)'
    BY <1>3 DEF Progress
  <2>1. /\ Added(h) \subseteq q.on /\ Dropped(h) \subseteq q.off /\ q.left = {}
    BY <1>1, <1>2 DEF Progress
  <2>2. \A b \in Added(h) \cap Stateful : manifest[b] /\ sealed[b] # None /\ sealed[b].cred = row'[b]
    <3> SUFFICES ASSUME NEW b \in Added(h) \cap Stateful
                 PROVE  manifest[b] /\ sealed[b] # None /\ sealed[b].cred = row'[b]
      OBVIOUS
    <3>1. ~handler[h].purge
      BY <1>1, <1>2 DEF Progress, Knows
    <3>2. row'[b] = row[b]
      BY <3>1
    <3> QED BY <1>1, <1>2, <2>1, <3>2 DEF Progress
  <2>3. \A b \in Dropped(h) \cap Stateful : ~q.misread => ~manifest[b] /\ sealed[b] = None
    BY <1>1, <1>2, <2>1 DEF Progress
  <2> QED BY <1>2, <1>3, <1>4, <2>1, <2>2, <2>3 DEF Progress
<1>7. Own(h)'
  BY <1>1, <1>2, <1>3, <1>5, <1>6 DEF Own
<1>8. \A b \in Stateful : ~cleared'[b] => ~cleared[b] /\ (row[b] # None => row'[b] = row[b])
  BY <1>1 DEF Typed
<1> QED BY <1>1, <1>7, <1>8, StepKeeps

LEMMA DeployKeeps ==
  ASSUME CapsInv, NEW h \in Handlers, ReadDeploy(h) \/ WriteDeploy(h)
  PROVE  CapsInv'
<1>1. /\ handler \in [Handlers -> Handler] /\ handler[h] \in Handler /\ Busy(h)
      /\ Typed /\ Agree /\ Progress(h) /\ events \in 0..MaxEvents /\ deploy \in SUBSET Caps
      /\ handler[h].pc \in {"readDeploy", "writeDeploy"} /\ events' = events
      /\ UNCHANGED clusterVars /\ handler[h].next \in SUBSET Caps
  BY AtHand DEF Typed, ReadDeploy, WriteDeploy, At, Busy, NoEvent, Handler
<1>2. CASE ReadDeploy(h)
  <2> DEFINE q == [handler[h] EXCEPT !.seen = deploy, !.pc = "writeDeploy"]
  <2>1. handler' = [handler EXCEPT ![h] = q] /\ UNCHANGED <<row, repoVars>>
    BY <1>2 DEF ReadDeploy, Put
  <2>2. /\ q \in Handler /\ q.pc = "writeDeploy" /\ q.seen = deploy
        /\ q.tool = handler[h].tool /\ q.on = handler[h].on /\ q.off = handler[h].off
        /\ q.purge = handler[h].purge /\ q.prior = handler[h].prior /\ q.cur = handler[h].cur
        /\ q.next = handler[h].next /\ q.left = handler[h].left
        /\ q.alone = handler[h].alone /\ q.misread = handler[h].misread
    BY <1>1 DEF Handler, ToggleStages
  <2> HIDE DEF q
  <2>3. UNCHANGED <<row, manifest, sealed, deploy, route, running, disk, doomed, cleared, events>>
    BY <1>1, <2>1 DEF repoVars, clusterVars
  <2>4. Typed' /\ Agree'
    BY <1>1, <2>3 DEF Typed, Agree
  <2>5. handler[h].tool /\ handler[h].alone => deploy = handler[h].cur
    BY <1>1, <1>2 DEF Progress, ReadDeploy, At
  <2> QED BY <1>1, <2>1, <2>2, <2>3, <2>4, <2>5, LaterKeeps
<1>3. CASE WriteDeploy(h) /\ Refused(h)
  <2>1. Fails(h) /\ UNCHANGED <<row, repoVars, clusterVars>>
    BY <1>1, <1>3 DEF Refused
  <2> QED BY <1>1, <2>1, FailsKeeps
<1>4. CASE WriteDeploy(h) /\ ~Refused(h)
  <2> DEFINE q == [handler[h] EXCEPT !.seen = {}, !.pc = "gateway"]
  <2>1. /\ handler' = [handler EXCEPT ![h] = q] /\ UNCHANGED <<row, manifest, sealed>>
        /\ deploy' = IF handler[h].seen = handler[h].next THEN deploy ELSE handler[h].next
    BY <1>4 DEF WriteDeploy, Put
  <2>2. /\ q \in Handler /\ q.pc = "gateway"
        /\ q.tool = handler[h].tool /\ q.on = handler[h].on /\ q.off = handler[h].off
        /\ q.purge = handler[h].purge /\ q.prior = handler[h].prior /\ q.cur = handler[h].cur
        /\ q.next = handler[h].next /\ q.left = handler[h].left
        /\ q.alone = handler[h].alone /\ q.misread = handler[h].misread
    BY <1>1 DEF Handler, ToggleStages
  <2> HIDE DEF q
  <2>3. UNCHANGED <<row, manifest, sealed, route, running, disk, doomed, cleared, events>>
    BY <1>1, <2>1 DEF clusterVars
  <2>4. Typed' /\ Agree'
    BY <1>1, <2>1, <2>3 DEF Typed, Agree
  <2>5. handler[h].tool /\ handler[h].alone => deploy' = handler[h].next
    BY <1>1, <1>4, <2>1 DEF Progress, WriteDeploy, At
  <2> QED BY <1>1, <2>1, <2>2, <2>3, <2>4, <2>5, LaterKeeps
<1> QED BY <1>2, <1>3, <1>4

LEMMA GatewayKeeps ==
  ASSUME CapsInv, NEW h \in Handlers, Gateway(h)
  PROVE  CapsInv'
<1>1. /\ handler \in [Handlers -> Handler] /\ handler[h] \in Handler
      /\ Typed /\ Agree /\ Progress(h) /\ handler[h].pc = "gateway" /\ events' = events
      /\ UNCHANGED <<row, manifest, sealed, deploy, running, disk, doomed, cleared>>
      /\ route' = Routed(h)
  BY AtHand DEF Typed, Gateway, At, NoEvent, repoVars
<1>2. PICK to \in {"dropVolume", "done"} :
        Goto(h, to) /\ (to = "dropVolume" => handler[h].purge)
  BY DEF Gateway
<1> DEFINE q == [handler[h] EXCEPT !.pc = to]
<1>3. handler' = [handler EXCEPT ![h] = q]
  BY <1>2 DEF Goto, Put
<1>4. /\ q \in Handler /\ q.pc = to
      /\ q.tool = handler[h].tool /\ q.on = handler[h].on /\ q.off = handler[h].off
      /\ q.purge = handler[h].purge /\ q.prior = handler[h].prior /\ q.cur = handler[h].cur
      /\ q.next = handler[h].next /\ q.left = handler[h].left
      /\ q.alone = handler[h].alone /\ q.misread = handler[h].misread
  BY <1>1 DEF Handler, ToggleStages
<1> HIDE DEF q
<1>5. route' \in BOOLEAN
  BY <1>1 DEF Routed, Typed
<1>6. ("mcp" \in Added(h) => route') /\ ("mcp" \in Dropped(h) => ~route')
  BY <1>1 DEF Routed, Added, Dropped
<1>7. Typed' /\ Agree'
  BY <1>1, <1>5 DEF Typed, Agree
<1>8. handler[h].tool /\ handler[h].alone => deploy = handler[h].next
  BY <1>1 DEF Progress
<1> QED BY <1>1, <1>2, <1>3, <1>4, <1>6, <1>7, <1>8, LaterKeeps

\* Who has the data destroyed: the volume, at once or when its pod is gone, then the row.
LEMMA PurgeKeeps ==
  ASSUME CapsInv, NEW h \in Handlers, DropVolume(h) \/ ClearCreds(h)
  PROVE  CapsInv'
<1>1. /\ handler \in [Handlers -> Handler] /\ handler[h] \in Handler
      /\ Typed /\ Agree /\ Progress(h) /\ handler[h].pc \in {"dropVolume", "clear"}
      /\ UNCHANGED <<manifest, sealed, deploy, route, running>>
      /\ handler[h].purge
  BY AtHand DEF Typed, DropVolume, ClearCreds, At, repoVars, Knows
<1>2. PICK to \in {"clear", "done"} :
        /\ Goto(h, to)
        /\ to = "clear" => DropVolume(h)
        /\ to = "done" => ClearCreds(h)
  BY DEF DropVolume, ClearCreds
<1> DEFINE q == [handler[h] EXCEPT !.pc = to]
<1>3. handler' = [handler EXCEPT ![h] = q]
  BY <1>2 DEF Goto, Put
<1>4. /\ q \in Handler /\ q.pc = to
      /\ q.tool = handler[h].tool /\ q.on = handler[h].on /\ q.off = handler[h].off
      /\ q.purge = handler[h].purge /\ q.prior = handler[h].prior /\ q.cur = handler[h].cur
      /\ q.next = handler[h].next /\ q.left = handler[h].left
      /\ q.alone = handler[h].alone /\ q.misread = handler[h].misread
  BY <1>1 DEF Handler, ToggleStages
<1> HIDE DEF q
<1>5. CASE to = "clear"
  <2>1. UNCHANGED <<row, cleared>> /\ DropVolume(h) /\ events' \in 0..MaxEvents
    BY <1>1, <1>2, <1>5, CapabilitiesAssumption DEF DropVolume, Event, NoEvent, Typed
  <2>2. /\ doomed' \in [Stateful -> BOOLEAN] /\ disk' \in [Stateful -> Cred \cup {None}]
        /\ \A b \in Stateful : disk'[b] = disk[b] \/ (disk'[b] = None /\ ~running[b])
    <3>1. CASE UNCHANGED <<doomed, disk>>
      BY <1>1, <3>1 DEF Typed
    <3>2. PICK b : /\ doomed' = [doomed EXCEPT ![b] = running[b]]
                   /\ disk' = [disk EXCEPT ![b] = IF running[b] THEN disk[b] ELSE None]
               \/ UNCHANGED <<doomed, disk>>
      BY <2>1 DEF DropVolume
    <3>3. CASE ~UNCHANGED <<doomed, disk>>
      <4>1. doomed' \in [Stateful -> BOOLEAN]
        BY <1>1, <3>2, <3>3 DEF Typed
      <4> QED BY <1>1, <3>2, <3>3, <4>1 DEF Typed
    <3> QED BY <3>1, <3>3
  <2>3. Typed' /\ Agree'
    BY <1>1, <2>1, <2>2 DEF Typed, Agree
  <2>4. handler[h].tool /\ handler[h].alone =>
          /\ deploy = handler[h].next
          /\ ("mcp" \in Added(h) => route) /\ ("mcp" \in Dropped(h) => ~route)
    BY <1>1 DEF Progress
  <2> QED BY <1>1, <1>3, <1>4, <1>5, <2>1, <2>3, <2>4, LaterKeeps
<1>6. CASE to = "done"
  <2>1. /\ ClearCreds(h) /\ UNCHANGED <<disk, doomed, events>>
    BY <1>2, <1>6 DEF ClearCreds, NoEvent
  <2>2. PICK p : row' = [row EXCEPT ![p] = None] /\ cleared' = [cleared EXCEPT ![p] = TRUE]
    BY <2>1 DEF ClearCreds
  <2>3. /\ row' \in [Stateful -> Cred \cup {None}] /\ cleared' \in [Stateful -> BOOLEAN]
        /\ \A b \in Stateful : b # p => row'[b] = row[b] /\ cleared'[b] = cleared[b]
        /\ p \in Stateful => cleared'[p]
    BY <1>1, <2>2 DEF Typed
  <2>5. Typed' /\ Agree'
    BY <1>1, <2>1, <2>3 DEF Typed, Agree
  <2>6. handler[h].tool /\ handler[h].alone =>
          /\ deploy = handler[h].next
          /\ ("mcp" \in Added(h) => route) /\ ("mcp" \in Dropped(h) => ~route)
    BY <1>1 DEF Progress
  <2>7. \A b \in Stateful : cleared'[b] # cleared[b] \/ row'[b] # row[b] =>
          q.pc = "done" /\ cleared'[b] /\ handler[h].purge
    BY <1>1, <1>4, <1>6, <2>3
  <2>8. handler[h].tool /\ handler[h].alone =>
          /\ deploy' = IF q.pc = "writeDeploy" THEN q.cur ELSE q.next
          /\ q.pc \in {"dropVolume", "clear", "done"} => /\ "mcp" \in Added(h) => route'
                                                         /\ "mcp" \in Dropped(h) => ~route'
    BY <1>1, <1>4, <1>6, <2>6
  <2> QED BY <1>1, <1>3, <1>4, <1>6, <2>5, <2>7, <2>8, LaterKeeps
<1> QED BY <1>5, <1>6

\* ArgoCD: what starts is started with the sealed secret that is there, on the volume there
\* is or on a new one.
LEMMA SyncKeeps ==
  ASSUME CapsInv, Sync
  PROVE  CapsInv'
<1>1. Typed /\ Agree /\ handler' = handler
      /\ UNCHANGED <<row, manifest, sealed, deploy, route, cleared, events>>
  BY DEF CapsInv, CapsTypeOK, Typed, Sync, repoVars
<1>2. ASSUME NEW b \in Stateful
      PROVE  /\ running'[b] = Runs(b) /\ Runs(b) \in BOOLEAN
             /\ disk'[b] \in Cred \cup {None}
             /\ \/ disk'[b] = disk[b] /\ (Runs(b) => disk[b] # None)
                \/ ~Runs(b) /\ disk'[b] = None
                \/ sealed[b] # None /\ disk'[b] = sealed[b].cred /\ sealed[b].cred \in Cred
  <2>1. running'[b] = Runs(b)
    BY DEF Sync
  <2>2. Runs(b) \in BOOLEAN
    BY DEF Runs
  <2>3. sealed[b] # None => sealed[b].cred \in Cred
    BY <1>1 DEF Typed, Sealed
  <2>4. CASE ~Runs(b)
    <3>1. disk'[b] = IF doomed[b] THEN None ELSE disk[b]
      BY <2>4 DEF Sync
    <3> QED BY <1>1, <2>1, <2>2, <2>4, <3>1 DEF Typed
  <2>5. CASE Runs(b)
    <3>1. disk'[b] = IF disk[b] = None THEN sealed[b].cred ELSE disk[b]
      BY <2>5 DEF Sync
    <3>2. disk[b] = None => sealed[b] # None
      BY <1>1, <2>5 DEF Runs, Agree
    <3> QED BY <1>1, <2>1, <2>2, <2>3, <2>5, <3>1, <3>2 DEF Typed
  <2> QED BY <2>4, <2>5
<1>3. running' \in [Stateful -> BOOLEAN] /\ doomed' \in [Stateful -> BOOLEAN]
  <2>1. \A b \in Stateful : (doomed[b] /\ Runs(b)) \in BOOLEAN
    OBVIOUS
  <2> QED BY <1>2, <2>1 DEF Sync
<1>4. disk' \in [Stateful -> Cred \cup {None}]
  BY <1>2 DEF Sync
<1>5. Agree'
  <2> SUFFICES ASSUME NEW b \in Stateful
               PROVE  /\ running'[b] => disk'[b] # None
                      /\ ~cleared[b] => /\ sealed[b] # None => sealed[b].cred = row[b]
                                        /\ disk'[b] # None => disk'[b] = row[b]
    BY <1>1 DEF Agree
  <2>1. running'[b] => disk'[b] # None
    BY <1>2, CapabilitiesAssumption
  <2> QED BY <1>1, <1>2, <2>1 DEF Agree
<1>6. \A h \in Handlers : Own(h)' /\ Sole(h)'
  BY <1>1 DEF CapsInv, Own, Sole, Knows, Progress, Added, Dropped, Backend, Busy
<1>7. CapsTypeOK'
  BY <1>1, <1>3, <1>4 DEF CapsInv, CapsTypeOK
<1> QED BY <1>5, <1>6, <1>7 DEF CapsInv

LEMMA CapsInitially == Init => CapsInv
<1> SUFFICES ASSUME Init PROVE CapsInv
  OBVIOUS
<1>1. \A h \in Handlers : handler[h] = Unused
  BY DEF Init
<1>2. CapsTypeOK
  <2>1. deploy \in SUBSET Caps /\ events \in 0..MaxEvents
    BY CapabilitiesAssumption DEF Init
  <2>2. route \in BOOLEAN
    BY Zenon DEF Init
  <2>3. row \in [Stateful -> Cred \cup {None}] /\ sealed \in [Stateful -> Sealed \cup {None}]
        /\ disk \in [Stateful -> Cred \cup {None}]
    BY DEF Init
  <2>4. /\ manifest \in [Stateful -> BOOLEAN] /\ running \in [Stateful -> BOOLEAN]
        /\ doomed \in [Stateful -> BOOLEAN] /\ cleared \in [Stateful -> BOOLEAN]
    BY DEF Init
  <2>5. handler \in [Handlers -> Handler]
    BY TypeOfUnused DEF Init
  <2> QED BY <2>1, <2>2, <2>3, <2>4, <2>5 DEF CapsTypeOK
<1>3. Agree
  BY DEF Init, Agree
<1>4. \A h \in Handlers : Own(h) /\ Sole(h)
  BY <1>1, TypeOfUnused DEF Own, Sole, Knows, Progress, Enabling, Dropping, Holding, Unused
<1> QED BY <1>2, <1>3, <1>4 DEF CapsInv

LEMMA CapsStep == CapsInv /\ [Next]_vars => CapsInv'
<1> SUFFICES ASSUME CapsInv, [Next]_vars PROVE CapsInv'
  OBVIOUS
<1>1. CASE UNCHANGED vars
  <2>1. UNCHANGED <<row, manifest, sealed, deploy, route, running, disk, doomed, handler, cleared,
                    events>>
    BY <1>1 DEF vars
  <2> QED BY <2>1 DEF CapsInv, CapsTypeOK, Agree, Own, Sole, Knows, Progress, Added, Dropped,
                      Backend, Busy
<1>2. ASSUME NEW h \in Handlers, NEW on \in SUBSET Caps, NEW off \in SUBSET Caps,
             NEW purge \in BOOLEAN, SetCapabilities(h, on, off, purge)
      PROVE  CapsInv'
  BY <1>2, SetCapabilitiesKeeps
<1>3. ASSUME NEW h \in Handlers, NEW on \in BOOLEAN, NEW purge \in BOOLEAN,
             ToggleDatabase(h, on, purge) \/ ToggleStorage(h, on, purge)
      PROVE  CapsInv'
  BY <1>3, ToggleKeeps DEF ToggleDatabase, ToggleStorage, Stateful
<1>4. ASSUME NEW h \in Handlers, HandlerStep(h) PROVE CapsInv'
  <2>1. CASE CallFails(h)
    <3>1. Busy(h) /\ Fails(h) /\ UNCHANGED <<row, repoVars, clusterVars>> /\ events' \in 0..MaxEvents
      BY <2>1, CapabilitiesAssumption DEF CallFails, Event, CapsInv, CapsTypeOK
    <3> QED BY <3>1, FailsKeeps
  <2>2. CASE ClaimPassword(h) \/ ClaimKeys(h)
    BY <2>2, ClaimKeeps DEF ClaimPassword, ClaimKeys, Stateful
  <2>3. CASE Enabled(h)
    BY <2>3, ReadsKeep, ManifestKeeps, SealedKeeps DEF Enabled
  <2>4. CASE Disabled(h)
    BY <2>4, ReadsKeep, ManifestKeeps, SealedKeeps DEF Disabled
  <2> QED BY <1>4, <2>1, <2>2, <2>3, <2>4, DetectKeeps, DeployKeeps, GatewayKeeps, PurgeKeeps
          DEF HandlerStep, EnablePostgres, EnableGarage, DisablePostgres, DisableGarage
<1> QED BY <1>1, <1>2, <1>3, <1>4, SyncKeeps DEF Next

THEOREM CapsInvariance == Spec => []CapsInv
BY CapsInitially, CapsStep, PTL DEF Spec

\* Until data is destroyed the row, the sealed secret and the volume of a backend agree on
\* its credentials, whoever raced to enable it and whatever failed.
THEOREM CredentialsAgree == Spec => []OneCredential
<1>1. CapsInv => OneCredential
  BY DEF CapsInv, Agree, OneCredential
<1> QED BY <1>1, CapsInvariance, PTL

\* A change of capabilities that succeeded with no other request beside it is whole.
THEOREM LoneToggleIsWhole == Spec => []ToggleIsWhole
<1>1. CapsInv => ToggleIsWhole
  <2> SUFFICES ASSUME CapsInv, NEW h \in Handlers, At(h, "done"), handler[h].tool, handler[h].alone
               PROVE  LET added == handler[h].next \ handler[h].cur
                          dropped == handler[h].cur \ handler[h].next
                      IN /\ deploy = handler[h].next
                         /\ \A b \in added \cap Stateful :
                              manifest[b] /\ sealed[b] # None /\ sealed[b].cred = row[b]
                         /\ \A b \in dropped \cap Stateful :
                              ~handler[h].misread => ~manifest[b] /\ sealed[b] = None
                         /\ "mcp" \in added => route
                         /\ "mcp" \in dropped => ~route
    BY DEF ToggleIsWhole
  <2>1. Progress(h) /\ handler[h].pc = "done"
    BY DEF CapsInv, Own, At
  <2> QED BY <2>1 DEF Progress, Added, Dropped, Enabling, Dropping
<1> QED BY <1>1, CapsInvariance, PTL
=============================================================================
