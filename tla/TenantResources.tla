-------------------------- MODULE TenantResources ---------------------------
(* The resource budget of one project: services/tenant-defaults.ts, the    *)
(* /admin/resources handlers of routes/admin.ts, and what they do to the   *)
(* cluster in services/k8s.ts (typescript/portal/src).  An administrator   *)
(* sets the platform's defaults, which a process keeps in memory, and the  *)
(* project's overrides; a reconcile writes what follows from both into the *)
(* namespace's ResourceQuota and LimitRange, one after the other, and      *)
(* grows the data volumes.  A step is what happens between two awaits.     *)
(***************************************************************************)
EXTENDS Naturals

CONSTANTS
  Knobs, QuotaKnobs, LimitKnobs, \* all, and those that go into either object
  Overridable,                   \* perProject
  MaxStorage, DefaultStorage,    \* the budget for all volumes, and the size of a new one
  Rules,                         \* the pairs <<a, b>> where a must not exceed b
  MaxPvcSize,                    \* the chart's cap on one volume
  Chart,                         \* the chart's defaults
  DefaultForms, OverrideForms, Sizes, \* what administrators submit (bounds)
  Requests, MaxSubmits, MaxFailures,  \* at once, and in all (bounds)
  Inherit                        \* a blank field, no override

Volumes == {"postgres", "garage"}    \* MANAGED_PVCS, in this order
Quantity == Nat \ {0}
Config == [Knobs -> Quantity]
Overrides == [Overridable -> Quantity \cup {Inherit}]
NoOverrides == [k \in Overridable |-> Inherit]

\* validateTenantDefaults
Valid(v) == (\A r \in Rules : v[r[1]] <= v[r[2]]) /\ v[DefaultStorage] <= MaxPvcSize

ASSUME TenantResourcesAssumption ==
  /\ QuotaKnobs \subseteq Knobs /\ LimitKnobs \subseteq Knobs /\ Overridable \subseteq Knobs
  /\ QuotaKnobs \cap LimitKnobs = {} /\ MaxStorage \in QuotaKnobs
  /\ DefaultStorage \in Knobs \ Overridable
  /\ Rules \subseteq Knobs \X Knobs /\ MaxPvcSize \in Quantity /\ Sizes \subseteq Quantity
  /\ Chart \in Config /\ Valid(Chart) /\ DefaultForms \subseteq Config
  /\ OverrideForms \subseteq Overrides /\ Inherit \notin Nat
  /\ MaxSubmits \in Nat /\ MaxFailures \in Nat

VARIABLES
  saved,     \* the row of platform_tenant_defaults; before the first save, the chart's
  cached,    \* the defaults that the process remembers
  overrides, \* projects.resource_overrides
  namespace, \* is there one?
  live,      \* the fields of the ResourceQuota and the LimitRange
  volume,    \* the size of each data volume, or Inherit if there is none
  req,
  lowered,   \* history: did a default that is in memory ever go down?
  submits, failures

resourceVars == <<saved, cached, overrides, namespace, live, volume, req, lowered, submits, failures>>

Enforced == QuotaKnobs \cup LimitKnobs

\* `vol`: whose turn it is; `told`: the volumes reported to be as large as was asked, by the
\* PATCH or before it, and not destroyed since.
Req == [kind : {"none", "load", "defaults", "save", "clear", "all", "baseline"},
        pc : {"idle", "store", "render", "loaded", "row", "namespace", "quota", "limits",
              "volume", "grow", "done"},
        config : Config, row : Overrides, size : Sizes \cup {Inherit},
        vol : Volumes, told : SUBSET Volumes, ok : BOOLEAN, alone : BOOLEAN]
Idle == [kind |-> "none", pc |-> "idle", config |-> Chart, row |-> NoOverrides,
         size |-> Inherit, vol |-> "postgres", told |-> {}, ok |-> FALSE, alone |-> FALSE]

TypeOK ==
  /\ saved \in Config /\ cached \in Config /\ overrides \in Overrides
  /\ namespace \in BOOLEAN /\ live \in [Enforced -> Quantity \cup {Inherit}]
  /\ volume \in [Volumes -> 1..MaxPvcSize \cup {Inherit}]
  /\ req \in [Requests -> Req] /\ lowered \in BOOLEAN
  /\ submits \in 0..MaxSubmits /\ failures \in 0..MaxFailures

ResourcesInit ==
  /\ saved = Chart /\ cached = Chart /\ overrides = NoOverrides
  /\ namespace = FALSE /\ live = [k \in Enforced |-> Inherit]
  /\ volume = [v \in Volumes |-> Inherit]
  /\ req = [r \in Requests |-> Idle]
  /\ lowered = FALSE /\ submits = 0 /\ failures = 0

-----------------------------------------------------------------------------
\* effectiveForProject: an override counts while the default has not overtaken it.
Effective(o, d) ==
  [k \in Knobs |-> IF k \in Overridable /\ o[k] # Inherit /\ o[k] >= d[k] THEN o[k] ELSE d[k]]

\* The process's memory of the defaults changes.
Remember(d) ==
  /\ cached' = d
  /\ lowered' = (lowered \/ \E k \in Knobs : d[k] < cached[k])

Active(r) == req[r].pc \notin {"idle", "done"}
\* A request begins; `alone` says that no other was under way at the same time.
Begin(r, rec) ==
  /\ req[r] = Idle /\ submits < MaxSubmits /\ submits' = submits + 1
  /\ req' = [q \in Requests |->
       IF q = r THEN [rec EXCEPT !.ok = TRUE, !.alone = \A p \in Requests : ~Active(p)]
       ELSE IF Active(q) THEN [req[q] EXCEPT !.alone = FALSE] ELSE Idle]
  /\ UNCHANGED failures
Go(r, pc) == req' = [req EXCEPT ![r].pc = pc]
Stays == UNCHANGED <<submits, failures>>

-----------------------------------------------------------------------------
\* loadTenantDefaults, of the index page and of the page that follows a save.
Load(r) ==
  /\ Begin(r, [Idle EXCEPT !.kind = "load", !.pc = "render"])
  /\ UNCHANGED <<saved, cached, overrides, namespace, live, volume, lowered>>
ReadDefaults(r) ==
  /\ req[r].pc = "render"
  /\ req' = [req EXCEPT ![r].pc = "loaded", ![r].config = saved]
  /\ UNCHANGED <<saved, cached, overrides, namespace, live, volume, lowered>> /\ Stays
Loaded(r) ==
  /\ req[r].pc = "loaded" /\ Remember(req[r].config) /\ Go(r, "done")
  /\ UNCHANGED <<saved, overrides, namespace, live, volume>> /\ Stays

\* POST /resources/defaults
SaveDefaults(r) ==
  /\ \E d \in DefaultForms : Valid(d) /\
       Begin(r, [Idle EXCEPT !.kind = "defaults", !.pc = "store", !.config = d])
  /\ UNCHANGED <<saved, cached, overrides, namespace, live, volume, lowered>>
StoreDefaults(r) ==
  /\ req[r].kind = "defaults" /\ req[r].pc = "store"
  /\ saved' = req[r].config /\ Go(r, "row")
  /\ UNCHANGED <<cached, overrides, namespace, live, volume, lowered>> /\ Stays
CacheDefaults(r) ==
  /\ req[r].kind = "defaults" /\ req[r].pc = "row"
  /\ Remember(req[r].config) /\ Go(r, "render")
  /\ UNCHANGED <<saved, overrides, namespace, live, volume>> /\ Stays

\* POST /resources/:slug up to the first await: every value above the default, those that
\* equal it left out, the result valid, the size of the volume between its bounds.
Kept(form) == [k \in Overridable |-> IF form[k] = cached[k] THEN Inherit ELSE form[k]]
Accepted(form) ==
  /\ \A k \in Overridable : form[k] # Inherit => form[k] >= cached[k]
  /\ Valid(Effective(Kept(form), cached))
AcceptsAlone(form) ==    \* a mutant: only the form itself is looked at
  \A k \in Overridable : form[k] # Inherit => form[k] >= cached[k]
Checks(form) == Accepted(form)
Save(r) ==
  /\ \E form \in OverrideForms, size \in Sizes \cup {Inherit} :
       /\ Checks(form)
       /\ size # Inherit => size >= cached[DefaultStorage] /\ size <= MaxPvcSize
       /\ Begin(r, [Idle EXCEPT !.kind = "save", !.pc = "store", !.row = Kept(form), !.size = size])
  /\ UNCHANGED <<saved, cached, overrides, namespace, live, volume, lowered>>
\* POST /resources/:slug/clear
Clear(r) ==
  /\ Begin(r, [Idle EXCEPT !.kind = "clear", !.pc = "store"])
  /\ UNCHANGED <<saved, cached, overrides, namespace, live, volume, lowered>>
\* setProjectResourceOverrides; reconcileTenantResources resolves when that has returned.
StoreRow(r) ==
  /\ req[r].kind \in {"save", "clear"} /\ req[r].pc = "store"
  /\ overrides' = req[r].row
  /\ req' = [req EXCEPT ![r].pc = "quota", ![r].config = Effective(req[r].row, cached)]
  /\ UNCHANGED <<saved, cached, namespace, live, volume, lowered>> /\ Stays

\* POST /resources/apply-all: the rows of all projects first, then this one's turn.
ApplyAll(r) ==
  /\ Begin(r, [Idle EXCEPT !.kind = "all", !.pc = "row", !.row = overrides])
  /\ UNCHANGED <<saved, cached, overrides, namespace, live, volume, lowered>>
ItsTurn(r) ==
  /\ req[r].kind = "all" /\ req[r].pc = "row"
  /\ req' = [req EXCEPT ![r].pc = "quota", ![r].config = Effective(req[r].row, cached)]
  /\ UNCHANGED <<saved, cached, overrides, namespace, live, volume, lowered>> /\ Stays

\* applyNamespaceBaseline of the project's creation.  A lookup that fails means no overrides.
Baseline(r) ==
  /\ ~namespace /\ \A q \in Requests : req[q].kind # "baseline"
  /\ \E o \in {overrides, NoOverrides} : Begin(r, [Idle EXCEPT
       !.kind = "baseline", !.pc = "namespace", !.config = Effective(o, cached)])
  /\ UNCHANGED <<saved, cached, overrides, namespace, live, volume, lowered>>
CreateNamespace(r) ==
  /\ req[r].pc = "namespace" /\ namespace' = TRUE /\ Go(r, "quota")
  /\ UNCHANGED <<saved, cached, overrides, live, volume, lowered>> /\ Stays

-----------------------------------------------------------------------------
\* patchOrCreate, and the baseline's createOrIgnore, which leaves what is there.
KeepsWhatIsThere(r, part) ==    \* a mutant: an object that exists is left alone
  [k \in Enforced |-> IF k \notin part \/ live[k] # Inherit THEN live[k] ELSE req[r].config[k]]
Applied(r, part) ==
  [k \in Enforced |->
     IF k \notin part \/ (req[r].kind = "baseline" /\ live[k] # Inherit)
     THEN live[k] ELSE req[r].config[k]]
Quota(r) ==
  /\ req[r].pc = "quota" /\ namespace
  /\ live' = Applied(r, QuotaKnobs) /\ Go(r, "limits")
  /\ UNCHANGED <<saved, cached, overrides, namespace, volume, lowered>> /\ Stays
AfterLimits(r) == IF req[r].size = Inherit THEN "done" ELSE "volume"
Limits(r) ==
  /\ req[r].pc = "limits"
  /\ live' = Applied(r, LimitKnobs) /\ Go(r, AfterLimits(r))
  /\ UNCHANGED <<saved, cached, overrides, namespace, volume, lowered>> /\ Stays

\* reconcileTenantStorage, for one volume after the other: there is none; it is large
\* enough; its class does not let it grow, or could not be read; or it is to be grown.
Reported(r, large) ==
  req' = [req EXCEPT ![r].pc = IF req[r].vol = "postgres" THEN "volume" ELSE "done",
                     ![r].vol = "garage", ![r].told = req[r].told \cup large]
ReadVolume(r) ==
  LET v == req[r].vol
  IN /\ req[r].pc = "volume"
     /\ \/ volume[v] = Inherit /\ Reported(r, {})
        \/ volume[v] # Inherit /\ volume[v] >= req[r].size /\ Reported(r, {v})
        \/ /\ volume[v] # Inherit /\ volume[v] < req[r].size
           /\ Reported(r, {}) \/ Go(r, "grow")
     /\ UNCHANGED <<saved, cached, overrides, namespace, live, volume, lowered>> /\ Stays

\* The API server: a volume does not shrink, nor do the two outgrow the budget they share.
Held(v) == IF volume[v] = Inherit THEN 0 ELSE volume[v]
Fits(v, size) ==
  live[MaxStorage] # Inherit =>
    \A w \in Volumes \ {v} : size + Held(w) <= live[MaxStorage]
Grows(v, size) ==
  volume[v] # Inherit /\ size >= volume[v] /\ (size = volume[v] \/ Fits(v, size))
\* A PATCH that fails, for whatever reason, is a line of the page, and the next volume's
\* turn; it may have done its work all the same.
Grow(r) ==
  LET v == req[r].vol
  IN /\ req[r].pc = "grow"
     /\ \/ /\ Grows(v, req[r].size) /\ volume' = [volume EXCEPT ![v] = req[r].size]
           /\ Reported(r, {v}) \/ Reported(r, {})
        \/ Reported(r, {}) /\ UNCHANGED volume
     /\ UNCHANGED <<saved, cached, overrides, namespace, live, lowered>> /\ Stays

\* Any other call fails, or there is no namespace yet: what was done before stays done.
Fail(r) ==
  /\ Active(r) /\ req[r].pc # "grow"
  /\ \/ failures < MaxFailures /\ failures' = failures + 1
     \/ req[r].pc = "quota" /\ ~namespace /\ UNCHANGED failures
  /\ req' = [req EXCEPT ![r].pc = "done", ![r].ok = FALSE]
  /\ UNCHANGED <<saved, cached, overrides, namespace, live, volume, lowered, submits>>

\* A capability's volume is made at the size that its manifest was rendered with, and
\* destroyed when its owner has its data destroyed.
MakeVolume(v) ==
  /\ namespace /\ volume[v] = Inherit /\ Fits(v, cached[DefaultStorage])
  /\ volume' = [volume EXCEPT ![v] = cached[DefaultStorage]]
  /\ UNCHANGED <<saved, cached, overrides, namespace, live, req, lowered>> /\ Stays
DestroyVolume(v) ==
  /\ volume[v] # Inherit /\ volume' = [volume EXCEPT ![v] = Inherit]
  /\ req' = [r \in Requests |-> [req[r] EXCEPT !.told = req[r].told \ {v}]]
  /\ UNCHANGED <<saved, cached, overrides, namespace, live, lowered>> /\ Stays

\* The process starts again: the chart's defaults, then the row's if they can be read.
Restart ==
  /\ failures < MaxFailures /\ failures' = failures + 1
  /\ \/ Remember(saved) \/ Remember(Chart)
  /\ req' = [r \in Requests |-> Idle]
  /\ UNCHANGED <<saved, overrides, namespace, live, volume, submits>>

Step(r) ==
  \/ ReadDefaults(r) \/ Loaded(r) \/ StoreDefaults(r) \/ CacheDefaults(r) \/ StoreRow(r)
  \/ ItsTurn(r) \/ CreateNamespace(r) \/ Quota(r) \/ Limits(r) \/ ReadVolume(r) \/ Grow(r)
  \/ Fail(r)
ResourcesNext ==
  \/ \E r \in Requests :
       \/ Load(r) \/ SaveDefaults(r) \/ Save(r) \/ Clear(r) \/ ApplyAll(r) \/ Baseline(r)
       \/ Step(r)
  \/ \E v \in Volumes : MakeVolume(v) \/ DestroyVolume(v)
  \/ Restart

ResourcesSpec == ResourcesInit /\ [][ResourcesNext]_resourceVars

-----------------------------------------------------------------------------
(* A save, a clear or a sweep that reports success, and that no other      *)
(* request overlapped, leaves the namespace's limits exactly as the row    *)
(* and the defaults in memory ask, however the objects had drifted; they   *)
(* are so before the first volume is looked at, so that a raised ceiling   *)
(* is in place when volumes grow into it.  And a volume that a page says   *)
(* was grown, or large enough, is as large as was asked, whoever else was  *)
(* busy.  (Success says nothing of the volumes reported with an error.     *)
(* With the types of the variables.)                                       *)
AloneIsExact ==
  /\ TypeOK
  /\ \A r \in Requests :
       LET q == req[r]
           v == Effective(overrides, cached)
       IN /\ q.alone /\ q.kind \in {"save", "clear", "all"}
             /\ (q.pc \in {"volume", "grow"} \/ (q.pc = "done" /\ q.ok)) =>
               \A k \in Enforced : live[k] = v[k]
          /\ \A w \in q.told : volume[w] # Inherit /\ volume[w] >= q.size

(* No budget that a project has, or that somebody is about to store, is    *)
(* inconsistent, whatever defaults are set around the check of it, as long *)
(* as they go up.  (When they go down the overrides are not checked again  *)
(* and apply-all writes what the rules forbid.)                            *)
BudgetConsistent ==
  ~lowered =>
    /\ Valid(Effective(overrides, cached))
    /\ \A r \in Requests : req[r].kind \in {"save", "clear"} /\ req[r].pc = "store" =>
         Valid(Effective(req[r].row, cached))
=============================================================================
