----------------------- MODULE ProjectLifecycleProofs -----------------------
(***************************************************************************)
(* Proofs about ProjectLifecycle for every set of people and of handlers   *)
(* and every bound: a project that had the slug to itself and is ready is  *)
(* deployed, however the creations, the runs they leave behind, the        *)
(* deletes, failures and restarts interleave; nothing is deployed into an  *)
(* unsealed namespace, and a delete that raced with nothing leaves nothing *)
(* running.                                                                *)
(***************************************************************************)
EXTENDS ProjectLifecycle, TLAPS

IndInv == TypeOK /\ Numbered /\ OneRun /\ Undisturbed /\ RunsNoted /\ ReadyIsDeployed

\* The placeholders of an empty slug have the types of their variables.
LEMMA EmptyTypes ==
  /\ Somebody \in People
  /\ NoRow \in [id : Ids, owner : People, repo : BOOLEAN, status : Statuses]
  /\ NoApp \in [state : {"none", "live", "deleting"}, owner : People]
  /\ Idle \in HandlerRecords
<1>1. Somebody \in People
  BY ProjectLifecycleAssumption DEF Somebody
<1>2. 0 \in Ids
  BY ProjectLifecycleAssumption DEF Ids
<1> QED BY <1>1, <1>2 DEF NoRow, NoApp, Idle, Statuses, Stages, HandlerRecords

\* Every step of a handler keeps the invariant.
LEMMA HandlerStep ==
  ASSUME IndInv, NEW h \in Handlers, Request(h) \/ Advance(h)
  PROVE  IndInv'
<1> USE EmptyTypes, ProjectLifecycleAssumption
<1>1. ASSUME NEW o \in People, CheckSlug(h, o) PROVE IndInv'
  <2>1. TypeOK'
    BY ZenonT(30), <1>1 DEF IndInv, TypeOK, HandlerRecords, Ids, Statuses, RunStages, PurgeStages, Stages,
       Idle, NoRow, NoNamespace, NoApp, At, Goto, Return, Fail, Touch, OfRow, world, history,
       CheckSlug
  <2>2. Numbered'
    BY <1>1 DEF IndInv, TypeOK, HandlerRecords, Numbered, Undisturbed, Ids, Busy, RunStages,
       PurgeStages, Stages, Idle, NoRow, NoNamespace, NoApp, At, Goto, Return, Fail, Touch, OfRow,
       world, history, CheckSlug
  <2>3. OneRun'
    BY <1>1 DEF IndInv, TypeOK, HandlerRecords, OneRun, Numbered, Ids, Busy, RunStages,
       PurgeStages, Stages, Idle, NoRow, NoNamespace, NoApp, At, Goto, Return, Fail, Touch, OfRow,
       world, history, CheckSlug
  <2>4. Undisturbed'
    BY <1>1 DEF IndInv, TypeOK, HandlerRecords, Undisturbed, Numbered, Ids, Busy, RunsNoted,
       Noted, RunStages, PurgeStages, Stages, Idle, NoRow, NoNamespace, NoApp, At, Goto, Return,
       Fail, Touch, OfRow, world, history, CheckSlug
  <2>5. RunsNoted'
    BY <1>1 DEF IndInv, TypeOK, HandlerRecords, RunsNoted, Noted, OneRun, Numbered, Undisturbed,
       Deployable, Ids, Busy, RunStages, PurgeStages, Stages, Idle, NoRow, NoNamespace, NoApp, At,
       Goto, Return, Fail, Touch, OfRow, world, history, CheckSlug
  <2>6. ReadyIsDeployed'
    BY <1>1 DEF IndInv, TypeOK, HandlerRecords, ReadyIsDeployed, Deployed, RunsNoted, Noted,
       OneRun, Numbered, Undisturbed, Deployable, Ids, Busy, Statuses, RunStages, PurgeStages,
       Stages, Idle, NoRow, NoNamespace, NoApp, At, Goto, Return, Fail, Touch, OfRow, world,
       history, CheckSlug
  <2> QED BY <2>1, <2>2, <2>3, <2>4, <2>5, <2>6 DEF IndInv
<1>2. ASSUME CheckNamespace(h) PROVE IndInv'
  <2>1. TypeOK'
    <3>1. handler' \in [Handlers -> HandlerRecords]
      BY <1>2 DEF IndInv, TypeOK, HandlerRecords, Ids, RunStages, PurgeStages, Stages, At, Goto,
         Return, CheckNamespace
    <3>2. failures' \in 0..MaxFailures /\ leftover' \in BOOLEAN
      BY <1>2 DEF IndInv, TypeOK, Fail, history, CheckNamespace
    <3>3. pristine' \in Ids
      BY <1>2 DEF IndInv, TypeOK, HandlerRecords, Ids, Touch, history, CheckNamespace
    <3>4. /\ row' \in [id : Ids, owner : People, repo : BOOLEAN, status : Statuses]
          /\ created' \in Ids
      BY <1>2 DEF IndInv, TypeOK, HandlerRecords, Ids, Statuses, CheckNamespace
    <3> QED
      BY <1>2, <3>1, <3>2, <3>3, <3>4 DEF IndInv, TypeOK, world, history, NoNamespace, NoApp,
         CheckNamespace, Available
  <2>2. Numbered'
    BY <1>2 DEF IndInv, TypeOK, HandlerRecords, Numbered, Undisturbed, Ids, Busy, RunStages,
       PurgeStages, Stages, Idle, NoRow, NoNamespace, NoApp, At, Goto, Return, Fail, Touch, OfRow,
       world, history, CheckNamespace, Available
  <2>3. OneRun'
    BY <1>2 DEF IndInv, TypeOK, HandlerRecords, OneRun, Numbered, Ids, Busy, RunStages,
       PurgeStages, Stages, Idle, NoRow, NoNamespace, NoApp, At, Goto, Return, Fail, Touch, OfRow,
       world, history, CheckNamespace, Available
  <2>4. Undisturbed'
    BY <1>2 DEF IndInv, TypeOK, HandlerRecords, Undisturbed, Numbered, Ids, Busy, RunsNoted,
       Noted, RunStages, PurgeStages, Stages, Idle, NoRow, NoNamespace, NoApp, At, Goto, Return,
       Fail, Touch, OfRow, world, history, CheckNamespace, Available
  <2>5. RunsNoted'
    BY <1>2 DEF IndInv, TypeOK, HandlerRecords, RunsNoted, Noted, OneRun, Numbered, Undisturbed,
       Deployable, Ids, Busy, RunStages, PurgeStages, Stages, Idle, NoRow, NoNamespace, NoApp, At,
       Goto, Return, Fail, Touch, OfRow, world, history, CheckNamespace, Available
  <2>6. ReadyIsDeployed'
    BY <1>2 DEF IndInv, TypeOK, HandlerRecords, ReadyIsDeployed, Deployed, RunsNoted, Noted,
       OneRun, Numbered, Undisturbed, Deployable, Ids, Busy, Statuses, RunStages, PurgeStages,
       Stages, Idle, NoRow, NoNamespace, NoApp, At, Goto, Return, Fail, Touch, OfRow, world,
       history, CheckNamespace, Available
  <2> QED BY <2>1, <2>2, <2>3, <2>4, <2>5, <2>6 DEF IndInv
<1>3. ASSUME Insert(h) PROVE IndInv'
  <2>1. TypeOK'
    <3>1. handler' \in [Handlers -> HandlerRecords]
      <4>1. [handler[h] EXCEPT !.pc = "seal", !.id = created + 1] \in HandlerRecords
        <5>1. created + 1 \in Ids
          BY <1>3 DEF Insert, Ids, IndInv, TypeOK
        <5>2. "seal" \in Stages
          BY DEF Stages, RunStages
        <5> QED BY <5>1, <5>2 DEF IndInv, TypeOK, HandlerRecords
      <4>2. handler' = [handler EXCEPT ![h] = [handler[h] EXCEPT !.pc = "seal", !.id = created + 1]]
        BY <1>3 DEF IndInv, TypeOK, Insert
      <4> QED BY <4>1, <4>2 DEF IndInv, TypeOK
    <3>2. failures' \in 0..MaxFailures /\ leftover' \in BOOLEAN
      BY <1>3 DEF IndInv, TypeOK, Fail, history, Insert
    <3>3. pristine' \in Ids
      BY <1>3 DEF IndInv, TypeOK, HandlerRecords, Ids, Touch, history, Insert
    <3>4. /\ row' \in [id : Ids, owner : People, repo : BOOLEAN, status : Statuses]
          /\ created' \in Ids
      BY <1>3 DEF IndInv, TypeOK, HandlerRecords, Ids, Statuses, Insert
    <3> QED
      BY <1>3, <3>1, <3>2, <3>3, <3>4 DEF IndInv, TypeOK, world, history, NoNamespace, NoApp,
         Insert
  <2>2. Numbered'
    BY <1>3 DEF IndInv, TypeOK, HandlerRecords, Numbered, Undisturbed, Ids, Busy, RunStages,
       PurgeStages, Stages, Idle, NoRow, NoNamespace, NoApp, At, Goto, Return, Fail, Touch, OfRow,
       world, history, Insert
  <2>3. OneRun'
    BY <1>3 DEF IndInv, TypeOK, HandlerRecords, OneRun, Numbered, Ids, Busy, RunStages,
       PurgeStages, Stages, Idle, NoRow, NoNamespace, NoApp, At, Goto, Return, Fail, Touch, OfRow,
       world, history, Insert
  <2>4. Undisturbed'
    BY <1>3 DEF IndInv, TypeOK, HandlerRecords, Undisturbed, Numbered, Ids, Busy, RunsNoted,
       Noted, RunStages, PurgeStages, Stages, Idle, NoRow, NoNamespace, NoApp, At, Goto, Return,
       Fail, Touch, OfRow, world, history, Insert
  <2>5. RunsNoted'
    BY <1>3 DEF IndInv, TypeOK, HandlerRecords, RunsNoted, Noted, OneRun, Numbered, Undisturbed,
       Deployable, Ids, Busy, RunStages, PurgeStages, Stages, Idle, NoRow, NoNamespace, NoApp, At,
       Goto, Return, Fail, Touch, OfRow, world, history, Insert
  <2>6. ReadyIsDeployed'
    BY <1>3 DEF IndInv, TypeOK, HandlerRecords, ReadyIsDeployed, Deployed, RunsNoted, Noted,
       OneRun, Numbered, Undisturbed, Deployable, Ids, Busy, Statuses, RunStages, PurgeStages,
       Stages, Idle, NoRow, NoNamespace, NoApp, At, Goto, Return, Fail, Touch, OfRow, world,
       history, Insert
  <2> QED BY <2>1, <2>2, <2>3, <2>4, <2>5, <2>6 DEF IndInv
<1>4. ASSUME Refused(h) PROVE IndInv'
  <2>1. TypeOK'
    BY <1>4 DEF IndInv, TypeOK, HandlerRecords, Ids, Statuses, RunStages, PurgeStages, Stages,
       Idle, NoRow, NoNamespace, NoApp, At, Goto, Return, Fail, Touch, OfRow, world, history,
       Refused
  <2>2. Numbered'
    BY <1>4 DEF IndInv, TypeOK, HandlerRecords, Numbered, Undisturbed, Ids, Busy, RunStages,
       PurgeStages, Stages, Idle, NoRow, NoNamespace, NoApp, At, Goto, Return, Fail, Touch, OfRow,
       world, history, Refused
  <2>3. OneRun'
    BY <1>4 DEF IndInv, TypeOK, HandlerRecords, OneRun, Numbered, Ids, Busy, RunStages,
       PurgeStages, Stages, Idle, NoRow, NoNamespace, NoApp, At, Goto, Return, Fail, Touch, OfRow,
       world, history, Refused
  <2>4. Undisturbed'
    BY <1>4 DEF IndInv, TypeOK, HandlerRecords, Undisturbed, Numbered, Ids, Busy, RunsNoted,
       Noted, RunStages, PurgeStages, Stages, Idle, NoRow, NoNamespace, NoApp, At, Goto, Return,
       Fail, Touch, OfRow, world, history, Refused
  <2>5. RunsNoted'
    BY <1>4 DEF IndInv, TypeOK, HandlerRecords, RunsNoted, Noted, OneRun, Numbered, Undisturbed,
       Deployable, Ids, Busy, RunStages, PurgeStages, Stages, Idle, NoRow, NoNamespace, NoApp, At,
       Goto, Return, Fail, Touch, OfRow, world, history, Refused
  <2>6. ReadyIsDeployed'
    BY <1>4 DEF IndInv, TypeOK, HandlerRecords, ReadyIsDeployed, Deployed, RunsNoted, Noted,
       OneRun, Numbered, Undisturbed, Deployable, Ids, Busy, Statuses, RunStages, PurgeStages,
       Stages, Idle, NoRow, NoNamespace, NoApp, At, Goto, Return, Fail, Touch, OfRow, world,
       history, Refused
  <2> QED BY <2>1, <2>2, <2>3, <2>4, <2>5, <2>6 DEF IndInv
<1>5. ASSUME CreateNamespace(h) PROVE IndInv'
  <2>1. TypeOK'
    BY <1>5 DEF IndInv, TypeOK, HandlerRecords, Ids, Statuses, RunStages, PurgeStages, Stages,
       Idle, NoRow, NoNamespace, NoApp, At, Goto, Return, Fail, Touch, OfRow, world, history,
       CreateNamespace
  <2>2. Numbered'
    BY <1>5 DEF IndInv, TypeOK, HandlerRecords, Numbered, Undisturbed, Ids, Busy, RunStages,
       PurgeStages, Stages, Idle, NoRow, NoNamespace, NoApp, At, Goto, Return, Fail, Touch, OfRow,
       world, history, CreateNamespace
  <2>3. OneRun'
    BY <1>5 DEF IndInv, TypeOK, HandlerRecords, OneRun, Numbered, Ids, Busy, RunStages,
       PurgeStages, Stages, Idle, NoRow, NoNamespace, NoApp, At, Goto, Return, Fail, Touch, OfRow,
       world, history, CreateNamespace
  <2>4. Undisturbed'
    BY <1>5 DEF IndInv, TypeOK, HandlerRecords, Undisturbed, Numbered, Ids, Busy, RunsNoted,
       Noted, RunStages, PurgeStages, Stages, Idle, NoRow, NoNamespace, NoApp, At, Goto, Return,
       Fail, Touch, OfRow, world, history, CreateNamespace
  <2>5. RunsNoted'
    BY <1>5 DEF IndInv, TypeOK, HandlerRecords, RunsNoted, Noted, OneRun, Numbered, Undisturbed,
       Deployable, Ids, Busy, RunStages, PurgeStages, Stages, Idle, NoRow, NoNamespace, NoApp, At,
       Goto, Return, Fail, Touch, OfRow, world, history, CreateNamespace
  <2>6. ReadyIsDeployed'
    BY <1>5 DEF IndInv, TypeOK, HandlerRecords, ReadyIsDeployed, Deployed, RunsNoted, Noted,
       OneRun, Numbered, Undisturbed, Deployable, Ids, Busy, Statuses, RunStages, PurgeStages,
       Stages, Idle, NoRow, NoNamespace, NoApp, At, Goto, Return, Fail, Touch, OfRow, world,
       history, CreateNamespace
  <2> QED BY <2>1, <2>2, <2>3, <2>4, <2>5, <2>6 DEF IndInv
<1>6. ASSUME Seal(h) PROVE IndInv'
  <2>1. TypeOK'
    <3>1. handler' \in [Handlers -> HandlerRecords]
      <4>1. [handler[h] EXCEPT !.pc = "generate", !.sealed = TRUE] \in HandlerRecords
        BY ZenonT(30), <1>6 DEF IndInv, TypeOK, HandlerRecords, Ids, RunStages, PurgeStages, Stages
      <4>2. handler' = [handler EXCEPT ![h] = [handler[h] EXCEPT !.pc = "generate", !.sealed = TRUE]]
        BY <1>6 DEF IndInv, TypeOK, Seal
      <4> QED BY <4>1, <4>2 DEF IndInv, TypeOK
    <3>2. failures' \in 0..MaxFailures /\ leftover' \in BOOLEAN
      BY <1>6 DEF IndInv, TypeOK, Fail, history, Seal
    <3>3. pristine' \in Ids
      BY <1>6 DEF IndInv, TypeOK, HandlerRecords, Ids, Touch, history, Seal
    <3>4. /\ row' \in [id : Ids, owner : People, repo : BOOLEAN, status : Statuses]
          /\ created' \in Ids
      BY <1>6 DEF IndInv, TypeOK, HandlerRecords, Ids, Statuses, Seal
    <3> QED
      BY <1>6, <3>1, <3>2, <3>3, <3>4 DEF IndInv, TypeOK, world, history, NoNamespace, NoApp, Seal
  <2>2. Numbered'
    BY <1>6 DEF IndInv, TypeOK, HandlerRecords, Numbered, Undisturbed, Ids, Busy, RunStages,
       PurgeStages, Stages, Idle, NoRow, NoNamespace, NoApp, At, Goto, Return, Fail, Touch, OfRow,
       world, history, Seal
  <2>3. OneRun'
    BY <1>6 DEF IndInv, TypeOK, HandlerRecords, OneRun, Numbered, Ids, Busy, RunStages,
       PurgeStages, Stages, Idle, NoRow, NoNamespace, NoApp, At, Goto, Return, Fail, Touch, OfRow,
       world, history, Seal
  <2>4. Undisturbed'
    BY <1>6 DEF IndInv, TypeOK, HandlerRecords, Undisturbed, Numbered, Ids, Busy, RunsNoted,
       Noted, RunStages, PurgeStages, Stages, Idle, NoRow, NoNamespace, NoApp, At, Goto, Return,
       Fail, Touch, OfRow, world, history, Seal
  <2>5. RunsNoted'
    <3>1. ns' = [state |-> "active", sealed |-> TRUE]
      BY <1>6 DEF Seal, IndInv, TypeOK
    <3>2. /\ handler'[h] = [handler[h] EXCEPT !.pc = "generate", !.sealed = TRUE]
          /\ \A g \in Handlers \ {h} : handler'[g] = handler[g]
      BY <1>6 DEF Seal, IndInv, TypeOK
    <3>3. ASSUME NEW g \in Handlers, g # h,
                 handler[g].pc \in RunStages, handler[g].id = pristine'
          PROVE  FALSE
      BY <1>6, <3>3 DEF Seal, At, Touch, RunStages, IndInv, OneRun, Numbered, Busy
    <3>4. /\ handler'[h].pc = "generate" /\ handler'[h].sealed
          /\ handler'[h].id = handler[h].id /\ handler'[h].owner = handler[h].owner
          /\ handler'[h].repo => handler[h].repo
          /\ handler'[h].manifests => handler[h].manifests
      BY <3>2 DEF IndInv, TypeOK, HandlerRecords
    <3>5. ASSUME handler[h].id = pristine' PROVE Noted(handler[h])'
      <4>1. pristine = handler[h].id
        BY <1>6, <3>5 DEF Seal, At, Touch, RunStages, IndInv, Numbered, Busy
      <4>2. Noted(handler[h])
        BY <1>6, <4>1 DEF Seal, At, RunStages, IndInv, RunsNoted
      <4>3. row' = row /\ repos' = repos /\ rendered' = rendered /\ app' = app
        BY <1>6 DEF Seal
      <4>4. /\ app = NoApp
            /\ handler[h].repo => handler[h].owner \in repos /\ row.repo
            /\ handler[h].manifests => handler[h].owner \in rendered
        BY <1>6, <4>2 DEF Seal, At, Noted, RunStages
      <4>5. app' = NoApp'
        BY <4>3, <4>4 DEF NoApp
      <4>6. handler'[h].repo => handler'[h].owner \in repos' /\ row'.repo
        BY <3>4, <4>3, <4>4
      <4>7. handler'[h].manifests => handler'[h].owner \in rendered'
        BY <3>4, <4>3, <4>4
      <4> QED
        BY <3>1, <3>4, <4>5, <4>6, <4>7 DEF Noted, RunStages
    <3>6. ASSUME NEW g \in Handlers,
                 handler'[g].pc \in RunStages, handler'[g].id = pristine'
          PROVE  Noted(handler[g])'
      <4>1. CASE g = h
        BY <4>1, <3>4, <3>5, <3>6
      <4>2. CASE g # h
        BY <4>2, <3>2, <3>3, <3>6
      <4> QED BY <4>1, <4>2
    <3>7. ASSUME NEW g \in Handlers, handler'[g].pc \in {"namespace", "insert"}
          PROVE  ~handler'[g].sealed /\ ~handler'[g].repo /\ ~handler'[g].manifests
      BY <3>2, <3>4, <3>7 DEF IndInv, RunsNoted
    <3> QED BY <3>6, <3>7 DEF RunsNoted
  <2>6. ReadyIsDeployed'
    BY <1>6 DEF IndInv, TypeOK, HandlerRecords, ReadyIsDeployed, Deployed, RunsNoted, Noted,
       OneRun, Numbered, Undisturbed, Deployable, Ids, Busy, Statuses, RunStages, PurgeStages,
       Stages, Idle, NoRow, NoNamespace, NoApp, At, Goto, Return, Fail, Touch, OfRow, world,
       history, Seal
  <2> QED BY <2>1, <2>2, <2>3, <2>4, <2>5, <2>6 DEF IndInv
<1>7. ASSUME SealFails(h) PROVE IndInv'
  <2>1. TypeOK'
    BY <1>7 DEF IndInv, TypeOK, HandlerRecords, Ids, Statuses, RunStages, PurgeStages, Stages,
       Idle, NoRow, NoNamespace, NoApp, At, Goto, Return, Fail, Touch, OfRow, world, history,
       SealFails
  <2>2. Numbered'
    BY <1>7 DEF IndInv, TypeOK, HandlerRecords, Numbered, Undisturbed, Ids, Busy, RunStages,
       PurgeStages, Stages, Idle, NoRow, NoNamespace, NoApp, At, Goto, Return, Fail, Touch, OfRow,
       world, history, SealFails
  <2>3. OneRun'
    BY <1>7 DEF IndInv, TypeOK, HandlerRecords, OneRun, Numbered, Ids, Busy, RunStages,
       PurgeStages, Stages, Idle, NoRow, NoNamespace, NoApp, At, Goto, Return, Fail, Touch, OfRow,
       world, history, SealFails
  <2>4. Undisturbed'
    BY <1>7 DEF IndInv, TypeOK, HandlerRecords, Undisturbed, Numbered, Ids, Busy, RunsNoted,
       Noted, RunStages, PurgeStages, Stages, Idle, NoRow, NoNamespace, NoApp, At, Goto, Return,
       Fail, Touch, OfRow, world, history, SealFails
  <2>5. RunsNoted'
    BY <1>7 DEF IndInv, TypeOK, HandlerRecords, RunsNoted, Noted, OneRun, Numbered, Undisturbed,
       Deployable, Ids, Busy, RunStages, PurgeStages, Stages, Idle, NoRow, NoNamespace, NoApp, At,
       Goto, Return, Fail, Touch, OfRow, world, history, SealFails
  <2>6. ReadyIsDeployed'
    BY <1>7 DEF IndInv, TypeOK, HandlerRecords, ReadyIsDeployed, Deployed, RunsNoted, Noted,
       OneRun, Numbered, Undisturbed, Deployable, Ids, Busy, Statuses, RunStages, PurgeStages,
       Stages, Idle, NoRow, NoNamespace, NoApp, At, Goto, Return, Fail, Touch, OfRow, world,
       history, SealFails
  <2> QED BY <2>1, <2>2, <2>3, <2>4, <2>5, <2>6 DEF IndInv
<1>8. ASSUME Generate(h) PROVE IndInv'
  <2>1. TypeOK'
    BY <1>8 DEF IndInv, TypeOK, HandlerRecords, Ids, Statuses, RunStages, PurgeStages, Stages,
       Idle, NoRow, NoNamespace, NoApp, At, Goto, Return, Fail, Touch, OfRow, world, history,
       Generate
  <2>2. Numbered'
    BY <1>8 DEF IndInv, TypeOK, HandlerRecords, Numbered, Undisturbed, Ids, Busy, RunStages,
       PurgeStages, Stages, Idle, NoRow, NoNamespace, NoApp, At, Goto, Return, Fail, Touch, OfRow,
       world, history, Generate
  <2>3. OneRun'
    BY <1>8 DEF IndInv, TypeOK, HandlerRecords, OneRun, Numbered, Ids, Busy, RunStages,
       PurgeStages, Stages, Idle, NoRow, NoNamespace, NoApp, At, Goto, Return, Fail, Touch, OfRow,
       world, history, Generate
  <2>4. Undisturbed'
    BY <1>8 DEF IndInv, TypeOK, HandlerRecords, Undisturbed, Numbered, Ids, Busy, RunsNoted,
       Noted, RunStages, PurgeStages, Stages, Idle, NoRow, NoNamespace, NoApp, At, Goto, Return,
       Fail, Touch, OfRow, world, history, Generate
  <2>5. RunsNoted'
    BY <1>8 DEF IndInv, TypeOK, HandlerRecords, RunsNoted, Noted, OneRun, Numbered, Undisturbed,
       Deployable, Ids, Busy, RunStages, PurgeStages, Stages, Idle, NoRow, NoNamespace, NoApp, At,
       Goto, Return, Fail, Touch, OfRow, world, history, Generate
  <2>6. ReadyIsDeployed'
    BY <1>8 DEF IndInv, TypeOK, HandlerRecords, ReadyIsDeployed, Deployed, RunsNoted, Noted,
       OneRun, Numbered, Undisturbed, Deployable, Ids, Busy, Statuses, RunStages, PurgeStages,
       Stages, Idle, NoRow, NoNamespace, NoApp, At, Goto, Return, Fail, Touch, OfRow, world,
       history, Generate
  <2> QED BY <2>1, <2>2, <2>3, <2>4, <2>5, <2>6 DEF IndInv
<1>9. ASSUME SkipRepo(h) PROVE IndInv'
  <2>1. TypeOK'
    BY <1>9 DEF IndInv, TypeOK, HandlerRecords, Ids, Statuses, RunStages, PurgeStages, Stages,
       Idle, NoRow, NoNamespace, NoApp, At, Goto, Return, Fail, Touch, OfRow, world, history,
       SkipRepo
  <2>2. Numbered'
    BY <1>9 DEF IndInv, TypeOK, HandlerRecords, Numbered, Undisturbed, Ids, Busy, RunStages,
       PurgeStages, Stages, Idle, NoRow, NoNamespace, NoApp, At, Goto, Return, Fail, Touch, OfRow,
       world, history, SkipRepo
  <2>3. OneRun'
    BY <1>9 DEF IndInv, TypeOK, HandlerRecords, OneRun, Numbered, Ids, Busy, RunStages,
       PurgeStages, Stages, Idle, NoRow, NoNamespace, NoApp, At, Goto, Return, Fail, Touch, OfRow,
       world, history, SkipRepo
  <2>4. Undisturbed'
    BY <1>9 DEF IndInv, TypeOK, HandlerRecords, Undisturbed, Numbered, Ids, Busy, RunsNoted,
       Noted, RunStages, PurgeStages, Stages, Idle, NoRow, NoNamespace, NoApp, At, Goto, Return,
       Fail, Touch, OfRow, world, history, SkipRepo
  <2>5. RunsNoted'
    BY <1>9 DEF IndInv, TypeOK, HandlerRecords, RunsNoted, Noted, OneRun, Numbered, Undisturbed,
       Deployable, Ids, Busy, RunStages, PurgeStages, Stages, Idle, NoRow, NoNamespace, NoApp, At,
       Goto, Return, Fail, Touch, OfRow, world, history, SkipRepo
  <2>6. ReadyIsDeployed'
    BY <1>9 DEF IndInv, TypeOK, HandlerRecords, ReadyIsDeployed, Deployed, RunsNoted, Noted,
       OneRun, Numbered, Undisturbed, Deployable, Ids, Busy, Statuses, RunStages, PurgeStages,
       Stages, Idle, NoRow, NoNamespace, NoApp, At, Goto, Return, Fail, Touch, OfRow, world,
       history, SkipRepo
  <2> QED BY <2>1, <2>2, <2>3, <2>4, <2>5, <2>6 DEF IndInv
<1>10. ASSUME GenerateFails(h) PROVE IndInv'
  <2>1. TypeOK'
    BY <1>10 DEF IndInv, TypeOK, HandlerRecords, Ids, Statuses, RunStages, PurgeStages, Stages,
       Idle, NoRow, NoNamespace, NoApp, At, Goto, Return, Fail, Touch, OfRow, world, history,
       GenerateFails
  <2>2. Numbered'
    BY <1>10 DEF IndInv, TypeOK, HandlerRecords, Numbered, Undisturbed, Ids, Busy, RunStages,
       PurgeStages, Stages, Idle, NoRow, NoNamespace, NoApp, At, Goto, Return, Fail, Touch, OfRow,
       world, history, GenerateFails
  <2>3. OneRun'
    BY <1>10 DEF IndInv, TypeOK, HandlerRecords, OneRun, Numbered, Ids, Busy, RunStages,
       PurgeStages, Stages, Idle, NoRow, NoNamespace, NoApp, At, Goto, Return, Fail, Touch, OfRow,
       world, history, GenerateFails
  <2>4. Undisturbed'
    BY <1>10 DEF IndInv, TypeOK, HandlerRecords, Undisturbed, Numbered, Ids, Busy, RunsNoted,
       Noted, RunStages, PurgeStages, Stages, Idle, NoRow, NoNamespace, NoApp, At, Goto, Return,
       Fail, Touch, OfRow, world, history, GenerateFails
  <2>5. RunsNoted'
    BY <1>10 DEF IndInv, TypeOK, HandlerRecords, RunsNoted, Noted, OneRun, Numbered, Undisturbed,
       Deployable, Ids, Busy, RunStages, PurgeStages, Stages, Idle, NoRow, NoNamespace, NoApp, At,
       Goto, Return, Fail, Touch, OfRow, world, history, GenerateFails
  <2>6. ReadyIsDeployed'
    BY <1>10 DEF IndInv, TypeOK, HandlerRecords, ReadyIsDeployed, Deployed, RunsNoted, Noted,
       OneRun, Numbered, Undisturbed, Deployable, Ids, Busy, Statuses, RunStages, PurgeStages,
       Stages, Idle, NoRow, NoNamespace, NoApp, At, Goto, Return, Fail, Touch, OfRow, world,
       history, GenerateFails
  <2> QED BY <2>1, <2>2, <2>3, <2>4, <2>5, <2>6 DEF IndInv
<1>11. ASSUME Record(h) PROVE IndInv'
  <2>1. TypeOK'
    <3>1. handler' \in [Handlers -> HandlerRecords]
      <4>1. [handler[h] EXCEPT !.pc = "render", !.repo = TRUE] \in HandlerRecords
        BY ZenonT(30), <1>11 DEF IndInv, TypeOK, HandlerRecords, Ids, RunStages, PurgeStages, Stages
      <4>2. handler' = [handler EXCEPT ![h] = [handler[h] EXCEPT !.pc = "render", !.repo = TRUE]]
        BY <1>11 DEF IndInv, TypeOK, Record
      <4> QED BY <4>1, <4>2 DEF IndInv, TypeOK
    <3>2. failures' \in 0..MaxFailures /\ leftover' \in BOOLEAN
      BY <1>11 DEF IndInv, TypeOK, Fail, history, Record
    <3>3. pristine' \in Ids
      BY <1>11 DEF IndInv, TypeOK, HandlerRecords, Ids, Touch, history, Record
    <3>4. /\ row' \in [id : Ids, owner : People, repo : BOOLEAN, status : Statuses]
          /\ created' \in Ids
      BY <1>11 DEF IndInv, TypeOK, HandlerRecords, Ids, Statuses, Record
    <3> QED
      BY <1>11, <3>1, <3>2, <3>3, <3>4 DEF IndInv, TypeOK, world, history, NoNamespace, NoApp,
         Record
  <2>2. Numbered'
    BY <1>11 DEF IndInv, TypeOK, HandlerRecords, Numbered, Undisturbed, Ids, Busy, RunStages,
       PurgeStages, Stages, Idle, NoRow, NoNamespace, NoApp, At, Goto, Return, Fail, Touch, OfRow,
       world, history, Record
  <2>3. OneRun'
    BY <1>11 DEF IndInv, TypeOK, HandlerRecords, OneRun, Numbered, Ids, Busy, RunStages,
       PurgeStages, Stages, Idle, NoRow, NoNamespace, NoApp, At, Goto, Return, Fail, Touch, OfRow,
       world, history, Record
  <2>4. Undisturbed'
    BY <1>11 DEF IndInv, TypeOK, HandlerRecords, Undisturbed, Numbered, Ids, Busy, RunsNoted,
       Noted, RunStages, PurgeStages, Stages, Idle, NoRow, NoNamespace, NoApp, At, Goto, Return,
       Fail, Touch, OfRow, world, history, Record
  <2>5. RunsNoted'
    BY <1>11 DEF IndInv, TypeOK, HandlerRecords, RunsNoted, Noted, OneRun, Numbered, Undisturbed,
       Deployable, Ids, Busy, RunStages, PurgeStages, Stages, Idle, NoRow, NoNamespace, NoApp, At,
       Goto, Return, Fail, Touch, OfRow, world, history, Record
  <2>6. ReadyIsDeployed'
    BY <1>11 DEF IndInv, TypeOK, HandlerRecords, ReadyIsDeployed, Deployed, RunsNoted, Noted,
       OneRun, Numbered, Undisturbed, Deployable, Ids, Busy, Statuses, RunStages, PurgeStages,
       Stages, Idle, NoRow, NoNamespace, NoApp, At, Goto, Return, Fail, Touch, OfRow, world,
       history, Record
  <2> QED BY <2>1, <2>2, <2>3, <2>4, <2>5, <2>6 DEF IndInv
<1>12. ASSUME RecordFails(h) PROVE IndInv'
  <2>1. TypeOK'
    BY <1>12 DEF IndInv, TypeOK, HandlerRecords, Ids, Statuses, RunStages, PurgeStages, Stages,
       Idle, NoRow, NoNamespace, NoApp, At, Goto, Return, Fail, Touch, OfRow, world, history,
       RecordFails
  <2>2. Numbered'
    BY <1>12 DEF IndInv, TypeOK, HandlerRecords, Numbered, Undisturbed, Ids, Busy, RunStages,
       PurgeStages, Stages, Idle, NoRow, NoNamespace, NoApp, At, Goto, Return, Fail, Touch, OfRow,
       world, history, RecordFails
  <2>3. OneRun'
    BY <1>12 DEF IndInv, TypeOK, HandlerRecords, OneRun, Numbered, Ids, Busy, RunStages,
       PurgeStages, Stages, Idle, NoRow, NoNamespace, NoApp, At, Goto, Return, Fail, Touch, OfRow,
       world, history, RecordFails
  <2>4. Undisturbed'
    BY <1>12 DEF IndInv, TypeOK, HandlerRecords, Undisturbed, Numbered, Ids, Busy, RunsNoted,
       Noted, RunStages, PurgeStages, Stages, Idle, NoRow, NoNamespace, NoApp, At, Goto, Return,
       Fail, Touch, OfRow, world, history, RecordFails
  <2>5. RunsNoted'
    BY <1>12 DEF IndInv, TypeOK, HandlerRecords, RunsNoted, Noted, OneRun, Numbered, Undisturbed,
       Deployable, Ids, Busy, RunStages, PurgeStages, Stages, Idle, NoRow, NoNamespace, NoApp, At,
       Goto, Return, Fail, Touch, OfRow, world, history, RecordFails
  <2>6. ReadyIsDeployed'
    BY <1>12 DEF IndInv, TypeOK, HandlerRecords, ReadyIsDeployed, Deployed, RunsNoted, Noted,
       OneRun, Numbered, Undisturbed, Deployable, Ids, Busy, Statuses, RunStages, PurgeStages,
       Stages, Idle, NoRow, NoNamespace, NoApp, At, Goto, Return, Fail, Touch, OfRow, world,
       history, RecordFails
  <2> QED BY <2>1, <2>2, <2>3, <2>4, <2>5, <2>6 DEF IndInv
<1>13. ASSUME Render(h) PROVE IndInv'
  <2>1. TypeOK'
    <3>1. handler' \in [Handlers -> HandlerRecords]
      <4>1. [handler[h] EXCEPT !.pc = "gate", !.manifests = TRUE] \in HandlerRecords
        BY ZenonT(30), <1>13 DEF IndInv, TypeOK, HandlerRecords, Ids, RunStages, PurgeStages, Stages
      <4>2. handler' = [handler EXCEPT ![h] = [handler[h] EXCEPT !.pc = "gate", !.manifests = TRUE]]
        BY <1>13 DEF IndInv, TypeOK, Render
      <4> QED BY <4>1, <4>2 DEF IndInv, TypeOK
    <3>2. failures' \in 0..MaxFailures /\ leftover' \in BOOLEAN
      BY <1>13 DEF IndInv, TypeOK, Fail, history, Render
    <3>3. pristine' \in Ids
      BY <1>13 DEF IndInv, TypeOK, HandlerRecords, Ids, Touch, history, Render
    <3>4. /\ row' \in [id : Ids, owner : People, repo : BOOLEAN, status : Statuses]
          /\ created' \in Ids
      BY <1>13 DEF IndInv, TypeOK, HandlerRecords, Ids, Statuses, Render
    <3> QED
      BY <1>13, <3>1, <3>2, <3>3, <3>4 DEF IndInv, TypeOK, world, history, NoNamespace, NoApp,
         Render, Writable
  <2>2. Numbered'
    BY <1>13 DEF IndInv, TypeOK, HandlerRecords, Numbered, Undisturbed, Ids, Busy, RunStages,
       PurgeStages, Stages, Idle, NoRow, NoNamespace, NoApp, At, Goto, Return, Fail, Touch, OfRow,
       world, history, Render, Writable
  <2>3. OneRun'
    BY <1>13 DEF IndInv, TypeOK, HandlerRecords, OneRun, Numbered, Ids, Busy, RunStages,
       PurgeStages, Stages, Idle, NoRow, NoNamespace, NoApp, At, Goto, Return, Fail, Touch, OfRow,
       world, history, Render, Writable
  <2>4. Undisturbed'
    BY <1>13 DEF IndInv, TypeOK, HandlerRecords, Undisturbed, Numbered, Ids, Busy, RunsNoted,
       Noted, RunStages, PurgeStages, Stages, Idle, NoRow, NoNamespace, NoApp, At, Goto, Return,
       Fail, Touch, OfRow, world, history, Render, Writable
  <2>5. RunsNoted'
    BY <1>13 DEF IndInv, TypeOK, HandlerRecords, RunsNoted, Noted, OneRun, Numbered, Undisturbed,
       Deployable, Ids, Busy, RunStages, PurgeStages, Stages, Idle, NoRow, NoNamespace, NoApp, At,
       Goto, Return, Fail, Touch, OfRow, world, history, Render, Writable
  <2>6. ReadyIsDeployed'
    BY <1>13 DEF IndInv, TypeOK, HandlerRecords, ReadyIsDeployed, Deployed, RunsNoted, Noted,
       OneRun, Numbered, Undisturbed, Deployable, Ids, Busy, Statuses, RunStages, PurgeStages,
       Stages, Idle, NoRow, NoNamespace, NoApp, At, Goto, Return, Fail, Touch, OfRow, world,
       history, Render, Writable
  <2> QED BY <2>1, <2>2, <2>3, <2>4, <2>5, <2>6 DEF IndInv
<1>14. ASSUME RenderFails(h) PROVE IndInv'
  <2>1. TypeOK'
    BY <1>14 DEF IndInv, TypeOK, HandlerRecords, Ids, Statuses, RunStages, PurgeStages, Stages,
       Idle, NoRow, NoNamespace, NoApp, At, Goto, Return, Fail, Touch, OfRow, world, history,
       RenderFails, Writable
  <2>2. Numbered'
    BY <1>14 DEF IndInv, TypeOK, HandlerRecords, Numbered, Undisturbed, Ids, Busy, RunStages,
       PurgeStages, Stages, Idle, NoRow, NoNamespace, NoApp, At, Goto, Return, Fail, Touch, OfRow,
       world, history, RenderFails, Writable
  <2>3. OneRun'
    BY <1>14 DEF IndInv, TypeOK, HandlerRecords, OneRun, Numbered, Ids, Busy, RunStages,
       PurgeStages, Stages, Idle, NoRow, NoNamespace, NoApp, At, Goto, Return, Fail, Touch, OfRow,
       world, history, RenderFails, Writable
  <2>4. Undisturbed'
    BY <1>14 DEF IndInv, TypeOK, HandlerRecords, Undisturbed, Numbered, Ids, Busy, RunsNoted,
       Noted, RunStages, PurgeStages, Stages, Idle, NoRow, NoNamespace, NoApp, At, Goto, Return,
       Fail, Touch, OfRow, world, history, RenderFails, Writable
  <2>5. RunsNoted'
    BY <1>14 DEF IndInv, TypeOK, HandlerRecords, RunsNoted, Noted, OneRun, Numbered, Undisturbed,
       Deployable, Ids, Busy, RunStages, PurgeStages, Stages, Idle, NoRow, NoNamespace, NoApp, At,
       Goto, Return, Fail, Touch, OfRow, world, history, RenderFails, Writable
  <2>6. ReadyIsDeployed'
    BY <1>14 DEF IndInv, TypeOK, HandlerRecords, ReadyIsDeployed, Deployed, RunsNoted, Noted,
       OneRun, Numbered, Undisturbed, Deployable, Ids, Busy, Statuses, RunStages, PurgeStages,
       Stages, Idle, NoRow, NoNamespace, NoApp, At, Goto, Return, Fail, Touch, OfRow, world,
       history, RenderFails, Writable
  <2> QED BY <2>1, <2>2, <2>3, <2>4, <2>5, <2>6 DEF IndInv
<1>15. ASSUME Gate(h) PROVE IndInv'
  <2>1. TypeOK'
    BY <1>15 DEF IndInv, TypeOK, HandlerRecords, Ids, Statuses, RunStages, PurgeStages, Stages,
       Idle, NoRow, NoNamespace, NoApp, At, Goto, Return, Fail, Touch, OfRow, world, history, Gate
  <2>2. Numbered'
    BY <1>15 DEF IndInv, TypeOK, HandlerRecords, Numbered, Undisturbed, Ids, Busy, RunStages,
       PurgeStages, Stages, Idle, NoRow, NoNamespace, NoApp, At, Goto, Return, Fail, Touch, OfRow,
       world, history, Gate
  <2>3. OneRun'
    BY <1>15 DEF IndInv, TypeOK, HandlerRecords, OneRun, Numbered, Ids, Busy, RunStages,
       PurgeStages, Stages, Idle, NoRow, NoNamespace, NoApp, At, Goto, Return, Fail, Touch, OfRow,
       world, history, Gate
  <2>4. Undisturbed'
    BY <1>15 DEF IndInv, TypeOK, HandlerRecords, Undisturbed, Numbered, Ids, Busy, RunsNoted,
       Noted, RunStages, PurgeStages, Stages, Idle, NoRow, NoNamespace, NoApp, At, Goto, Return,
       Fail, Touch, OfRow, world, history, Gate
  <2>5. RunsNoted'
    BY <1>15 DEF IndInv, TypeOK, HandlerRecords, RunsNoted, Noted, OneRun, Numbered, Undisturbed,
       Deployable, Ids, Busy, RunStages, PurgeStages, Stages, Idle, NoRow, NoNamespace, NoApp, At,
       Goto, Return, Fail, Touch, OfRow, world, history, Gate
  <2>6. ReadyIsDeployed'
    BY <1>15 DEF IndInv, TypeOK, HandlerRecords, ReadyIsDeployed, Deployed, RunsNoted, Noted,
       OneRun, Numbered, Undisturbed, Deployable, Ids, Busy, Statuses, RunStages, PurgeStages,
       Stages, Idle, NoRow, NoNamespace, NoApp, At, Goto, Return, Fail, Touch, OfRow, world,
       history, Gate
  <2> QED BY <2>1, <2>2, <2>3, <2>4, <2>5, <2>6 DEF IndInv
<1>16. ASSUME Register(h) PROVE IndInv'
  <2>1. TypeOK'
    BY <1>16 DEF IndInv, TypeOK, HandlerRecords, Ids, Statuses, RunStages, PurgeStages, Stages,
       Idle, NoRow, NoNamespace, NoApp, At, Goto, Return, Fail, Touch, OfRow, world, history,
       Register, Registered
  <2>2. Numbered'
    BY <1>16 DEF IndInv, TypeOK, HandlerRecords, Numbered, Undisturbed, Ids, Busy, RunStages,
       PurgeStages, Stages, Idle, NoRow, NoNamespace, NoApp, At, Goto, Return, Fail, Touch, OfRow,
       world, history, Register, Registered
  <2>3. OneRun'
    BY <1>16 DEF IndInv, TypeOK, HandlerRecords, OneRun, Numbered, Ids, Busy, RunStages,
       PurgeStages, Stages, Idle, NoRow, NoNamespace, NoApp, At, Goto, Return, Fail, Touch, OfRow,
       world, history, Register, Registered
  <2>4. Undisturbed'
    BY <1>16 DEF IndInv, TypeOK, HandlerRecords, Undisturbed, Numbered, Ids, Busy, RunsNoted,
       Noted, RunStages, PurgeStages, Stages, Idle, NoRow, NoNamespace, NoApp, At, Goto, Return,
       Fail, Touch, OfRow, world, history, Register, Registered
  <2>5. RunsNoted'
    BY <1>16 DEF IndInv, TypeOK, HandlerRecords, RunsNoted, Noted, OneRun, Numbered, Undisturbed,
       Deployable, Ids, Busy, RunStages, PurgeStages, Stages, Idle, NoRow, NoNamespace, NoApp, At,
       Goto, Return, Fail, Touch, OfRow, world, history, Register, Registered
  <2>6. ReadyIsDeployed'
    BY <1>16 DEF IndInv, TypeOK, HandlerRecords, ReadyIsDeployed, Deployed, RunsNoted, Noted,
       OneRun, Numbered, Undisturbed, Deployable, Ids, Busy, Statuses, RunStages, PurgeStages,
       Stages, Idle, NoRow, NoNamespace, NoApp, At, Goto, Return, Fail, Touch, OfRow, world,
       history, Register, Registered
  <2> QED BY <2>1, <2>2, <2>3, <2>4, <2>5, <2>6 DEF IndInv
<1>17. ASSUME RegisterFails(h) PROVE IndInv'
  <2>1. TypeOK'
    BY <1>17 DEF IndInv, TypeOK, HandlerRecords, Ids, Statuses, RunStages, PurgeStages, Stages,
       Idle, NoRow, NoNamespace, NoApp, At, Goto, Return, Fail, Touch, OfRow, world, history,
       RegisterFails, Registered
  <2>2. Numbered'
    BY <1>17 DEF IndInv, TypeOK, HandlerRecords, Numbered, Undisturbed, Ids, Busy, RunStages,
       PurgeStages, Stages, Idle, NoRow, NoNamespace, NoApp, At, Goto, Return, Fail, Touch, OfRow,
       world, history, RegisterFails, Registered
  <2>3. OneRun'
    BY <1>17 DEF IndInv, TypeOK, HandlerRecords, OneRun, Numbered, Ids, Busy, RunStages,
       PurgeStages, Stages, Idle, NoRow, NoNamespace, NoApp, At, Goto, Return, Fail, Touch, OfRow,
       world, history, RegisterFails, Registered
  <2>4. Undisturbed'
    BY <1>17 DEF IndInv, TypeOK, HandlerRecords, Undisturbed, Numbered, Ids, Busy, RunsNoted,
       Noted, RunStages, PurgeStages, Stages, Idle, NoRow, NoNamespace, NoApp, At, Goto, Return,
       Fail, Touch, OfRow, world, history, RegisterFails, Registered
  <2>5. RunsNoted'
    BY <1>17 DEF IndInv, TypeOK, HandlerRecords, RunsNoted, Noted, OneRun, Numbered, Undisturbed,
       Deployable, Ids, Busy, RunStages, PurgeStages, Stages, Idle, NoRow, NoNamespace, NoApp, At,
       Goto, Return, Fail, Touch, OfRow, world, history, RegisterFails, Registered
  <2>6. ReadyIsDeployed'
    BY <1>17 DEF IndInv, TypeOK, HandlerRecords, ReadyIsDeployed, Deployed, RunsNoted, Noted,
       OneRun, Numbered, Undisturbed, Deployable, Ids, Busy, Statuses, RunStages, PurgeStages,
       Stages, Idle, NoRow, NoNamespace, NoApp, At, Goto, Return, Fail, Touch, OfRow, world,
       history, RegisterFails, Registered
  <2> QED BY <2>1, <2>2, <2>3, <2>4, <2>5, <2>6 DEF IndInv
<1>18. ASSUME SetStatus(h) PROVE IndInv'
  <2>1. TypeOK'
    BY <1>18 DEF IndInv, TypeOK, HandlerRecords, Ids, Statuses, RunStages, PurgeStages, Stages,
       Idle, NoRow, NoNamespace, NoApp, At, Goto, Return, Fail, Touch, OfRow, world, history,
       SetStatus, Verdict
  <2>2. Numbered'
    BY <1>18 DEF IndInv, TypeOK, HandlerRecords, Numbered, Undisturbed, Ids, Busy, RunStages,
       PurgeStages, Stages, Idle, NoRow, NoNamespace, NoApp, At, Goto, Return, Fail, Touch, OfRow,
       world, history, SetStatus, Verdict
  <2>3. OneRun'
    BY <1>18 DEF IndInv, TypeOK, HandlerRecords, OneRun, Numbered, Ids, Busy, RunStages,
       PurgeStages, Stages, Idle, NoRow, NoNamespace, NoApp, At, Goto, Return, Fail, Touch, OfRow,
       world, history, SetStatus, Verdict
  <2>4. Undisturbed'
    BY <1>18 DEF IndInv, TypeOK, HandlerRecords, Undisturbed, Numbered, Ids, Busy, RunsNoted,
       Noted, RunStages, PurgeStages, Stages, Idle, NoRow, NoNamespace, NoApp, At, Goto, Return,
       Fail, Touch, OfRow, world, history, SetStatus, Verdict
  <2>5. RunsNoted'
    BY <1>18 DEF IndInv, TypeOK, HandlerRecords, RunsNoted, Noted, OneRun, Numbered, Undisturbed,
       Deployable, Ids, Busy, RunStages, PurgeStages, Stages, Idle, NoRow, NoNamespace, NoApp, At,
       Goto, Return, Fail, Touch, OfRow, world, history, SetStatus, Verdict
  <2>6. ReadyIsDeployed'
    BY <1>18 DEF IndInv, TypeOK, HandlerRecords, ReadyIsDeployed, Deployed, RunsNoted, Noted,
       OneRun, Numbered, Undisturbed, Deployable, Ids, Busy, Statuses, RunStages, PurgeStages,
       Stages, Idle, NoRow, NoNamespace, NoApp, At, Goto, Return, Fail, Touch, OfRow, world,
       history, SetStatus, Verdict
  <2> QED BY <2>1, <2>2, <2>3, <2>4, <2>5, <2>6 DEF IndInv
<1>19. ASSUME SetStatusFails(h) PROVE IndInv'
  <2>1. TypeOK'
    BY <1>19 DEF IndInv, TypeOK, HandlerRecords, Ids, Statuses, RunStages, PurgeStages, Stages,
       Idle, NoRow, NoNamespace, NoApp, At, Goto, Return, Fail, Touch, OfRow, world, history,
       SetStatusFails
  <2>2. Numbered'
    BY <1>19 DEF IndInv, TypeOK, HandlerRecords, Numbered, Undisturbed, Ids, Busy, RunStages,
       PurgeStages, Stages, Idle, NoRow, NoNamespace, NoApp, At, Goto, Return, Fail, Touch, OfRow,
       world, history, SetStatusFails
  <2>3. OneRun'
    BY <1>19 DEF IndInv, TypeOK, HandlerRecords, OneRun, Numbered, Ids, Busy, RunStages,
       PurgeStages, Stages, Idle, NoRow, NoNamespace, NoApp, At, Goto, Return, Fail, Touch, OfRow,
       world, history, SetStatusFails
  <2>4. Undisturbed'
    BY <1>19 DEF IndInv, TypeOK, HandlerRecords, Undisturbed, Numbered, Ids, Busy, RunsNoted,
       Noted, RunStages, PurgeStages, Stages, Idle, NoRow, NoNamespace, NoApp, At, Goto, Return,
       Fail, Touch, OfRow, world, history, SetStatusFails
  <2>5. RunsNoted'
    BY <1>19 DEF IndInv, TypeOK, HandlerRecords, RunsNoted, Noted, OneRun, Numbered, Undisturbed,
       Deployable, Ids, Busy, RunStages, PurgeStages, Stages, Idle, NoRow, NoNamespace, NoApp, At,
       Goto, Return, Fail, Touch, OfRow, world, history, SetStatusFails
  <2>6. ReadyIsDeployed'
    BY <1>19 DEF IndInv, TypeOK, HandlerRecords, ReadyIsDeployed, Deployed, RunsNoted, Noted,
       OneRun, Numbered, Undisturbed, Deployable, Ids, Busy, Statuses, RunStages, PurgeStages,
       Stages, Idle, NoRow, NoNamespace, NoApp, At, Goto, Return, Fail, Touch, OfRow, world,
       history, SetStatusFails
  <2> QED BY <2>1, <2>2, <2>3, <2>4, <2>5, <2>6 DEF IndInv
<1>20. ASSUME NEW keepRepo \in BOOLEAN, NEW keepNamespace \in BOOLEAN, StartDelete(h, keepRepo, keepNamespace) PROVE IndInv'
  <2>1. TypeOK'
    BY ZenonT(30), <1>20 DEF IndInv, TypeOK, HandlerRecords, Ids, Statuses, RunStages, PurgeStages, Stages,
       Idle, NoRow, NoNamespace, NoApp, At, Goto, Return, Fail, Touch, OfRow, world, history,
       StartDelete
  <2>2. Numbered'
    BY <1>20 DEF IndInv, TypeOK, HandlerRecords, Numbered, Undisturbed, Ids, Busy, RunStages,
       PurgeStages, Stages, Idle, NoRow, NoNamespace, NoApp, At, Goto, Return, Fail, Touch, OfRow,
       world, history, StartDelete
  <2>3. OneRun'
    BY <1>20 DEF IndInv, TypeOK, HandlerRecords, OneRun, Numbered, Ids, Busy, RunStages,
       PurgeStages, Stages, Idle, NoRow, NoNamespace, NoApp, At, Goto, Return, Fail, Touch, OfRow,
       world, history, StartDelete
  <2>4. Undisturbed'
    BY <1>20 DEF IndInv, TypeOK, HandlerRecords, Undisturbed, Numbered, Ids, Busy, RunsNoted,
       Noted, RunStages, PurgeStages, Stages, Idle, NoRow, NoNamespace, NoApp, At, Goto, Return,
       Fail, Touch, OfRow, world, history, StartDelete
  <2>5. RunsNoted'
    BY <1>20 DEF IndInv, TypeOK, HandlerRecords, RunsNoted, Noted, OneRun, Numbered, Undisturbed,
       Deployable, Ids, Busy, RunStages, PurgeStages, Stages, Idle, NoRow, NoNamespace, NoApp, At,
       Goto, Return, Fail, Touch, OfRow, world, history, StartDelete
  <2>6. ReadyIsDeployed'
    BY <1>20 DEF IndInv, TypeOK, HandlerRecords, ReadyIsDeployed, Deployed, RunsNoted, Noted,
       OneRun, Numbered, Undisturbed, Deployable, Ids, Busy, Statuses, RunStages, PurgeStages,
       Stages, Idle, NoRow, NoNamespace, NoApp, At, Goto, Return, Fail, Touch, OfRow, world,
       history, StartDelete
  <2> QED BY <2>1, <2>2, <2>3, <2>4, <2>5, <2>6 DEF IndInv
<1>21. ASSUME DropApp(h) PROVE IndInv'
  <2>1. TypeOK'
    <3>1. handler' \in [Handlers -> HandlerRecords]
      BY <1>21 DEF IndInv, TypeOK, HandlerRecords, Ids, RunStages, PurgeStages, Stages, At, Goto,
         Return, DropApp
    <3>2. failures' \in 0..MaxFailures /\ leftover' \in BOOLEAN
      <4>1. StepDone \/ StepFails
        BY <1>21 DEF DropApp
      <4>2. CASE StepDone
        BY <4>2 DEF StepDone, IndInv, TypeOK
      <4>3. CASE StepFails
        <5>1. failures' \in 0..MaxFailures
          BY <4>3 DEF StepFails, Fail, IndInv, TypeOK
        <5>2. leftover' = TRUE
          BY <4>3 DEF StepFails
        <5> QED BY <5>1, <5>2
      <4> QED BY <4>1, <4>2, <4>3
    <3>3. pristine' \in Ids
      BY <1>21 DEF IndInv, TypeOK, HandlerRecords, Ids, Touch, history, DropApp
    <3>4. /\ row' \in [id : Ids, owner : People, repo : BOOLEAN, status : Statuses]
          /\ created' \in Ids
      BY <1>21 DEF IndInv, TypeOK, HandlerRecords, Ids, Statuses, DropApp
    <3> QED
      BY <1>21, <3>1, <3>2, <3>3, <3>4 DEF IndInv, TypeOK, world, history, NoNamespace, NoApp,
         DropApp, StepFails, StepDone
  <2>2. Numbered'
    BY <1>21 DEF IndInv, TypeOK, HandlerRecords, Numbered, Undisturbed, Ids, Busy, RunStages,
       PurgeStages, Stages, Idle, NoRow, NoNamespace, NoApp, At, Goto, Return, Fail, Touch, OfRow,
       world, history, DropApp, StepFails, StepDone
  <2>3. OneRun'
    BY <1>21 DEF IndInv, TypeOK, HandlerRecords, OneRun, Numbered, Ids, Busy, RunStages,
       PurgeStages, Stages, Idle, NoRow, NoNamespace, NoApp, At, Goto, Return, Fail, Touch, OfRow,
       world, history, DropApp, StepFails, StepDone
  <2>4. Undisturbed'
    BY <1>21 DEF IndInv, TypeOK, HandlerRecords, Undisturbed, Numbered, Ids, Busy, RunsNoted,
       Noted, RunStages, PurgeStages, Stages, Idle, NoRow, NoNamespace, NoApp, At, Goto, Return,
       Fail, Touch, OfRow, world, history, DropApp, StepFails, StepDone
  <2>5. RunsNoted'
    BY <1>21 DEF IndInv, TypeOK, HandlerRecords, RunsNoted, Noted, OneRun, Numbered, Undisturbed,
       Deployable, Ids, Busy, RunStages, PurgeStages, Stages, Idle, NoRow, NoNamespace, NoApp, At,
       Goto, Return, Fail, Touch, OfRow, world, history, DropApp, StepFails, StepDone
  <2>6. ReadyIsDeployed'
    BY <1>21 DEF IndInv, TypeOK, HandlerRecords, ReadyIsDeployed, Deployed, RunsNoted, Noted,
       OneRun, Numbered, Undisturbed, Deployable, Ids, Busy, Statuses, RunStages, PurgeStages,
       Stages, Idle, NoRow, NoNamespace, NoApp, At, Goto, Return, Fail, Touch, OfRow, world,
       history, DropApp, StepFails, StepDone
  <2> QED BY <2>1, <2>2, <2>3, <2>4, <2>5, <2>6 DEF IndInv
<1>22. ASSUME DropNamespace(h) PROVE IndInv'
  <2>1. TypeOK'
    <3>1. handler' \in [Handlers -> HandlerRecords]
      BY <1>22 DEF IndInv, TypeOK, HandlerRecords, Ids, RunStages, PurgeStages, Stages, At, Goto,
         Return, DropNamespace
    <3>2. failures' \in 0..MaxFailures /\ leftover' \in BOOLEAN
      <4>1. StepDone \/ StepFails
        BY <1>22 DEF DropNamespace
      <4>2. CASE StepDone
        BY <4>2 DEF StepDone, IndInv, TypeOK
      <4>3. CASE StepFails
        <5>1. failures' \in 0..MaxFailures
          BY <4>3 DEF StepFails, Fail, IndInv, TypeOK
        <5>2. leftover' = TRUE
          BY <4>3 DEF StepFails
        <5> QED BY <5>1, <5>2
      <4> QED BY <4>1, <4>2, <4>3
    <3>3. pristine' \in Ids
      BY <1>22 DEF IndInv, TypeOK, HandlerRecords, Ids, Touch, history, DropNamespace
    <3>4. /\ row' \in [id : Ids, owner : People, repo : BOOLEAN, status : Statuses]
          /\ created' \in Ids
      BY <1>22 DEF IndInv, TypeOK, HandlerRecords, Ids, Statuses, DropNamespace
    <3> QED
      BY <1>22, <3>1, <3>2, <3>3, <3>4 DEF IndInv, TypeOK, world, history, NoNamespace, NoApp,
         DropNamespace, StepFails, StepDone
  <2>2. Numbered'
    BY <1>22 DEF IndInv, TypeOK, HandlerRecords, Numbered, Undisturbed, Ids, Busy, RunStages,
       PurgeStages, Stages, Idle, NoRow, NoNamespace, NoApp, At, Goto, Return, Fail, Touch, OfRow,
       world, history, DropNamespace, StepFails, StepDone
  <2>3. OneRun'
    BY <1>22 DEF IndInv, TypeOK, HandlerRecords, OneRun, Numbered, Ids, Busy, RunStages,
       PurgeStages, Stages, Idle, NoRow, NoNamespace, NoApp, At, Goto, Return, Fail, Touch, OfRow,
       world, history, DropNamespace, StepFails, StepDone
  <2>4. Undisturbed'
    BY <1>22 DEF IndInv, TypeOK, HandlerRecords, Undisturbed, Numbered, Ids, Busy, RunsNoted,
       Noted, RunStages, PurgeStages, Stages, Idle, NoRow, NoNamespace, NoApp, At, Goto, Return,
       Fail, Touch, OfRow, world, history, DropNamespace, StepFails, StepDone
  <2>5. RunsNoted'
    BY <1>22 DEF IndInv, TypeOK, HandlerRecords, RunsNoted, Noted, OneRun, Numbered, Undisturbed,
       Deployable, Ids, Busy, RunStages, PurgeStages, Stages, Idle, NoRow, NoNamespace, NoApp, At,
       Goto, Return, Fail, Touch, OfRow, world, history, DropNamespace, StepFails, StepDone
  <2>6. ReadyIsDeployed'
    BY <1>22 DEF IndInv, TypeOK, HandlerRecords, ReadyIsDeployed, Deployed, RunsNoted, Noted,
       OneRun, Numbered, Undisturbed, Deployable, Ids, Busy, Statuses, RunStages, PurgeStages,
       Stages, Idle, NoRow, NoNamespace, NoApp, At, Goto, Return, Fail, Touch, OfRow, world,
       history, DropNamespace, StepFails, StepDone
  <2> QED BY <2>1, <2>2, <2>3, <2>4, <2>5, <2>6 DEF IndInv
<1>23. ASSUME DropRepo(h) PROVE IndInv'
  <2>1. TypeOK'
    <3>1. handler' \in [Handlers -> HandlerRecords]
      BY <1>23 DEF IndInv, TypeOK, HandlerRecords, Ids, RunStages, PurgeStages, Stages, At, Goto,
         Return, DropRepo
    <3>2. failures' \in 0..MaxFailures /\ leftover' \in BOOLEAN
      <4>1. StepDone \/ StepFails
        BY <1>23 DEF DropRepo
      <4>2. CASE StepDone
        BY <4>2 DEF StepDone, IndInv, TypeOK
      <4>3. CASE StepFails
        <5>1. failures' \in 0..MaxFailures
          BY <4>3 DEF StepFails, Fail, IndInv, TypeOK
        <5>2. leftover' = TRUE
          BY <4>3 DEF StepFails
        <5> QED BY <5>1, <5>2
      <4> QED BY <4>1, <4>2, <4>3
    <3>3. pristine' \in Ids
      BY <1>23 DEF IndInv, TypeOK, HandlerRecords, Ids, Touch, history, DropRepo
    <3>4. /\ row' \in [id : Ids, owner : People, repo : BOOLEAN, status : Statuses]
          /\ created' \in Ids
      BY <1>23 DEF IndInv, TypeOK, HandlerRecords, Ids, Statuses, DropRepo
    <3> QED
      BY <1>23, <3>1, <3>2, <3>3, <3>4 DEF IndInv, TypeOK, world, history, NoNamespace, NoApp,
         DropRepo, StepFails, StepDone, ToDelete
  <2>2. Numbered'
    BY <1>23 DEF IndInv, TypeOK, HandlerRecords, Numbered, Undisturbed, Ids, Busy, RunStages,
       PurgeStages, Stages, Idle, NoRow, NoNamespace, NoApp, At, Goto, Return, Fail, Touch, OfRow,
       world, history, DropRepo, StepFails, StepDone, ToDelete
  <2>3. OneRun'
    BY <1>23 DEF IndInv, TypeOK, HandlerRecords, OneRun, Numbered, Ids, Busy, RunStages,
       PurgeStages, Stages, Idle, NoRow, NoNamespace, NoApp, At, Goto, Return, Fail, Touch, OfRow,
       world, history, DropRepo, StepFails, StepDone, ToDelete
  <2>4. Undisturbed'
    BY <1>23 DEF IndInv, TypeOK, HandlerRecords, Undisturbed, Numbered, Ids, Busy, RunsNoted,
       Noted, RunStages, PurgeStages, Stages, Idle, NoRow, NoNamespace, NoApp, At, Goto, Return,
       Fail, Touch, OfRow, world, history, DropRepo, StepFails, StepDone, ToDelete
  <2>5. RunsNoted'
    BY <1>23 DEF IndInv, TypeOK, HandlerRecords, RunsNoted, Noted, OneRun, Numbered, Undisturbed,
       Deployable, Ids, Busy, RunStages, PurgeStages, Stages, Idle, NoRow, NoNamespace, NoApp, At,
       Goto, Return, Fail, Touch, OfRow, world, history, DropRepo, StepFails, StepDone, ToDelete
  <2>6. ReadyIsDeployed'
    BY <1>23 DEF IndInv, TypeOK, HandlerRecords, ReadyIsDeployed, Deployed, RunsNoted, Noted,
       OneRun, Numbered, Undisturbed, Deployable, Ids, Busy, Statuses, RunStages, PurgeStages,
       Stages, Idle, NoRow, NoNamespace, NoApp, At, Goto, Return, Fail, Touch, OfRow, world,
       history, DropRepo, StepFails, StepDone, ToDelete
  <2> QED BY <2>1, <2>2, <2>3, <2>4, <2>5, <2>6 DEF IndInv
<1>24. ASSUME DropRow(h) PROVE IndInv'
  <2>1. TypeOK'
    BY <1>24 DEF IndInv, TypeOK, HandlerRecords, Ids, Statuses, RunStages, PurgeStages, Stages,
       Idle, NoRow, NoNamespace, NoApp, At, Goto, Return, Fail, Touch, OfRow, world, history,
       DropRow
  <2>2. Numbered'
    BY <1>24 DEF IndInv, TypeOK, HandlerRecords, Numbered, Undisturbed, Ids, Busy, RunStages,
       PurgeStages, Stages, Idle, NoRow, NoNamespace, NoApp, At, Goto, Return, Fail, Touch, OfRow,
       world, history, DropRow
  <2>3. OneRun'
    BY <1>24 DEF IndInv, TypeOK, HandlerRecords, OneRun, Numbered, Ids, Busy, RunStages,
       PurgeStages, Stages, Idle, NoRow, NoNamespace, NoApp, At, Goto, Return, Fail, Touch, OfRow,
       world, history, DropRow
  <2>4. Undisturbed'
    BY <1>24 DEF IndInv, TypeOK, HandlerRecords, Undisturbed, Numbered, Ids, Busy, RunsNoted,
       Noted, RunStages, PurgeStages, Stages, Idle, NoRow, NoNamespace, NoApp, At, Goto, Return,
       Fail, Touch, OfRow, world, history, DropRow
  <2>5. RunsNoted'
    BY <1>24 DEF IndInv, TypeOK, HandlerRecords, RunsNoted, Noted, OneRun, Numbered, Undisturbed,
       Deployable, Ids, Busy, RunStages, PurgeStages, Stages, Idle, NoRow, NoNamespace, NoApp, At,
       Goto, Return, Fail, Touch, OfRow, world, history, DropRow
  <2>6. ReadyIsDeployed'
    BY <1>24 DEF IndInv, TypeOK, HandlerRecords, ReadyIsDeployed, Deployed, RunsNoted, Noted,
       OneRun, Numbered, Undisturbed, Deployable, Ids, Busy, Statuses, RunStages, PurgeStages,
       Stages, Idle, NoRow, NoNamespace, NoApp, At, Goto, Return, Fail, Touch, OfRow, world,
       history, DropRow
  <2> QED BY <2>1, <2>2, <2>3, <2>4, <2>5, <2>6 DEF IndInv
<1>25. ASSUME DropRowFails(h) PROVE IndInv'
  <2>1. TypeOK'
    BY <1>25 DEF IndInv, TypeOK, HandlerRecords, Ids, Statuses, RunStages, PurgeStages, Stages,
       Idle, NoRow, NoNamespace, NoApp, At, Goto, Return, Fail, Touch, OfRow, world, history,
       DropRowFails
  <2>2. Numbered'
    BY <1>25 DEF IndInv, TypeOK, HandlerRecords, Numbered, Undisturbed, Ids, Busy, RunStages,
       PurgeStages, Stages, Idle, NoRow, NoNamespace, NoApp, At, Goto, Return, Fail, Touch, OfRow,
       world, history, DropRowFails
  <2>3. OneRun'
    BY <1>25 DEF IndInv, TypeOK, HandlerRecords, OneRun, Numbered, Ids, Busy, RunStages,
       PurgeStages, Stages, Idle, NoRow, NoNamespace, NoApp, At, Goto, Return, Fail, Touch, OfRow,
       world, history, DropRowFails
  <2>4. Undisturbed'
    BY <1>25 DEF IndInv, TypeOK, HandlerRecords, Undisturbed, Numbered, Ids, Busy, RunsNoted,
       Noted, RunStages, PurgeStages, Stages, Idle, NoRow, NoNamespace, NoApp, At, Goto, Return,
       Fail, Touch, OfRow, world, history, DropRowFails
  <2>5. RunsNoted'
    BY <1>25 DEF IndInv, TypeOK, HandlerRecords, RunsNoted, Noted, OneRun, Numbered, Undisturbed,
       Deployable, Ids, Busy, RunStages, PurgeStages, Stages, Idle, NoRow, NoNamespace, NoApp, At,
       Goto, Return, Fail, Touch, OfRow, world, history, DropRowFails
  <2>6. ReadyIsDeployed'
    BY <1>25 DEF IndInv, TypeOK, HandlerRecords, ReadyIsDeployed, Deployed, RunsNoted, Noted,
       OneRun, Numbered, Undisturbed, Deployable, Ids, Busy, Statuses, RunStages, PurgeStages,
       Stages, Idle, NoRow, NoNamespace, NoApp, At, Goto, Return, Fail, Touch, OfRow, world,
       history, DropRowFails
  <2> QED BY <2>1, <2>2, <2>3, <2>4, <2>5, <2>6 DEF IndInv
<1> QED BY <1>1, <1>2, <1>3, <1>4, <1>5, <1>6, <1>7, <1>8, <1>9, <1>10, <1>11, <1>12, <1>13, <1>14,
     <1>15, <1>16, <1>17, <1>18, <1>19, <1>20, <1>21, <1>22, <1>23, <1>24, <1>25 DEF Request,
     Advance, Run, Purge

\* So do Kubernetes, ArgoCD and a restart of the portal.
LEMMA OutsideStep ==
  ASSUME IndInv, NamespaceGone \/ AppGone \/ Restart
  PROVE  IndInv'
<1> USE EmptyTypes, ProjectLifecycleAssumption
<1>1. ASSUME NamespaceGone PROVE IndInv'
  BY <1>1 DEF IndInv, TypeOK, HandlerRecords, Numbered, OneRun, Undisturbed, RunsNoted, Noted,
     ReadyIsDeployed, Deployed, Deployable, Ids, Statuses, Busy, RunStages, PurgeStages, Stages,
     Idle, NoRow, NoNamespace, NoApp, At, Goto, Return, Fail, Touch, OfRow, world, history,
     NamespaceGone
<1>2. ASSUME AppGone PROVE IndInv'
  BY <1>2 DEF IndInv, TypeOK, HandlerRecords, Numbered, OneRun, Undisturbed, RunsNoted, Noted,
     ReadyIsDeployed, Deployed, Deployable, Ids, Statuses, Busy, RunStages, PurgeStages, Stages,
     Idle, NoRow, NoNamespace, NoApp, At, Goto, Return, Fail, Touch, OfRow, world, history,
     AppGone
<1>3. ASSUME Restart PROVE IndInv'
  BY <1>3 DEF IndInv, TypeOK, HandlerRecords, Numbered, OneRun, Undisturbed, RunsNoted, Noted,
     ReadyIsDeployed, Deployed, Deployable, Ids, Statuses, Busy, RunStages, PurgeStages, Stages,
     Idle, NoRow, NoNamespace, NoApp, At, Goto, Return, Fail, Touch, OfRow, world, history,
     Restart
<1> QED BY <1>1, <1>2, <1>3

\* The empty slug satisfies the invariant.
LEMMA IndInit == Init => IndInv
<1> SUFFICES ASSUME Init PROVE IndInv
  OBVIOUS
<1>1. TypeOK
  <2>1. 0 \in Ids /\ 0 \in 0..MaxFailures
    BY ProjectLifecycleAssumption DEF Ids
  <2> QED BY <2>1, EmptyTypes DEF Init, TypeOK, NoNamespace
<1>2. Numbered /\ OneRun /\ Undisturbed /\ RunsNoted /\ ReadyIsDeployed
  BY EmptyTypes, ProjectLifecycleAssumption DEF Init, Numbered, OneRun, Undisturbed, RunsNoted,
     Noted, ReadyIsDeployed, Deployed, Deployable, Ids, Statuses, Busy, RunStages, PurgeStages,
     Stages, Idle, NoRow, NoNamespace, NoApp
<1> QED BY <1>1, <1>2 DEF IndInv

\* The invariant holds in every state of every behaviour.
THEOREM Invariance == Spec => []IndInv
<1>1. IndInv /\ [Next]_vars => IndInv'
  <2> SUFFICES ASSUME IndInv, [Next]_vars PROVE IndInv'
    OBVIOUS
  <2>1. ASSUME NEW h \in Handlers, Request(h) \/ Advance(h) PROVE IndInv'
    BY <2>1, HandlerStep
  <2>2. ASSUME NamespaceGone \/ AppGone \/ Restart PROVE IndInv'
    BY <2>2, OutsideStep
  <2>3. CASE UNCHANGED vars
    BY <2>3 DEF vars, world, history, At, IndInv, TypeOK, HandlerRecords, Numbered, OneRun,
       Undisturbed, RunsNoted, Noted, ReadyIsDeployed, Deployed, Deployable, Ids, Statuses, Busy,
       RunStages, PurgeStages, Stages
  <2> QED BY <2>1, <2>2, <2>3 DEF Next
<1> QED BY IndInit, <1>1, PTL DEF Spec

\* Every variable keeps its type.
THEOREM TypeCorrect == Spec => []TypeOK
<1>1. IndInv => TypeOK
  BY DEF IndInv
<1> QED BY Invariance, <1>1, PTL

\* provisionProject reports "`ready` only on the full happy path": a ready
\* project that had the slug to itself since its creation has a sealed namespace,
\* a rendered repository that its row names, and a live Application that deploys
\* that repository.
THEOREM ReadyProjectsAreDeployed == Spec => []ReadyIsDeployed
<1>1. IndInv => ReadyIsDeployed
  BY DEF IndInv
<1> QED BY Invariance, <1>1, PTL

-----------------------------------------------------------------------------
(* A delete that raced with nothing and failed in nothing leaves nothing.  *)

\* Every step of a handler keeps the tidy invariant.
LEMMA TidyStep ==
  ASSUME IndInv, TidyInv, NEW h \in Handlers, Request(h) \/ Advance(h)
  PROVE  TidyInv'
<1> USE EmptyTypes, ProjectLifecycleAssumption
<1>1. ASSUME NEW o \in People, CheckSlug(h, o) PROVE TidyInv'
  <2>1. OneWorker'
    BY <1>1 DEF IndInv, TypeOK, HandlerRecords, TidyInv, OneWorker, Numbered, Busy,
       RunStages, PurgeStages, Stages, Idle, NoRow, NoNamespace, NoApp, At, Goto, Return,
       Fail, Touch, OfRow, world, history, CheckSlug
  <2>2. PurgeKnows'
    BY ZenonT(30), <1>1 DEF IndInv, TypeOK, HandlerRecords, TidyInv, PurgeKnows, OneWorker, Busy,
       RunStages, PurgeStages, Stages, Idle, NoRow, NoNamespace, NoApp, At, Goto, Return,
       Fail, Touch, OfRow, world, history, CheckSlug
  <2>3. TornDown'
    BY <1>1 DEF IndInv, TypeOK, HandlerRecords, TidyInv, TornDown, OneWorker, RunsNoted,
       Deployable, Busy, RunStages, PurgeStages, Stages, Idle, NoRow, NoNamespace, NoApp,
       At, Goto, Return, Fail, Touch, OfRow, world, history, CheckSlug
  <2>4. Recorded'
    BY <1>1 DEF IndInv, TypeOK, HandlerRecords, TidyInv, Recorded, OneWorker, PurgeKnows,
       OneRun, Busy, RunStages, PurgeStages, Stages, Idle, NoRow, NoNamespace, NoApp, At,
       Goto, Return, Fail, Touch, OfRow, world, history, CheckSlug
  <2> QED BY <2>1, <2>2, <2>3, <2>4 DEF TidyInv
<1>2. ASSUME NEW keepRepo \in BOOLEAN, NEW keepNamespace \in BOOLEAN, StartDelete(h, keepRepo, keepNamespace) PROVE TidyInv'
  <2>1. OneWorker'
    <3> SUFFICES ASSUME ~raced', NEW g \in Handlers, Busy(g)'
                 PROVE  handler'[g].id = row'.id /\ \A f \in Handlers \ {g} : ~Busy(f)'
      BY DEF OneWorker
    <3>1. \A f \in Handlers : ~Busy(f)
      BY <1>2 DEF StartDelete
    <3>2. /\ \A f \in Handlers \ {h} : handler'[f] = handler[f]
          /\ handler'[h].id = row'.id
      BY <1>2 DEF StartDelete, Idle, IndInv, TypeOK
    <3>3. \A f \in Handlers \ {h} : ~Busy(f)'
      BY <3>1, <3>2 DEF Busy
    <3> QED BY <3>2, <3>3
  <2>2. PurgeKnows'
    BY <1>2 DEF IndInv, TypeOK, HandlerRecords, TidyInv, PurgeKnows, OneWorker, Busy,
       RunStages, PurgeStages, Stages, Idle, NoRow, NoNamespace, NoApp, At, Goto, Return,
       Fail, Touch, OfRow, world, history, StartDelete
  <2>3. TornDown'
    BY <1>2 DEF IndInv, TypeOK, HandlerRecords, TidyInv, TornDown, OneWorker, RunsNoted,
       Deployable, Busy, RunStages, PurgeStages, Stages, Idle, NoRow, NoNamespace, NoApp,
       At, Goto, Return, Fail, Touch, OfRow, world, history, StartDelete
  <2>4. Recorded'
    BY <1>2 DEF IndInv, TypeOK, HandlerRecords, TidyInv, Recorded, OneWorker, PurgeKnows,
       OneRun, Busy, RunStages, PurgeStages, Stages, Idle, NoRow, NoNamespace, NoApp, At,
       Goto, Return, Fail, Touch, OfRow, world, history, StartDelete
  <2> QED BY <2>1, <2>2, <2>3, <2>4 DEF TidyInv
<1>3. ASSUME CheckNamespace(h) PROVE TidyInv'
  <2>1. OneWorker'
    BY <1>3 DEF IndInv, TypeOK, HandlerRecords, TidyInv, OneWorker, Numbered, Busy,
       RunStages, PurgeStages, Stages, Idle, NoRow, NoNamespace, NoApp, At, Goto, Return,
       Fail, Touch, OfRow, world, history, Available, CheckNamespace
  <2>2. PurgeKnows'
    BY <1>3 DEF IndInv, TypeOK, HandlerRecords, TidyInv, PurgeKnows, OneWorker, Busy,
       RunStages, PurgeStages, Stages, Idle, NoRow, NoNamespace, NoApp, At, Goto, Return,
       Fail, Touch, OfRow, world, history, Available, CheckNamespace
  <2>3. TornDown'
    BY <1>3 DEF IndInv, TypeOK, HandlerRecords, TidyInv, TornDown, OneWorker, RunsNoted,
       Deployable, Busy, RunStages, PurgeStages, Stages, Idle, NoRow, NoNamespace, NoApp,
       At, Goto, Return, Fail, Touch, OfRow, world, history, Available, CheckNamespace
  <2>4. Recorded'
    BY <1>3 DEF IndInv, TypeOK, HandlerRecords, TidyInv, Recorded, OneWorker, PurgeKnows,
       OneRun, Busy, RunStages, PurgeStages, Stages, Idle, NoRow, NoNamespace, NoApp, At,
       Goto, Return, Fail, Touch, OfRow, world, history, Available, CheckNamespace
  <2> QED BY <2>1, <2>2, <2>3, <2>4 DEF TidyInv
<1>4. ASSUME Insert(h) PROVE TidyInv'
  <2>1. OneWorker'
    BY <1>4 DEF IndInv, TypeOK, HandlerRecords, TidyInv, OneWorker, Numbered, Busy,
       RunStages, PurgeStages, Stages, Idle, NoRow, NoNamespace, NoApp, At, Goto, Return,
       Fail, Touch, OfRow, world, history, Insert
  <2>2. PurgeKnows'
    <3>1. /\ row.id = 0 /\ UNCHANGED <<raced, leftover>> /\ handler'[h].pc = "seal"
          /\ \A g \in Handlers \ {h} : handler'[g] = handler[g]
      BY <1>4 DEF Insert, IndInv, TypeOK, HandlerRecords
    <3>2. ASSUME NEW g \in Handlers, handler'[g].pc \in PurgeStages
          PROVE  handler[g].pc \in PurgeStages /\ handler'[g] = handler[g] /\ raced
      <4>1. g # h
        BY <3>1, <3>2 DEF PurgeStages
      <4>2. Busy(g) /\ handler[g].id # 0
        BY <3>1, <3>2, <4>1 DEF Busy, IndInv, Numbered
      <4> QED BY <3>1, <3>2, <4>1, <4>2 DEF TidyInv, OneWorker
    <3> QED BY <3>1, <3>2 DEF TidyInv, PurgeKnows
  <2>3. TornDown'
    BY <1>4 DEF IndInv, TypeOK, HandlerRecords, TidyInv, TornDown, OneWorker, RunsNoted,
       Deployable, Busy, RunStages, PurgeStages, Stages, Idle, NoRow, NoNamespace, NoApp,
       At, Goto, Return, Fail, Touch, OfRow, world, history, Insert
  <2>4. Recorded'
    BY <1>4 DEF IndInv, TypeOK, HandlerRecords, TidyInv, Recorded, OneWorker, PurgeKnows,
       OneRun, Busy, RunStages, PurgeStages, Stages, Idle, NoRow, NoNamespace, NoApp, At,
       Goto, Return, Fail, Touch, OfRow, world, history, Insert
  <2> QED BY <2>1, <2>2, <2>3, <2>4 DEF TidyInv
<1>5. ASSUME Refused(h) PROVE TidyInv'
  <2>1. OneWorker'
    BY <1>5 DEF IndInv, TypeOK, HandlerRecords, TidyInv, OneWorker, Numbered, Busy,
       RunStages, PurgeStages, Stages, Idle, NoRow, NoNamespace, NoApp, At, Goto, Return,
       Fail, Touch, OfRow, world, history, Refused
  <2>2. PurgeKnows'
    BY ZenonT(30), <1>5 DEF IndInv, TypeOK, HandlerRecords, TidyInv, PurgeKnows, OneWorker, Busy,
       RunStages, PurgeStages, Stages, Idle, NoRow, NoNamespace, NoApp, At, Goto, Return,
       Fail, Touch, OfRow, world, history, Refused
  <2>3. TornDown'
    BY <1>5 DEF IndInv, TypeOK, HandlerRecords, TidyInv, TornDown, OneWorker, RunsNoted,
       Deployable, Busy, RunStages, PurgeStages, Stages, Idle, NoRow, NoNamespace, NoApp,
       At, Goto, Return, Fail, Touch, OfRow, world, history, Refused
  <2>4. Recorded'
    BY <1>5 DEF IndInv, TypeOK, HandlerRecords, TidyInv, Recorded, OneWorker, PurgeKnows,
       OneRun, Busy, RunStages, PurgeStages, Stages, Idle, NoRow, NoNamespace, NoApp, At,
       Goto, Return, Fail, Touch, OfRow, world, history, Refused
  <2> QED BY <2>1, <2>2, <2>3, <2>4 DEF TidyInv
<1>6. ASSUME CreateNamespace(h) PROVE TidyInv'
  <2>1. OneWorker'
    BY <1>6 DEF IndInv, TypeOK, HandlerRecords, TidyInv, OneWorker, Numbered, Busy,
       RunStages, PurgeStages, Stages, Idle, NoRow, NoNamespace, NoApp, At, Goto, Return,
       Fail, Touch, OfRow, world, history, CreateNamespace
  <2>2. PurgeKnows'
    BY <1>6 DEF IndInv, TypeOK, HandlerRecords, TidyInv, PurgeKnows, OneWorker, Busy,
       RunStages, PurgeStages, Stages, Idle, NoRow, NoNamespace, NoApp, At, Goto, Return,
       Fail, Touch, OfRow, world, history, CreateNamespace
  <2>3. TornDown'
    <3> SUFFICES ASSUME ~raced, ~leftover PROVE TornDown'
      BY <1>6 DEF CreateNamespace, TornDown
    <3>1. /\ ns' = IF ns.state = "none" THEN [state |-> "active", sealed |-> FALSE] ELSE ns
          /\ UNCHANGED <<row, app>> /\ handler'[h].pc = "policies"
          /\ handler'[h].sealed = handler[h].sealed /\ handler[h].pc = "seal"
          /\ \A g \in Handlers \ {h} : handler'[g] = handler[g]
      BY <1>6 DEF CreateNamespace, At, Goto, IndInv, TypeOK, HandlerRecords
    <3>2. row.id # 0 /\ \A g \in Handlers \ {h} : ~Busy(g)
      BY <3>1 DEF Busy, RunStages, IndInv, Numbered, TidyInv, OneWorker
    <3>3. ns = [state |-> "active", sealed |-> TRUE] => ns' = ns
      BY <3>1
    <3>4. app'.state = "live" => ns' = [state |-> "active", sealed |-> TRUE]
      BY <3>1, <3>3 DEF TidyInv, TornDown
    <3>5. ASSUME NEW g \in Handlers
          PROVE  /\ handler'[g].pc \notin PurgeStages /\ handler'[g].pc # "register"
                 /\ handler'[g].pc \in RunStages /\ handler'[g].sealed =>
                      ns' = [state |-> "active", sealed |-> TRUE]
      <4>1. CASE g = h
        <5>1. handler'[g].sealed => ns = [state |-> "active", sealed |-> TRUE]
          BY <1>6, <3>1, <4>1 DEF CreateNamespace, TidyInv, TornDown, RunStages
        <5> QED BY <3>1, <3>3, <4>1, <5>1 DEF PurgeStages
      <4>2. CASE g # h
        BY <3>1, <3>2, <4>2 DEF Busy, RunStages
      <4> QED BY <4>1, <4>2
    <3> QED BY <3>1, <3>2, <3>4, <3>5 DEF TornDown, PurgeStages
  <2>4. Recorded'
    BY <1>6 DEF IndInv, TypeOK, HandlerRecords, TidyInv, Recorded, OneWorker, PurgeKnows,
       OneRun, Busy, RunStages, PurgeStages, Stages, Idle, NoRow, NoNamespace, NoApp, At,
       Goto, Return, Fail, Touch, OfRow, world, history, CreateNamespace
  <2> QED BY <2>1, <2>2, <2>3, <2>4 DEF TidyInv
<1>7. ASSUME Seal(h) PROVE TidyInv'
  <2>1. OneWorker'
    BY <1>7 DEF IndInv, TypeOK, HandlerRecords, TidyInv, OneWorker, Numbered, Busy,
       RunStages, PurgeStages, Stages, Idle, NoRow, NoNamespace, NoApp, At, Goto, Return,
       Fail, Touch, OfRow, world, history, Seal
  <2>2. PurgeKnows'
    BY <1>7 DEF IndInv, TypeOK, HandlerRecords, TidyInv, PurgeKnows, OneWorker, Busy,
       RunStages, PurgeStages, Stages, Idle, NoRow, NoNamespace, NoApp, At, Goto, Return,
       Fail, Touch, OfRow, world, history, Seal
  <2>3. TornDown'
    BY ZenonT(30), <1>7 DEF IndInv, TypeOK, HandlerRecords, TidyInv, TornDown, OneWorker, RunsNoted,
       Deployable, Busy, RunStages, PurgeStages, Stages, Idle, NoRow, NoNamespace, NoApp,
       At, Goto, Return, Fail, Touch, OfRow, world, history, Seal
  <2>4. Recorded'
    BY <1>7 DEF IndInv, TypeOK, HandlerRecords, TidyInv, Recorded, OneWorker, PurgeKnows,
       OneRun, Busy, RunStages, PurgeStages, Stages, Idle, NoRow, NoNamespace, NoApp, At,
       Goto, Return, Fail, Touch, OfRow, world, history, Seal
  <2> QED BY <2>1, <2>2, <2>3, <2>4 DEF TidyInv
<1>8. ASSUME SealFails(h) PROVE TidyInv'
  <2>1. OneWorker'
    BY <1>8 DEF IndInv, TypeOK, HandlerRecords, TidyInv, OneWorker, Numbered, Busy,
       RunStages, PurgeStages, Stages, Idle, NoRow, NoNamespace, NoApp, At, Goto, Return,
       Fail, Touch, OfRow, world, history, SealFails
  <2>2. PurgeKnows'
    BY <1>8 DEF IndInv, TypeOK, HandlerRecords, TidyInv, PurgeKnows, OneWorker, Busy,
       RunStages, PurgeStages, Stages, Idle, NoRow, NoNamespace, NoApp, At, Goto, Return,
       Fail, Touch, OfRow, world, history, SealFails
  <2>3. TornDown'
    BY <1>8 DEF IndInv, TypeOK, HandlerRecords, TidyInv, TornDown, OneWorker, RunsNoted,
       Deployable, Busy, RunStages, PurgeStages, Stages, Idle, NoRow, NoNamespace, NoApp,
       At, Goto, Return, Fail, Touch, OfRow, world, history, SealFails
  <2>4. Recorded'
    BY <1>8 DEF IndInv, TypeOK, HandlerRecords, TidyInv, Recorded, OneWorker, PurgeKnows,
       OneRun, Busy, RunStages, PurgeStages, Stages, Idle, NoRow, NoNamespace, NoApp, At,
       Goto, Return, Fail, Touch, OfRow, world, history, SealFails
  <2> QED BY <2>1, <2>2, <2>3, <2>4 DEF TidyInv
<1>9. ASSUME Generate(h) PROVE TidyInv'
  <2>1. OneWorker'
    BY <1>9 DEF IndInv, TypeOK, HandlerRecords, TidyInv, OneWorker, Numbered, Busy,
       RunStages, PurgeStages, Stages, Idle, NoRow, NoNamespace, NoApp, At, Goto, Return,
       Fail, Touch, OfRow, world, history, Generate
  <2>2. PurgeKnows'
    BY <1>9 DEF IndInv, TypeOK, HandlerRecords, TidyInv, PurgeKnows, OneWorker, Busy,
       RunStages, PurgeStages, Stages, Idle, NoRow, NoNamespace, NoApp, At, Goto, Return,
       Fail, Touch, OfRow, world, history, Generate
  <2>3. TornDown'
    BY <1>9 DEF IndInv, TypeOK, HandlerRecords, TidyInv, TornDown, OneWorker, RunsNoted,
       Deployable, Busy, RunStages, PurgeStages, Stages, Idle, NoRow, NoNamespace, NoApp,
       At, Goto, Return, Fail, Touch, OfRow, world, history, Generate
  <2>4. Recorded'
    BY <1>9 DEF IndInv, Numbered, TypeOK, HandlerRecords, TidyInv, Recorded, OneWorker,
       PurgeKnows, OneRun, Busy, RunStages, PurgeStages, Stages, Idle, NoRow, NoNamespace,
       NoApp, At, Goto, Return, Fail, Touch, OfRow, world, history, Generate
  <2> QED BY <2>1, <2>2, <2>3, <2>4 DEF TidyInv
<1>10. ASSUME SkipRepo(h) PROVE TidyInv'
  <2>1. OneWorker'
    BY <1>10 DEF IndInv, TypeOK, HandlerRecords, TidyInv, OneWorker, Numbered, Busy,
       RunStages, PurgeStages, Stages, Idle, NoRow, NoNamespace, NoApp, At, Goto, Return,
       Fail, Touch, OfRow, world, history, SkipRepo
  <2>2. PurgeKnows'
    BY <1>10 DEF IndInv, TypeOK, HandlerRecords, TidyInv, PurgeKnows, OneWorker, Busy,
       RunStages, PurgeStages, Stages, Idle, NoRow, NoNamespace, NoApp, At, Goto, Return,
       Fail, Touch, OfRow, world, history, SkipRepo
  <2>3. TornDown'
    BY <1>10 DEF IndInv, TypeOK, HandlerRecords, TidyInv, TornDown, OneWorker, RunsNoted,
       Deployable, Busy, RunStages, PurgeStages, Stages, Idle, NoRow, NoNamespace, NoApp,
       At, Goto, Return, Fail, Touch, OfRow, world, history, SkipRepo
  <2>4. Recorded'
    BY <1>10 DEF IndInv, TypeOK, HandlerRecords, TidyInv, Recorded, OneWorker, PurgeKnows,
       OneRun, Busy, RunStages, PurgeStages, Stages, Idle, NoRow, NoNamespace, NoApp, At,
       Goto, Return, Fail, Touch, OfRow, world, history, SkipRepo
  <2> QED BY <2>1, <2>2, <2>3, <2>4 DEF TidyInv
<1>11. ASSUME GenerateFails(h) PROVE TidyInv'
  <2>1. OneWorker'
    BY <1>11 DEF IndInv, TypeOK, HandlerRecords, TidyInv, OneWorker, Numbered, Busy,
       RunStages, PurgeStages, Stages, Idle, NoRow, NoNamespace, NoApp, At, Goto, Return,
       Fail, Touch, OfRow, world, history, GenerateFails
  <2>2. PurgeKnows'
    BY <1>11 DEF IndInv, TypeOK, HandlerRecords, TidyInv, PurgeKnows, OneWorker, Busy,
       RunStages, PurgeStages, Stages, Idle, NoRow, NoNamespace, NoApp, At, Goto, Return,
       Fail, Touch, OfRow, world, history, GenerateFails
  <2>3. TornDown'
    BY <1>11 DEF IndInv, TypeOK, HandlerRecords, TidyInv, TornDown, OneWorker, RunsNoted,
       Deployable, Busy, RunStages, PurgeStages, Stages, Idle, NoRow, NoNamespace, NoApp,
       At, Goto, Return, Fail, Touch, OfRow, world, history, GenerateFails
  <2>4. Recorded'
    BY <1>11 DEF IndInv, TypeOK, HandlerRecords, TidyInv, Recorded, OneWorker, PurgeKnows,
       OneRun, Busy, RunStages, PurgeStages, Stages, Idle, NoRow, NoNamespace, NoApp, At,
       Goto, Return, Fail, Touch, OfRow, world, history, GenerateFails
  <2> QED BY <2>1, <2>2, <2>3, <2>4 DEF TidyInv
<1>12. ASSUME Record(h) PROVE TidyInv'
  <2>1. OneWorker'
    BY <1>12 DEF IndInv, TypeOK, HandlerRecords, TidyInv, OneWorker, Numbered, Busy,
       RunStages, PurgeStages, Stages, Idle, NoRow, NoNamespace, NoApp, At, Goto, Return,
       Fail, Touch, OfRow, world, history, Record
  <2>2. PurgeKnows'
    <3>1. Busy(h) /\ \A g \in Handlers \ {h} : handler'[g] = handler[g]
      BY <1>12 DEF Record, At, Busy, RunStages, IndInv, TypeOK
    <3>2. handler'[h].pc = "render" /\ UNCHANGED <<raced, leftover>> /\ row'.owner = row.owner
      BY <1>12 DEF Record, IndInv, TypeOK, HandlerRecords, history
    <3>3. ASSUME NEW g \in Handlers, handler'[g].pc \in PurgeStages
          PROVE  /\ g # h /\ handler[g].pc \in PurgeStages /\ handler'[g] = handler[g]
                 /\ raced
      <4>1. g # h
        BY <3>2, <3>3 DEF PurgeStages
      <4>2. Busy(g)
        BY <3>1, <3>3, <4>1 DEF Busy
      <4> QED BY <3>1, <3>3, <4>1, <4>2 DEF TidyInv, OneWorker
    <3> QED BY <3>2, <3>3 DEF TidyInv, PurgeKnows
  <2>3. TornDown'
    BY <1>12 DEF IndInv, TypeOK, HandlerRecords, TidyInv, TornDown, OneWorker, RunsNoted,
       Deployable, Busy, RunStages, PurgeStages, Stages, Idle, NoRow, NoNamespace, NoApp,
       At, Goto, Return, Fail, Touch, OfRow, world, history, Record
  <2>4. Recorded'
    BY <1>12 DEF IndInv, TypeOK, HandlerRecords, TidyInv, Recorded, OneWorker, PurgeKnows,
       OneRun, Busy, RunStages, PurgeStages, Stages, Idle, NoRow, NoNamespace, NoApp, At,
       Goto, Return, Fail, Touch, OfRow, world, history, Record
  <2> QED BY <2>1, <2>2, <2>3, <2>4 DEF TidyInv
<1>13. ASSUME RecordFails(h) PROVE TidyInv'
  <2>1. OneWorker'
    BY <1>13 DEF IndInv, TypeOK, HandlerRecords, TidyInv, OneWorker, Numbered, Busy,
       RunStages, PurgeStages, Stages, Idle, NoRow, NoNamespace, NoApp, At, Goto, Return,
       Fail, Touch, OfRow, world, history, RecordFails
  <2>2. PurgeKnows'
    BY <1>13 DEF IndInv, TypeOK, HandlerRecords, TidyInv, PurgeKnows, OneWorker, Busy,
       RunStages, PurgeStages, Stages, Idle, NoRow, NoNamespace, NoApp, At, Goto, Return,
       Fail, Touch, OfRow, world, history, RecordFails
  <2>3. TornDown'
    BY <1>13 DEF IndInv, TypeOK, HandlerRecords, TidyInv, TornDown, OneWorker, RunsNoted,
       Deployable, Busy, RunStages, PurgeStages, Stages, Idle, NoRow, NoNamespace, NoApp,
       At, Goto, Return, Fail, Touch, OfRow, world, history, RecordFails
  <2>4. Recorded'
    BY <1>13 DEF IndInv, TypeOK, HandlerRecords, TidyInv, Recorded, OneWorker, PurgeKnows,
       OneRun, Busy, RunStages, PurgeStages, Stages, Idle, NoRow, NoNamespace, NoApp, At,
       Goto, Return, Fail, Touch, OfRow, world, history, RecordFails
  <2> QED BY <2>1, <2>2, <2>3, <2>4 DEF TidyInv
<1>14. ASSUME Render(h) PROVE TidyInv'
  <2>1. OneWorker'
    BY <1>14 DEF IndInv, TypeOK, HandlerRecords, TidyInv, OneWorker, Numbered, Busy,
       RunStages, PurgeStages, Stages, Idle, NoRow, NoNamespace, NoApp, At, Goto, Return,
       Fail, Touch, OfRow, world, history, Writable, Render
  <2>2. PurgeKnows'
    BY <1>14 DEF IndInv, TypeOK, HandlerRecords, TidyInv, PurgeKnows, OneWorker, Busy,
       RunStages, PurgeStages, Stages, Idle, NoRow, NoNamespace, NoApp, At, Goto, Return,
       Fail, Touch, OfRow, world, history, Writable, Render
  <2>3. TornDown'
    BY <1>14 DEF IndInv, TypeOK, HandlerRecords, TidyInv, TornDown, OneWorker, RunsNoted,
       Deployable, Busy, RunStages, PurgeStages, Stages, Idle, NoRow, NoNamespace, NoApp,
       At, Goto, Return, Fail, Touch, OfRow, world, history, Writable, Render
  <2>4. Recorded'
    BY <1>14 DEF IndInv, TypeOK, HandlerRecords, TidyInv, Recorded, OneWorker, PurgeKnows,
       OneRun, Busy, RunStages, PurgeStages, Stages, Idle, NoRow, NoNamespace, NoApp, At,
       Goto, Return, Fail, Touch, OfRow, world, history, Writable, Render
  <2> QED BY <2>1, <2>2, <2>3, <2>4 DEF TidyInv
<1>15. ASSUME RenderFails(h) PROVE TidyInv'
  <2>1. OneWorker'
    BY <1>15 DEF IndInv, TypeOK, HandlerRecords, TidyInv, OneWorker, Numbered, Busy,
       RunStages, PurgeStages, Stages, Idle, NoRow, NoNamespace, NoApp, At, Goto, Return,
       Fail, Touch, OfRow, world, history, Writable, RenderFails
  <2>2. PurgeKnows'
    BY <1>15 DEF IndInv, TypeOK, HandlerRecords, TidyInv, PurgeKnows, OneWorker, Busy,
       RunStages, PurgeStages, Stages, Idle, NoRow, NoNamespace, NoApp, At, Goto, Return,
       Fail, Touch, OfRow, world, history, Writable, RenderFails
  <2>3. TornDown'
    BY <1>15 DEF IndInv, TypeOK, HandlerRecords, TidyInv, TornDown, OneWorker, RunsNoted,
       Deployable, Busy, RunStages, PurgeStages, Stages, Idle, NoRow, NoNamespace, NoApp,
       At, Goto, Return, Fail, Touch, OfRow, world, history, Writable, RenderFails
  <2>4. Recorded'
    BY <1>15 DEF IndInv, TypeOK, HandlerRecords, TidyInv, Recorded, OneWorker, PurgeKnows,
       OneRun, Busy, RunStages, PurgeStages, Stages, Idle, NoRow, NoNamespace, NoApp, At,
       Goto, Return, Fail, Touch, OfRow, world, history, Writable, RenderFails
  <2> QED BY <2>1, <2>2, <2>3, <2>4 DEF TidyInv
<1>16. ASSUME Gate(h) PROVE TidyInv'
  <2>1. OneWorker'
    BY <1>16 DEF IndInv, TypeOK, HandlerRecords, TidyInv, OneWorker, Numbered, Busy,
       RunStages, PurgeStages, Stages, Idle, NoRow, NoNamespace, NoApp, At, Goto, Return,
       Fail, Touch, OfRow, world, history, Deployable, Gate
  <2>2. PurgeKnows'
    BY <1>16 DEF IndInv, TypeOK, HandlerRecords, TidyInv, PurgeKnows, OneWorker, Busy,
       RunStages, PurgeStages, Stages, Idle, NoRow, NoNamespace, NoApp, At, Goto, Return,
       Fail, Touch, OfRow, world, history, Deployable, Gate
  <2>3. TornDown'
    BY <1>16 DEF IndInv, TypeOK, HandlerRecords, TidyInv, TornDown, OneWorker, RunsNoted,
       Deployable, Busy, RunStages, PurgeStages, Stages, Idle, NoRow, NoNamespace, NoApp,
       At, Goto, Return, Fail, Touch, OfRow, world, history, Gate
  <2>4. Recorded'
    BY <1>16 DEF IndInv, TypeOK, HandlerRecords, TidyInv, Recorded, OneWorker, PurgeKnows,
       OneRun, Busy, RunStages, PurgeStages, Stages, Idle, NoRow, NoNamespace, NoApp, At,
       Goto, Return, Fail, Touch, OfRow, world, history, Deployable, Gate
  <2> QED BY <2>1, <2>2, <2>3, <2>4 DEF TidyInv
<1>17. ASSUME Register(h) PROVE TidyInv'
  <2>1. OneWorker'
    BY <1>17 DEF IndInv, TypeOK, HandlerRecords, TidyInv, OneWorker, Numbered, Busy,
       RunStages, PurgeStages, Stages, Idle, NoRow, NoNamespace, NoApp, At, Goto, Return,
       Fail, Touch, OfRow, world, history, Registered, Register
  <2>2. PurgeKnows'
    BY <1>17 DEF IndInv, TypeOK, HandlerRecords, TidyInv, PurgeKnows, OneWorker, Busy,
       RunStages, PurgeStages, Stages, Idle, NoRow, NoNamespace, NoApp, At, Goto, Return,
       Fail, Touch, OfRow, world, history, Registered, Register
  <2>3. TornDown'
    BY <1>17 DEF IndInv, Numbered, TypeOK, HandlerRecords, TidyInv, TornDown, OneWorker,
       RunsNoted, Deployable, Busy, RunStages, PurgeStages, Stages, Idle, NoRow,
       NoNamespace, NoApp, At, Goto, Return, Fail, Touch, OfRow, world, history,
       Registered, Register
  <2>4. Recorded'
    BY <1>17 DEF IndInv, TypeOK, HandlerRecords, TidyInv, Recorded, OneWorker, PurgeKnows,
       OneRun, Busy, RunStages, PurgeStages, Stages, Idle, NoRow, NoNamespace, NoApp, At,
       Goto, Return, Fail, Touch, OfRow, world, history, Registered, Register
  <2> QED BY <2>1, <2>2, <2>3, <2>4 DEF TidyInv
<1>18. ASSUME RegisterFails(h) PROVE TidyInv'
  <2>1. OneWorker'
    BY <1>18 DEF IndInv, TypeOK, HandlerRecords, TidyInv, OneWorker, Numbered, Busy,
       RunStages, PurgeStages, Stages, Idle, NoRow, NoNamespace, NoApp, At, Goto, Return,
       Fail, Touch, OfRow, world, history, Registered, RegisterFails
  <2>2. PurgeKnows'
    BY <1>18 DEF IndInv, TypeOK, HandlerRecords, TidyInv, PurgeKnows, OneWorker, Busy,
       RunStages, PurgeStages, Stages, Idle, NoRow, NoNamespace, NoApp, At, Goto, Return,
       Fail, Touch, OfRow, world, history, Registered, RegisterFails
  <2>3. TornDown'
    BY <1>18 DEF IndInv, Numbered, TypeOK, HandlerRecords, TidyInv, TornDown, OneWorker,
       RunsNoted, Deployable, Busy, RunStages, PurgeStages, Stages, Idle, NoRow,
       NoNamespace, NoApp, At, Goto, Return, Fail, Touch, OfRow, world, history,
       Registered, RegisterFails
  <2>4. Recorded'
    BY <1>18 DEF IndInv, TypeOK, HandlerRecords, TidyInv, Recorded, OneWorker, PurgeKnows,
       OneRun, Busy, RunStages, PurgeStages, Stages, Idle, NoRow, NoNamespace, NoApp, At,
       Goto, Return, Fail, Touch, OfRow, world, history, Registered, RegisterFails
  <2> QED BY <2>1, <2>2, <2>3, <2>4 DEF TidyInv
<1>19. ASSUME SetStatus(h) PROVE TidyInv'
  <2>1. OneWorker'
    BY <1>19 DEF IndInv, TypeOK, HandlerRecords, TidyInv, OneWorker, Numbered, Busy,
       RunStages, PurgeStages, Stages, Idle, NoRow, NoNamespace, NoApp, At, Goto, Return,
       Fail, Touch, OfRow, world, history, Verdict, SetStatus
  <2>2. PurgeKnows'
    BY ZenonT(30), <1>19 DEF IndInv, TypeOK, HandlerRecords, TidyInv, PurgeKnows, OneWorker, Busy,
       RunStages, PurgeStages, Stages, Idle, NoRow, NoNamespace, NoApp, At, Goto, Return,
       Fail, Touch, OfRow, world, history, Verdict, SetStatus
  <2>3. TornDown'
    BY <1>19 DEF IndInv, TypeOK, HandlerRecords, TidyInv, TornDown, OneWorker, RunsNoted,
       Deployable, Busy, RunStages, PurgeStages, Stages, Idle, NoRow, NoNamespace, NoApp,
       At, Goto, Return, Fail, Touch, OfRow, world, history, Verdict, SetStatus
  <2>4. Recorded'
    BY <1>19 DEF IndInv, TypeOK, HandlerRecords, TidyInv, Recorded, OneWorker, PurgeKnows,
       OneRun, Busy, RunStages, PurgeStages, Stages, Idle, NoRow, NoNamespace, NoApp, At,
       Goto, Return, Fail, Touch, OfRow, world, history, Verdict, SetStatus
  <2> QED BY <2>1, <2>2, <2>3, <2>4 DEF TidyInv
<1>20. ASSUME SetStatusFails(h) PROVE TidyInv'
  <2>1. OneWorker'
    BY <1>20 DEF IndInv, TypeOK, HandlerRecords, TidyInv, OneWorker, Numbered, Busy,
       RunStages, PurgeStages, Stages, Idle, NoRow, NoNamespace, NoApp, At, Goto, Return,
       Fail, Touch, OfRow, world, history, SetStatusFails
  <2>2. PurgeKnows'
    BY ZenonT(30), <1>20 DEF IndInv, TypeOK, HandlerRecords, TidyInv, PurgeKnows, OneWorker, Busy,
       RunStages, PurgeStages, Stages, Idle, NoRow, NoNamespace, NoApp, At, Goto, Return,
       Fail, Touch, OfRow, world, history, SetStatusFails
  <2>3. TornDown'
    BY <1>20 DEF IndInv, TypeOK, HandlerRecords, TidyInv, TornDown, OneWorker, RunsNoted,
       Deployable, Busy, RunStages, PurgeStages, Stages, Idle, NoRow, NoNamespace, NoApp,
       At, Goto, Return, Fail, Touch, OfRow, world, history, SetStatusFails
  <2>4. Recorded'
    BY <1>20 DEF IndInv, TypeOK, HandlerRecords, TidyInv, Recorded, OneWorker, PurgeKnows,
       OneRun, Busy, RunStages, PurgeStages, Stages, Idle, NoRow, NoNamespace, NoApp, At,
       Goto, Return, Fail, Touch, OfRow, world, history, SetStatusFails
  <2> QED BY <2>1, <2>2, <2>3, <2>4 DEF TidyInv
<1>21. ASSUME DropApp(h) PROVE TidyInv'
  <2>1. OneWorker'
    BY <1>21 DEF IndInv, TypeOK, HandlerRecords, TidyInv, OneWorker, Numbered, Busy,
       RunStages, PurgeStages, Stages, Idle, NoRow, NoNamespace, NoApp, At, Goto, Return,
       Fail, Touch, OfRow, world, history, StepFails, StepDone, DropApp
  <2>2. PurgeKnows'
    BY <1>21 DEF IndInv, TypeOK, HandlerRecords, TidyInv, PurgeKnows, OneWorker, Busy,
       RunStages, PurgeStages, Stages, Idle, NoRow, NoNamespace, NoApp, At, Goto, Return,
       Fail, Touch, OfRow, world, history, StepFails, StepDone, DropApp
  <2>3. TornDown'
    BY <1>21 DEF IndInv, PurgeKnows, Numbered, TypeOK, HandlerRecords, TidyInv, TornDown,
       OneWorker, RunsNoted, Deployable, Busy, RunStages, PurgeStages, Stages, Idle,
       NoRow, NoNamespace, NoApp, At, Goto, Return, Fail, Touch, OfRow, world, history,
       StepFails, StepDone, DropApp
  <2>4. Recorded'
    BY <1>21 DEF IndInv, TypeOK, HandlerRecords, TidyInv, Recorded, OneWorker, PurgeKnows,
       OneRun, Busy, RunStages, PurgeStages, Stages, Idle, NoRow, NoNamespace, NoApp, At,
       Goto, Return, Fail, Touch, OfRow, world, history, StepFails, StepDone, DropApp
  <2> QED BY <2>1, <2>2, <2>3, <2>4 DEF TidyInv
<1>22. ASSUME DropNamespace(h) PROVE TidyInv'
  <2>1. OneWorker'
    BY <1>22 DEF IndInv, TypeOK, HandlerRecords, TidyInv, OneWorker, Numbered, Busy,
       RunStages, PurgeStages, Stages, Idle, NoRow, NoNamespace, NoApp, At, Goto, Return,
       Fail, Touch, OfRow, world, history, StepFails, StepDone, DropNamespace
  <2>2. PurgeKnows'
    BY <1>22 DEF IndInv, TypeOK, HandlerRecords, TidyInv, PurgeKnows, OneWorker, Busy,
       RunStages, PurgeStages, Stages, Idle, NoRow, NoNamespace, NoApp, At, Goto, Return,
       Fail, Touch, OfRow, world, history, StepFails, StepDone, DropNamespace
  <2>3. TornDown'
    BY <1>22 DEF IndInv, TypeOK, HandlerRecords, TidyInv, TornDown, OneWorker, RunsNoted,
       Deployable, Busy, RunStages, PurgeStages, Stages, Idle, NoRow, NoNamespace, NoApp,
       At, Goto, Return, Fail, Touch, OfRow, world, history, StepFails, StepDone,
       DropNamespace
  <2>4. Recorded'
    BY <1>22 DEF IndInv, TypeOK, HandlerRecords, TidyInv, Recorded, OneWorker, PurgeKnows,
       OneRun, Busy, RunStages, PurgeStages, Stages, Idle, NoRow, NoNamespace, NoApp, At,
       Goto, Return, Fail, Touch, OfRow, world, history, StepFails, StepDone,
       DropNamespace
  <2> QED BY <2>1, <2>2, <2>3, <2>4 DEF TidyInv
<1>23. ASSUME DropRepo(h) PROVE TidyInv'
  <2>1. OneWorker'
    BY <1>23 DEF IndInv, TypeOK, HandlerRecords, TidyInv, OneWorker, Numbered, Busy,
       RunStages, PurgeStages, Stages, Idle, NoRow, NoNamespace, NoApp, At, Goto, Return,
       Fail, Touch, OfRow, world, history, StepFails, StepDone, ToDelete, DropRepo
  <2>2. PurgeKnows'
    BY <1>23 DEF IndInv, TypeOK, HandlerRecords, TidyInv, PurgeKnows, OneWorker, Busy,
       RunStages, PurgeStages, Stages, Idle, NoRow, NoNamespace, NoApp, At, Goto, Return,
       Fail, Touch, OfRow, world, history, StepFails, StepDone, ToDelete, DropRepo
  <2>3. TornDown'
    BY <1>23 DEF IndInv, TypeOK, HandlerRecords, TidyInv, TornDown, OneWorker, RunsNoted,
       Deployable, Busy, RunStages, PurgeStages, Stages, Idle, NoRow, NoNamespace, NoApp,
       At, Goto, Return, Fail, Touch, OfRow, world, history, StepFails, StepDone,
       ToDelete, DropRepo
  <2>4. Recorded'
    BY <1>23 DEF IndInv, TypeOK, HandlerRecords, TidyInv, Recorded, OneWorker, PurgeKnows,
       OneRun, Busy, RunStages, PurgeStages, Stages, Idle, NoRow, NoNamespace, NoApp, At,
       Goto, Return, Fail, Touch, OfRow, world, history, StepFails, StepDone, ToDelete,
       DropRepo
  <2> QED BY <2>1, <2>2, <2>3, <2>4 DEF TidyInv
<1>24. ASSUME DropRow(h) PROVE TidyInv'
  <2>1. OneWorker'
    BY <1>24 DEF IndInv, TypeOK, HandlerRecords, TidyInv, OneWorker, Numbered, Busy,
       RunStages, PurgeStages, Stages, Idle, NoRow, NoNamespace, NoApp, At, Goto, Return,
       Fail, Touch, OfRow, world, history, DropRow
  <2>2. PurgeKnows'
    BY ZenonT(30), <1>24 DEF IndInv, TypeOK, HandlerRecords, TidyInv, PurgeKnows, OneWorker, Busy,
       RunStages, PurgeStages, Stages, Idle, NoRow, NoNamespace, NoApp, At, Goto, Return,
       Fail, Touch, OfRow, world, history, DropRow
  <2>3. TornDown'
    BY <1>24 DEF IndInv, TypeOK, HandlerRecords, TidyInv, TornDown, OneWorker, RunsNoted,
       Deployable, Busy, RunStages, PurgeStages, Stages, Idle, NoRow, NoNamespace, NoApp,
       At, Goto, Return, Fail, Touch, OfRow, world, history, DropRow
  <2>4. Recorded'
    BY <1>24 DEF IndInv, TypeOK, HandlerRecords, TidyInv, Recorded, OneWorker, PurgeKnows,
       OneRun, Busy, RunStages, PurgeStages, Stages, Idle, NoRow, NoNamespace, NoApp, At,
       Goto, Return, Fail, Touch, OfRow, world, history, DropRow
  <2> QED BY <2>1, <2>2, <2>3, <2>4 DEF TidyInv
<1>25. ASSUME DropRowFails(h) PROVE TidyInv'
  <2>1. OneWorker'
    BY <1>25 DEF IndInv, TypeOK, HandlerRecords, TidyInv, OneWorker, Numbered, Busy,
       RunStages, PurgeStages, Stages, Idle, NoRow, NoNamespace, NoApp, At, Goto, Return,
       Fail, Touch, OfRow, world, history, DropRowFails
  <2>2. PurgeKnows'
    BY <1>25 DEF IndInv, TypeOK, HandlerRecords, TidyInv, PurgeKnows, OneWorker, Busy,
       RunStages, PurgeStages, Stages, Idle, NoRow, NoNamespace, NoApp, At, Goto, Return,
       Fail, Touch, OfRow, world, history, DropRowFails
  <2>3. TornDown'
    BY <1>25 DEF IndInv, TypeOK, HandlerRecords, TidyInv, TornDown, OneWorker, RunsNoted,
       Deployable, Busy, RunStages, PurgeStages, Stages, Idle, NoRow, NoNamespace, NoApp,
       At, Goto, Return, Fail, Touch, OfRow, world, history, DropRowFails
  <2>4. Recorded'
    BY <1>25 DEF IndInv, TypeOK, HandlerRecords, TidyInv, Recorded, OneWorker, PurgeKnows,
       OneRun, Busy, RunStages, PurgeStages, Stages, Idle, NoRow, NoNamespace, NoApp, At,
       Goto, Return, Fail, Touch, OfRow, world, history, DropRowFails
  <2> QED BY <2>1, <2>2, <2>3, <2>4 DEF TidyInv
<1> QED BY <1>1, <1>2, <1>3, <1>4, <1>5, <1>6, <1>7, <1>8, <1>9, <1>10, <1>11, <1>12,
       <1>13, <1>14, <1>15, <1>16, <1>17, <1>18, <1>19, <1>20, <1>21, <1>22, <1>23, <1>24,
       <1>25 DEF Request, Advance, Run, Purge

LEMMA TidyOutside ==
  ASSUME IndInv, TidyInv, NamespaceGone \/ AppGone \/ Restart
  PROVE  TidyInv'
<1> USE EmptyTypes, ProjectLifecycleAssumption
<1>1. ASSUME NamespaceGone PROVE TidyInv'
  BY <1>1 DEF IndInv, TypeOK, HandlerRecords, TidyInv, OneWorker, PurgeKnows, TornDown, Recorded,
     Busy, NoNamespace, history, NamespaceGone
<1>2. ASSUME AppGone PROVE TidyInv'
  BY <1>2 DEF IndInv, TypeOK, HandlerRecords, TidyInv, OneWorker, PurgeKnows, TornDown, Recorded,
     Busy, NoApp, history, AppGone
<1>3. ASSUME Restart PROVE TidyInv'
  BY <1>3 DEF IndInv, TypeOK, HandlerRecords, TidyInv, OneWorker, PurgeKnows, TornDown, Recorded,
     Busy, RunStages, PurgeStages, Idle, Fail, world, Restart
<1> QED BY <1>1, <1>2, <1>3

THEOREM TidyInvariance == Spec => []TidyInv
<1>1. Init => TidyInv
  <2> SUFFICES ASSUME Init PROVE TidyInv
    OBVIOUS
  <2> QED BY DEF Init, TidyInv, OneWorker, PurgeKnows, TornDown, Recorded, Busy, RunStages, PurgeStages,
         Idle, NoRow, NoNamespace, NoApp
<1>2. IndInv /\ TidyInv /\ [Next]_vars => TidyInv'
  <2> SUFFICES ASSUME IndInv, TidyInv, [Next]_vars PROVE TidyInv'
    OBVIOUS
  <2>1. CASE UNCHANGED vars
    BY <2>1 DEF vars, world, history, TidyInv, OneWorker, PurgeKnows, TornDown, Recorded, Busy
  <2> QED BY <2>1, TidyStep, TidyOutside DEF Next
<1> QED BY <1>1, <1>2, Invariance, PTL DEF Spec

\* "Never deploy tenant code into an unsealed namespace": unless a delete raced with a
\* run or failed to remove an Application, no Application that is live has an active
\* namespace that is not sealed.
THEOREM NothingRunsUnsealed == Spec => []SealedFirst
<1>1. IndInv /\ TidyInv => SealedFirst
  BY DEF IndInv, TypeOK, TidyInv, TornDown, SealedFirst
<1> QED BY <1>1, Invariance, TidyInvariance, PTL

\* A delete that raced with nothing and failed in nothing leaves nothing that runs, nor,
\* if no call failed before, a repository.
THEOREM DeletesLeaveNothing == Spec => []DeleteLeavesNothing
<1>1. IndInv /\ TidyInv => DeleteLeavesNothing
  BY DEF IndInv, TypeOK, TidyInv, TornDown, Recorded, DeleteLeavesNothing, NothingLeft
<1> QED BY <1>1, Invariance, TidyInvariance, PTL

-----------------------------------------------------------------------------
(* What of the liveness is safety.                                         *)

\* A step of a handler that is at work leads to a later stage, and is nobody else's.
LEMMA LeftFalls ==
  ASSUME TypeOK, NEW h \in Handlers, Advance(h)
  PROVE  /\ \A g \in Handlers \ {h} : handler'[g] = handler[g]
         /\ Left(handler'[h]) < Left(handler[h])
<1>0. /\ DOMAIN handler = Handlers /\ handler[h] \in HandlerRecords
      /\ Left(Idle) = 0
  BY DEF TypeOK, Left, Idle
<1>1. CASE \/ CheckNamespace(h) \/ Refused(h) \/ SetStatus(h) \/ SetStatusFails(h)
           \/ DropRow(h) \/ DropRowFails(h)
  <2>1. /\ handler[h].pc \in {"namespace", "insert", "ready", "failed", "dropRow"}
        /\ \/ handler' = [handler EXCEPT ![h] = Idle]
           \/ handler[h].pc = "namespace" /\ handler' = [handler EXCEPT ![h].pc = "insert"]
    BY <1>1 DEF CheckNamespace, Refused, SetStatus, SetStatusFails, DropRow, DropRowFails, At,
       Goto, Return
  <2>2. CASE handler' = [handler EXCEPT ![h] = Idle]
    <3>1. handler'[h] = Idle /\ \A g \in Handlers \ {h} : handler'[g] = handler[g]
      BY <1>0, <2>2
    <3>2. Left(handler[h]) \in 1..10
      BY <2>1 DEF Left
    <3> QED BY <1>0, <3>1, <3>2
  <2>3. CASE handler[h].pc = "namespace" /\ handler' = [handler EXCEPT ![h].pc = "insert"]
    BY <1>0, <2>3 DEF Left, HandlerRecords
  <2> QED BY <2>1, <2>2, <2>3
<1>2. CASE Insert(h) \/ CreateNamespace(h) \/ Seal(h) \/ SealFails(h)
  BY <1>0, <1>2 DEF Insert, CreateNamespace, Seal, SealFails, At, Goto, Left, HandlerRecords
<1>3. CASE \/ Generate(h) \/ SkipRepo(h) \/ GenerateFails(h) \/ Record(h) \/ RecordFails(h)
           \/ Render(h) \/ RenderFails(h)
  BY <1>0, <1>3 DEF Generate, SkipRepo, GenerateFails, Record, RecordFails, Render, RenderFails,
     At, Goto, Left, HandlerRecords
<1>4. CASE Gate(h) \/ Register(h) \/ RegisterFails(h)
  BY <1>0, <1>4 DEF Gate, Register, RegisterFails, At, Goto, Left, HandlerRecords
<1>5. CASE DropApp(h) \/ DropNamespace(h) \/ DropRepo(h)
  BY <1>0, <1>5 DEF DropApp, DropNamespace, DropRepo, At, Goto, Left, HandlerRecords
<1> QED BY <1>1, <1>2, <1>3, <1>4, <1>5 DEF Advance, Run, Purge

\* The awaits of a creation, a run and a purge follow one another: no handler goes back,
\* whatever fails, and each is over after ten steps at most.
THEOREM WorkNeverCircles == Spec => WorkGoesOn
<1>1. TypeOK => \A h \in Handlers : Left(handler[h]) \in 0..10
  BY DEF TypeOK, HandlerRecords, Stages, RunStages, PurgeStages, Left
<1>2. TypeOK /\ [Next]_vars => [\A h \in Handlers : Onward(h)]_vars
  <2> SUFFICES ASSUME TypeOK, Next, NEW g \in Handlers PROVE Onward(g)
    OBVIOUS
  <2>1. ASSUME NEW h \in Handlers, Request(h) PROVE Onward(g)
    <3>1. handler[h].pc = "idle" /\ \E r : handler' = [handler EXCEPT ![h] = r]
      BY <2>1 DEF Request, CheckSlug, StartDelete, At
    <3> QED BY <3>1 DEF Onward, TypeOK
  <2>2. ASSUME NEW h \in Handlers, Advance(h) PROVE Onward(g)
    BY <2>2, LeftFalls DEF Onward
  <2>3. CASE NamespaceGone \/ AppGone
    BY <2>3 DEF NamespaceGone, AppGone, Onward
  <2>4. CASE Restart
    <3>1. handler'[g].pc = "idle"
      BY <2>4 DEF Restart, Idle
    <3> QED BY <1>1, <3>1 DEF Onward, Left, TypeOK, HandlerRecords, Stages, RunStages, PurgeStages
  <2> QED BY <2>1, <2>2, <2>3, <2>4 DEF Next
<1> QED BY <1>1, <1>2, TypeCorrect, PTL DEF Spec, WorkGoesOn

\* A run keeps its project until it has given its verdict.
LEMMA RunGoesOn ==
  ASSUME TypeOK, NEW h \in Handlers, Run(h), handler[h].pc \in RunStages,
         handler[h].id = row.id
  PROVE  \/ handler'[h].pc \in RunStages /\ handler'[h].id = row'.id
         \/ row'.status # "provisioning" \/ row'.id = 0 \/ lost'
<1> USE DEF TypeOK, HandlerRecords, RunStages
<1>1. CASE CreateNamespace(h) \/ Seal(h) \/ SealFails(h)
  BY <1>1 DEF CreateNamespace, Seal, SealFails, At, Goto
<1>2. CASE Generate(h) \/ SkipRepo(h) \/ GenerateFails(h) \/ RecordFails(h)
  BY <1>2 DEF Generate, SkipRepo, GenerateFails, RecordFails, At, Goto
<1>3. CASE Record(h) \/ Render(h) \/ RenderFails(h)
  BY <1>3 DEF Record, Render, RenderFails, At, Goto
<1>4. CASE Gate(h) \/ Register(h) \/ RegisterFails(h)
  BY <1>4 DEF Gate, Register, RegisterFails, At, Goto
<1>5. CASE SetStatus(h)
  BY <1>5 DEF SetStatus, OfRow, Verdict
<1>6. CASE SetStatusFails(h)
  BY <1>6 DEF SetStatusFails
<1> QED BY <1>1, <1>2, <1>3, <1>4, <1>5, <1>6 DEF Run

\* "Rather than leaving it stuck `provisioning`": a project without a verdict has a run
\* that is still to give it one, unless a run was killed or could not write its verdict.
THEOREM NoneIsForgotten == Spec => []StillWorkedOn
<1>1. Init => StillWorkedOn
  BY DEF Init, StillWorkedOn, NoRow
<1>2. TypeOK /\ StillWorkedOn /\ [Next]_vars => StillWorkedOn'
  <2> SUFFICES ASSUME TypeOK, StillWorkedOn, [Next]_vars, row'.id # 0,
                      row'.status = "provisioning", ~lost'
               PROVE  \E h \in Handlers : handler'[h].pc \in RunStages /\ handler'[h].id = row'.id
    BY DEF StillWorkedOn
  <2>1. ASSUME NEW h \in Handlers, Insert(h)
        PROVE  \E g \in Handlers : handler'[g].pc \in RunStages /\ handler'[g].id = row'.id
    <3>1. handler'[h].pc = "seal" /\ handler'[h].id = row'.id
      BY <2>1 DEF Insert, TypeOK, HandlerRecords
    <3> QED BY <3>1 DEF RunStages
  <2>2. ASSUME NEW h \in Handlers, Request(h) \/ Advance(h), ~Insert(h)
        PROVE  \E g \in Handlers : handler'[g].pc \in RunStages /\ handler'[g].id = row'.id
    <3>1. row' = row \/ Record(h) \/ SetStatus(h) \/ DropRow(h)
      BY <2>2 DEF Request, CheckSlug, StartDelete, Advance, CheckNamespace, Refused, Run,
         CreateNamespace, Seal, SealFails, Generate, SkipRepo, GenerateFails, RecordFails,
         Render, RenderFails, Gate, Register, RegisterFails, SetStatusFails, Purge, DropApp,
         DropNamespace, DropRepo, DropRowFails
    <3>2. row.id = row'.id /\ row.status = "provisioning"
      <4>1. CASE Record(h)
        BY <4>1 DEF Record, TypeOK
      <4>2. CASE SetStatus(h)
        <5>1. ~OfRow(h)
          BY <4>2 DEF SetStatus, Verdict, TypeOK
        <5> QED BY <4>2, <5>1 DEF SetStatus
      <4>3. CASE DropRow(h)
        BY <4>3 DEF DropRow, NoRow
      <4> QED BY <3>1, <4>1, <4>2, <4>3
    <3>3. ~lost
      BY <2>2 DEF Request, CheckSlug, StartDelete, Advance, CheckNamespace, Refused, Run,
         CreateNamespace, Seal, SealFails, Generate, SkipRepo, GenerateFails, RecordFails,
         Record, Render, RenderFails, Gate, Register, RegisterFails, SetStatus, SetStatusFails,
         Purge, DropApp, DropNamespace, DropRepo, DropRow, DropRowFails, history
    <3>4. PICK g \in Handlers : handler[g].pc \in RunStages /\ handler[g].id = row.id
      BY <3>2, <3>3 DEF StillWorkedOn
    <3>5. CASE g # h
      <4>1. handler'[g] = handler[g]
        <5>1. CASE Request(h)
          <6>1. \E r : handler' = [handler EXCEPT ![h] = r]
            BY <5>1 DEF Request, CheckSlug, StartDelete
          <6> QED BY <3>5, <6>1 DEF TypeOK
        <5>2. CASE Advance(h)
          BY <3>5, <5>2, LeftFalls
        <5> QED BY <2>2, <5>1, <5>2
      <4> QED BY <3>2, <3>4, <4>1
    <3>6. CASE g = h
      <4>1. Run(h)
        BY <2>2, <3>4, <3>6 DEF RunStages, Request, CheckSlug, StartDelete, Advance, CheckNamespace,
           Refused, Purge, DropApp, DropNamespace, DropRepo, DropRow, DropRowFails, At
      <4> QED BY <3>4, <3>6, <4>1, RunGoesOn
    <3> QED BY <3>5, <3>6
  <2>3. CASE NamespaceGone \/ AppGone
    BY <2>3 DEF NamespaceGone, AppGone, history, StillWorkedOn
  <2>4. CASE Restart
    BY <2>4 DEF Restart
  <2>5. CASE UNCHANGED vars
    BY <2>5 DEF vars, history, StillWorkedOn
  <2> QED BY <2>1, <2>2, <2>3, <2>4, <2>5 DEF Next
<1> QED BY <1>1, <1>2, TypeCorrect, PTL DEF Spec
=============================================================================
