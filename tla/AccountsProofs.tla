--------------------------- MODULE AccountsProofs ---------------------------
(***************************************************************************)
(* Proofs about Accounts: its types, that credentials go before the        *)
(* identity, that a login resolved alone is the identity's own, and that a *)
(* cascade takes away only its own user's companion.                       *)
(*                                                                         *)
(* None of them is inductive.  AccountsInv adds what the steps of a        *)
(* cascade and of a provisioning know of the systems while they are under  *)
(* way: what is true of it when nobody else acts on the same user, and     *)
(* what stays true whoever acts.                                           *)
(***************************************************************************)
EXTENDS Accounts, SequenceTheorems, TLAPS

\* The candidate that is looked at is one of the candidates.
ProbesInRange ==
  \A p \in Workers : prov[p].pc = "probe" => prov[p].try \in 1..Len(Candidates(p))

\* A cascade that found a companion holds the one that was made for its user.
FoundIsPaired ==
  \A i \in Ids : LET c == cascade[i] IN
    /\ c.found => c.pc \notin {"idle", "data", "listKeys", "revoke", "findBot"}
    /\ (c.pc = "purge" /\ c.found) \/ c.pc = "dropBot" => bot[c.name] = i

\* An identity goes with the last step of its cascade, and is deleted only once.
GoneIsDone == \A i \in Ids : identity[i] = "gone" => cascade[i].pc = "done"

\* While a user does nothing beside the cascade, no account and no key is new; what is left
\* of them is what the cascade has still to look at, or knows that it could not take away.
CleanCascade(i) ==
  LET c == cascade[i] IN
    c.clean =>
      /\ c.pc # "idle" /\ i \notin minting
      /\ \A p \in Workers : Busy(p) => prov[p].who # i
      /\ \A n \in Names : account[n] = i => n = c.name
      /\ c.pc = "revoke" => \A k \in Keys : owner[k] = i => k \in c.keys
      /\ c.pc \in {"findBot", "purge"} /\ c.ok => \A k \in Keys : owner[k] # i
      /\ c.pc \in {"dropBot", "dropHuman", "done"} =>
           (\A k \in Keys : owner[k] # i) /\ (\A n \in Names : account[n] # i)
CascadesClean == \A i \in Ids : CleanCascade(i)

\* While a provisioning is alone nobody else changes what it has seen.
LoneProvisioning(p) ==
  LET r == prov[p] IN
    r.alone =>
      /\ r.pc # "idle"
      /\ \A q \in Workers \ {p} : ~Busy(q)
      /\ \A j \in Ids : ~Deleting(j)
      /\ r.mem = trait[r.who]
      /\ r.pc = "probe" => r.login = None
      /\ r.pc = "persist" => account[r.login] \in {None, r.who}
      /\ r.pc \notin {"probe", "persist"} /\ r.login # None =>
           r.login = r.mem /\ account[r.login] \in {None, r.who}
      /\ r.pc = "create" => account[Base(p)] = None
      /\ r.pc = "done" /\ r.login # None =>
           account[r.login] = r.who \/ \E m \in Names : account[m] = r.who
LoneRuns == \A p \in Workers : LoneProvisioning(p)

AccountsInv ==
  TypeOK /\ ProbesInRange /\ FoundIsPaired /\ GoneIsDone /\ CascadesClean /\ LoneRuns

-----------------------------------------------------------------------------
(* Records                                                                 *)

\* What stands for the types of the two histories.
ProvTyped ==
  /\ prov \in [Workers -> Provisioning]
  /\ \A p \in Workers : prov[p].pc # "idle" => prov[p].who # None
  /\ \A p \in Workers : prov[p].pc = "persist" => prov[p].login # None
CascadeTyped ==
  /\ cascade \in [Ids -> Cascade]
  /\ \A i \in Ids : cascade[i].pc \notin {"idle", "kept"} => cascade[i].name # None

\* A provisioning that is under way is of an identity, has candidates, and derives a login.
LEMMA UnderWay ==
  ASSUME TypeOK, NEW p \in Workers, prov[p].pc # "idle"
  PROVE  /\ prov[p] \in Provisioning
         /\ prov[p].who \in Ids
         /\ Base(p) \in Names
         /\ Candidates(p) \in Seq(Names)
         /\ Candidates(p) # <<>>
BY AccountsAssumption DEF TypeOK, Provisioning, Base, Derived, Candidates

\* Whoever is disturbed, a provisioning only ceases to be alone.
LEMMA DisturbedTyped ==
  ASSUME TypeOK, NEW ps
  PROVE  /\ Disturbed(ps) \in [Workers -> Provisioning]
         /\ \A q \in Workers :
              /\ Disturbed(ps)[q].pc = prov[q].pc
              /\ Disturbed(ps)[q].who = prov[q].who
              /\ Disturbed(ps)[q].mem = prov[q].mem
              /\ Disturbed(ps)[q].try = prov[q].try
              /\ Disturbed(ps)[q].login = prov[q].login
              /\ Disturbed(ps)[q].alone => prov[q].alone /\ q \notin ps
<1>1. ASSUME NEW q \in Workers PROVE [prov[q] EXCEPT !.alone = FALSE] \in Provisioning
  BY DEF TypeOK, Provisioning
<1>2. Disturbed(ps) \in [Workers -> Provisioning]
  BY <1>1 DEF TypeOK, Disturbed
<1> QED BY <1>2 DEF TypeOK, Provisioning, Disturbed

\* A step of a provisioning changes its record alone, which stays that identity's.
WorkerStep(p) ==
  Probe(p) \/ Persist(p) \/ PersistRefused(p) \/ FindBot(p) \/ CreateBot(p)
    \/ FindAccount(p) \/ CreateAccount(p) \/ ProvisionFails(p)

StepsTo(p, r) ==
  /\ Provisions(p, r)
  /\ Busy(p) /\ r.pc # "idle"
  /\ r.who = prov[p].who
  /\ r.pc = "persist" => r.login # None
  /\ r.pc = "probe" => r.mem = prov[p].mem /\ r.try \in 1..Len(Candidates(p))

LEMMA StepOfOne ==
  ASSUME TypeOK, ProbesInRange, NEW p \in Workers, WorkerStep(p)
  PROVE  \E r \in Provisioning : StepsTo(p, r)
<1> USE AccountsAssumption
<1>0. Busy(p) /\ prov[p].pc # "idle"
  BY DEF WorkerStep, Probe, Persist, PersistRefused, FindBot, CreateBot, FindAccount, CreateAccount,
     ProvisionFails, Busy
<1>a. prov[p] \in Provisioning /\ prov[p].who # None
  BY <1>0, UnderWay
<1>b. ASSUME NEW n \in Names
      PROVE  /\ Chosen(p, n) \in Provisioning
             /\ Chosen(p, n).pc \in {"findBot", "persist"}
             /\ Chosen(p, n).login = n /\ Chosen(p, n).who = prov[p].who
  BY <1>a, <1>b DEF Chosen, Provisioning
<1>c. ASSUME NEW n \in Names, NEW R, R = [Chosen(p, n) EXCEPT !.alone = FALSE]
      PROVE  /\ R \in Provisioning
             /\ R.pc \in {"findBot", "persist"} /\ R.login = n /\ R.who = prov[p].who
  <2>1. PICK c : c = Chosen(p, n)
    OBVIOUS
  <2>2. c \in Provisioning /\ c.pc \in {"findBot", "persist"} /\ c.login = n /\ c.who = prov[p].who
    BY <1>b, <2>1
  <2>3. R = [c EXCEPT !.alone = FALSE]
    BY <1>c, <2>1
  <2> QED BY <2>2, <2>3 DEF Provisioning
<1>1. ASSUME Probe(p) PROVE \E r \in Provisioning : StepsTo(p, r)
  <2>0. prov[p].pc = "probe" /\ prov[p].try \in 1..Len(Candidates(p))
    BY <1>1 DEF Probe, ProbesInRange
  <2> DEFINE n == Candidates(p)[prov[p].try]
  <2>1. n \in Names
    <3>1. Candidates(p) \in Seq(Names)
      BY <1>0, UnderWay
    <3> QED BY <2>0, <3>1, ElementOfSeq
  <2>2. CASE Provisions(p, Chosen(p, n))
    BY SMTT(30), <1>0, <1>b, <2>1, <2>2 DEF StepsTo
  <2>3. CASE prov[p].try < Len(Candidates(p))
             /\ Provisions(p, [prov[p] EXCEPT !.try = prov[p].try + 1])
    <3>1. prov[p].try + 1 \in Nat /\ prov[p].try + 1 \in 1..Len(Candidates(p))
      BY <1>0, <2>0, <2>3, UnderWay
    <3>2. [prov[p] EXCEPT !.try = prov[p].try + 1] \in Provisioning
      BY <1>a, <3>1 DEF Provisioning
    <3> QED BY <1>0, <1>a, <2>0, <2>3, <3>1, <3>2 DEF StepsTo, Provisioning
  <2>4. CASE Provisions(p, [prov[p] EXCEPT !.pc = "findBot"])
    <3>1. [prov[p] EXCEPT !.pc = "findBot"] \in Provisioning
      BY <1>a DEF Provisioning
    <3> QED BY <1>0, <1>a, <2>4, <3>1 DEF StepsTo, Provisioning
  <2> QED BY <1>1, <2>2, <2>3, <2>4 DEF Probe
<1>2. ASSUME Persist(p) PROVE \E r \in Provisioning : StepsTo(p, r)
  <2>1. [prov[p] EXCEPT !.pc = "findBot", !.mem = prov[p].login] \in Provisioning
    BY <1>a DEF Provisioning
  <2> QED BY <1>0, <1>2, <1>a, <2>1 DEF Persist, StepsTo, Provisioning
<1>3. ASSUME PersistRefused(p) PROVE \E r \in Provisioning : StepsTo(p, r)
  <2>1. [prov[p] EXCEPT !.pc = "findBot", !.alone = FALSE] \in Provisioning
    BY <1>a DEF Provisioning
  <2> QED BY <1>0, <1>3, <1>a, <2>1 DEF PersistRefused, StepsTo, Provisioning
<1>4. ASSUME NEW pc \in {"createBot", "findAccount", "create", "done"},
             Provisions(p, [prov[p] EXCEPT !.pc = pc])
      PROVE  \E r \in Provisioning : StepsTo(p, r)
  <2>1. [prov[p] EXCEPT !.pc = pc] \in Provisioning
    BY <1>a DEF Provisioning
  <2> QED BY <1>0, <1>4, <1>a, <2>1 DEF StepsTo, Provisioning
<1>5. ASSUME ProvisionFails(p) PROVE \E r \in Provisioning : StepsTo(p, r)
  <2>1. CASE prov[p].pc = "probe"
    <3>1. PICK R : R = [Chosen(p, Base(p)) EXCEPT !.alone = FALSE]
      OBVIOUS
    <3>2. Base(p) \in Names
      BY <1>0, UnderWay
    <3>3. R \in Provisioning /\ R.pc \in {"findBot", "persist"}
            /\ R.login = Base(p) /\ R.who = prov[p].who
      BY ZenonT(30), <1>c, <3>1, <3>2
    <3>4. Provisions(p, R)
      BY <1>5, <2>1, <3>1 DEF ProvisionFails, AfterFailure
    <3> QED BY <1>0, <3>2, <3>3, <3>4 DEF StepsTo
  <2>2. ASSUME NEW pc \in {"findBot", "findAccount", "done"},
               Provisions(p, [prov[p] EXCEPT !.pc = pc, !.alone = FALSE])
        PROVE  \E r \in Provisioning : StepsTo(p, r)
    <3>1. [prov[p] EXCEPT !.pc = pc, !.alone = FALSE] \in Provisioning
      BY <1>a DEF Provisioning
    <3> QED BY <1>0, <1>a, <2>2, <3>1 DEF StepsTo, Provisioning
  <2> QED BY <1>0, <1>5, <1>a, <2>1, <2>2 DEF ProvisionFails, AfterFailure, Busy, Provisioning
<1> QED BY <1>1, <1>2, <1>3, <1>4, <1>5 DEF WorkerStep, FindBot, CreateBot, FindAccount, CreateAccount

\* A step of a cascade changes its record alone, which stays that login's.
CascadeStep(i) ==
  DropGrants(i) \/ ListKeys(i) \/ RevokeKeys(i) \/ FindPaired(i) \/ Purge(i) \/ DropBot(i)
    \/ DropHuman(i) \/ DeleteFails(i)

MovesTo(i, c) ==
  /\ Cascades(i, c)
  /\ Deleting(i) /\ c.pc # "idle"
  /\ c.name = cascade[i].name /\ c.clean = cascade[i].clean
  /\ c.found = cascade[i].found \/ FindPaired(i)

LEMMA MoveOfOne ==
  ASSUME TypeOK, NEW i \in Ids, CascadeStep(i)
  PROVE  \E c \in Cascade : MovesTo(i, c)
<1>0. Deleting(i) /\ cascade[i] \in Cascade
  BY DEF TypeOK, CascadeStep, DropGrants, ListKeys, RevokeKeys, FindPaired, Purge, DropBot, DropHuman,
     DeleteFails, Deleting
<1>1. ASSUME NEW pc \in {"listKeys", "findBot", "purge", "dropBot", "dropHuman", "kept", "done"},
             Cascades(i, [cascade[i] EXCEPT !.pc = pc])
      PROVE  \E c \in Cascade : MovesTo(i, c)
  <2>1. [cascade[i] EXCEPT !.pc = pc] \in Cascade
    BY <1>0 DEF Cascade
  <2> QED BY <1>0, <1>1, <2>1 DEF MovesTo, Cascade
<1>2. ASSUME NEW pc \in {"findBot", "kept"},
             Cascades(i, Keeping([cascade[i] EXCEPT !.pc = pc]))
      PROVE  \E c \in Cascade : MovesTo(i, c)
  <2>1. [cascade[i] EXCEPT !.pc = pc] \in Cascade
    BY <1>0 DEF Cascade
  <2>2. Keeping([cascade[i] EXCEPT !.pc = pc]) \in Cascade
    BY <2>1 DEF Cascade, Keeping
  <2> QED BY <1>0, <1>2, <2>2 DEF MovesTo, Keeping, Cascade
<1>3. ASSUME ListKeys(i) PROVE \E c \in Cascade : MovesTo(i, c)
  <2>1. [cascade[i] EXCEPT !.pc = "revoke", !.keys = {k \in Keys : owner[k] = i}] \in Cascade
    BY <1>0 DEF Cascade
  <2> QED BY <1>0, <1>3, <2>1 DEF ListKeys, MovesTo, Cascade
<1>4. ASSUME FindPaired(i) PROVE \E c \in Cascade : MovesTo(i, c)
  <2>1. [cascade[i] EXCEPT !.pc = "purge", !.found = Paired(i, cascade[i].name)] \in Cascade
    BY <1>0 DEF Cascade, Paired
  <2> QED BY <1>0, <1>4, <2>1 DEF FindPaired, MovesTo, Cascade
<1>5. ASSUME Cascades(i, Gated(Keeping(cascade[i]))) PROVE \E c \in Cascade : MovesTo(i, c)
  <2>1. Keeping(cascade[i]) \in Cascade
    BY <1>0 DEF Cascade, Keeping
  <2>2. Gated(Keeping(cascade[i])) \in Cascade
    BY <2>1 DEF Cascade, Gated
  <2> QED BY <1>0, <1>5, <2>1, <2>2 DEF MovesTo, Keeping, Gated, Cascade
<1>6. ASSUME DeleteFails(i) PROVE \E c \in Cascade : MovesTo(i, c)
  BY <1>0, <1>1, <1>2, <1>5, <1>6 DEF DeleteFails, Skipped, Deleting, Cascade
<1>7. ASSUME RevokeKeys(i) PROVE \E c \in Cascade : MovesTo(i, c)
  BY <1>1, <1>2, <1>7 DEF RevokeKeys
<1>8. ASSUME Purge(i) PROVE \E c \in Cascade : MovesTo(i, c)
  BY <1>1, <1>8 DEF Purge, Gated
<1>9. ASSUME DropGrants(i) \/ DropBot(i) \/ DropHuman(i) PROVE \E c \in Cascade : MovesTo(i, c)
  BY <1>1, <1>9 DEF DropGrants, DropBot, DropHuman
<1> QED BY <1>3, <1>4, <1>6, <1>7, <1>8, <1>9 DEF CascadeStep

-----------------------------------------------------------------------------
(* Types                                                                   *)

LEMMA ProvStep ==
  ASSUME TypeOK, ProbesInRange, Next
  PROVE  ProvTyped' /\ ProbesInRange'
<1> USE AccountsAssumption
<1>0. \A p \in Workers : prov[p].pc # "idle" =>
        Base(p) \in Names /\ Candidates(p) \in Seq(Names) /\ Candidates(p) # <<>>
  BY UnderWay
<1>1. ASSUME NEW F, prov' = F, F \in [Workers -> Provisioning],
             \A q \in Workers : /\ F[q].pc = prov[q].pc /\ F[q].who = prov[q].who
                                /\ F[q].mem = prov[q].mem /\ F[q].try = prov[q].try
                                /\ F[q].login = prov[q].login
      PROVE  ProvTyped' /\ ProbesInRange'
  BY ZenonT(30), <1>1 DEF TypeOK, ProvTyped, ProbesInRange, Base, Candidates
<1>2. ASSUME prov' = Disturbed(Workers) PROVE ProvTyped' /\ ProbesInRange'
  BY <1>1, <1>2, DisturbedTyped
<1>3. ASSUME NEW p \in Workers, NEW i \in Ids, Provision(p, i) PROVE ProvTyped' /\ ProbesInRange'
  <2>1. PICK r : r = [NoProvisioning EXCEPT !.pc = "probe", !.who = i, !.mem = trait[i],
                        !.alone = /\ \A q \in Workers : ~Busy(q)
                                  /\ \A j \in Ids : ~Deleting(j)]
    OBVIOUS
  <2>2. r \in Provisioning /\ r.pc = "probe" /\ r.who = i /\ r.mem = trait[i] /\ r.try = 1
    BY <2>1 DEF TypeOK, Provisioning, NoProvisioning
  <2>3. PICK F : F = Disturbed(Workers)
    OBVIOUS
  <2>4. F \in [Workers -> Provisioning]
          /\ \A q \in Workers : /\ F[q].pc = prov[q].pc /\ F[q].who = prov[q].who
                                /\ F[q].mem = prov[q].mem /\ F[q].try = prov[q].try
                                /\ F[q].login = prov[q].login
    BY <2>3, DisturbedTyped
  <2>5. prov' = [F EXCEPT ![p] = r]
    BY <1>3, <2>1, <2>3 DEF Provision
  <2>f. \A q \in Workers : /\ F[q].pc # "idle" => F[q].who # None
                           /\ F[q].pc = "persist" => F[q].login # None
    BY <2>4 DEF TypeOK
  <2>6. ProvTyped'
    <3>1. prov' \in [Workers -> Provisioning]
      BY <2>2, <2>4, <2>5
    <3>2. \A q \in Workers : prov'[q] = IF q = p THEN r ELSE F[q]
      BY <2>4, <2>5
    <3>3. r.who # None
      BY <2>2
    <3>4. ASSUME NEW q \in Workers
          PROVE  (prov'[q].pc # "idle" => prov'[q].who # None)
                   /\ (prov'[q].pc = "persist" => prov'[q].login # None)
      <4>1. CASE q = p
        <5>1. prov'[q] = r
          BY <3>2, <4>1
        <5> QED BY <2>2, <3>3, <5>1
      <4>2. CASE q # p
        <5>1. prov'[q] = F[q]
          BY <3>2, <4>2
        <5>2. (F[q].pc # "idle" => F[q].who # None) /\ (F[q].pc = "persist" => F[q].login # None)
          BY <2>f
        <5> QED BY <5>1, <5>2, Zenon
      <4> QED BY <4>1, <4>2
    <3> QED BY <3>1, <3>4 DEF ProvTyped
  <2>7. Candidates(p)' \in Seq(Names) /\ Candidates(p)' # <<>>
    BY <2>2, <2>4, <2>5 DEF TypeOK, Candidates, Base, Derived
  <2>8. ProbesInRange'
    <3> SUFFICES ASSUME NEW q \in Workers, (prov[q].pc = "probe")'
                 PROVE  (prov[q].try \in 1..Len(Candidates(q)))'
      BY DEF ProbesInRange
    <3>1. CASE q = p
      BY <2>2, <2>4, <2>5, <2>7, <3>1
    <3>2. CASE q # p
      BY <2>4, <2>5, <3>2 DEF ProbesInRange, Candidates, Base
    <3> QED BY <3>1, <3>2
  <2> QED BY <2>6, <2>8
<1>4. ASSUME NEW p \in Workers, WorkerStep(p) PROVE ProvTyped' /\ ProbesInRange'
  <2>1. PICK r \in Provisioning : StepsTo(p, r)
    BY <1>4, StepOfOne
  <2>2. ProvTyped'
    BY <2>1 DEF TypeOK, ProvTyped, StepsTo, Provisions, Busy
  <2>3. ProbesInRange'
    BY <2>1 DEF TypeOK, ProbesInRange, StepsTo, Provisions, Candidates, Base
  <2> QED BY <2>2, <2>3
<1>5. ASSUME Restart PROVE ProvTyped' /\ ProbesInRange'
  BY <1>5 DEF TypeOK, ProvTyped, ProbesInRange, Provisioning, NoProvisioning, Restart
<1>6. ASSUME UNCHANGED prov PROVE ProvTyped' /\ ProbesInRange'
  BY <1>6 DEF TypeOK, ProvTyped, ProbesInRange, Candidates, Base
<1> QED BY <1>2, <1>3, <1>4, <1>5, <1>6
        DEF Next, WorkerStep, Create, Rename, Grant, BeginKey, CreateKey, RevokeKey, Delete, DropGrants,
            ListKeys, RevokeKeys, FindPaired, Purge, DropBot, DropHuman, DeleteFails

LEMMA CascadeTypedStep ==
  ASSUME TypeOK, Next
  PROVE  CascadeTyped'
<1> USE AccountsAssumption
<1>1. ASSUME NEW i \in Ids, Cascades(i, [cascade[i] EXCEPT !.clean = FALSE]) PROVE CascadeTyped'
  <2>1. cascade[i] \in Cascade
    BY DEF TypeOK
  <2>2. PICK c : c = [cascade[i] EXCEPT !.clean = FALSE]
    OBVIOUS
  <2>3. c \in Cascade /\ c.pc = cascade[i].pc /\ c.name = cascade[i].name
    BY <2>1, <2>2 DEF Cascade
  <2> QED BY <1>1, <2>2, <2>3 DEF TypeOK, CascadeTyped, Cascades
<1>2. ASSUME NEW i \in Ids, Delete(i) PROVE CascadeTyped'
  <2>1. PICK c : c = [NoCascade EXCEPT !.pc = "data", !.name = Derived(i, trait[i]),
                        !.clean = Orderly(i)]
    OBVIOUS
  <2>a. Derived(i, trait[i]) \in Names
    BY DEF TypeOK, Derived
  <2>b. Orderly(i) \in BOOLEAN
    BY DEF Orderly
  <2>2. c \in Cascade /\ c.name # None
    BY <2>1, <2>a, <2>b DEF Cascade, NoCascade
  <2> QED BY <1>2, <2>1, <2>2 DEF Delete, TypeOK, CascadeTyped, Cascades
<1>3. ASSUME NEW i \in Ids, CascadeStep(i) PROVE CascadeTyped'
  <2>1. PICK c \in Cascade : MovesTo(i, c)
    BY <1>3, MoveOfOne
  <2> QED BY <2>1 DEF TypeOK, CascadeTyped, MovesTo, Cascades, Deleting
<1>4. ASSUME Restart PROVE CascadeTyped'
  BY <1>4 DEF TypeOK, Cascade, CascadeTyped, NoCascade, Restart
<1>5. ASSUME UNCHANGED cascade PROVE CascadeTyped'
  BY <1>5 DEF TypeOK, CascadeTyped
<1> QED BY <1>1, <1>2, <1>3, <1>4, <1>5
        DEF Next, CascadeStep, Create, Rename, Grant, BeginKey, CreateKey, RevokeKey, Provision, Probe,
            Persist, PersistRefused, FindBot, CreateBot, FindAccount, CreateAccount, ProvisionFails,
            outside

\* The systems outside the portal, and the bounds.
RestTyped ==
  /\ identity \in [Ids -> {"none", "live", "gone"}]
  /\ trait \in [Ids -> Names \cup {None}]
  /\ bot \in [Names -> Ids \cup {None}]
  /\ account \in [Names -> Ids \cup {None}]
  /\ owner \in [Keys -> Ids \cup {None}]
  /\ grant \in [Ids -> Names \cup {None}]
  /\ minting \subseteq Ids
  /\ spent \in Spent

LEMMA SpentStep ==
  ASSUME TypeOK,
         \/ CanUse("provisions", MaxProvisions) /\ Use("provisions")
         \/ CanUse("deletes", MaxDeletes) /\ Use("deletes")
         \/ CanUse("edits", MaxEdits) /\ Use("edits")
         \/ CanUse("failures", MaxFailures) /\ Use("failures")
  PROVE  spent' \in Spent
<1> USE AccountsAssumption DEF TypeOK, Spent, CanUse, Use
<1>2. CASE CanUse("provisions", MaxProvisions) /\ Use("provisions")
  BY <1>2
<1>3. CASE CanUse("deletes", MaxDeletes) /\ Use("deletes")
  BY <1>3
<1>4. CASE CanUse("edits", MaxEdits) /\ Use("edits")
  BY SMTT(30), <1>4
<1>5. CASE CanUse("failures", MaxFailures) /\ Use("failures")
  BY <1>5
<1> QED BY <1>2, <1>3, <1>4, <1>5

LEMMA RestStep ==
  ASSUME TypeOK, Next
  PROVE  RestTyped'
<1> USE AccountsAssumption
<1>1. ASSUME NEW i \in Ids, NEW t \in Given, Create(i, t) PROVE RestTyped'
  BY <1>1 DEF TypeOK, RestTyped, Create
<1>2. ASSUME NEW i \in Ids, NEW t \in Given, Rename(i, t) PROVE RestTyped'
  BY <1>2, SpentStep DEF TypeOK, RestTyped, Rename
<1>8. ASSUME NEW i \in Ids, Grant(i) PROVE RestTyped'
  <2>1. Derived(i, trait[i]) \in Names
    BY DEF TypeOK, Derived
  <2> QED BY <1>8, <2>1, SpentStep DEF TypeOK, RestTyped, Grant
<1>9. ASSUME NEW i \in Ids, BeginKey(i) PROVE RestTyped'
  BY <1>9, SpentStep DEF TypeOK, RestTyped, BeginKey, outside
<1>10. ASSUME NEW i \in Ids, NEW k \in Keys, CreateKey(i, k) \/ RevokeKey(i, k) PROVE RestTyped'
  <2>1. CASE CreateKey(i, k)
    BY <2>1 DEF TypeOK, RestTyped, CreateKey
  <2>2. CASE RevokeKey(i, k)
    BY <2>2 DEF TypeOK, RestTyped, RevokeKey
  <2> QED BY <1>10, <2>1, <2>2
<1>3. ASSUME NEW i \in Ids, NEW p \in Workers, Provision(p, i) PROVE RestTyped'
  BY <1>3, SpentStep DEF TypeOK, RestTyped, Provision, outside
<1>4. ASSUME NEW i \in Ids, Delete(i) \/ DeleteFails(i) \/ ListKeys(i) \/ FindPaired(i)
      PROVE  RestTyped'
  BY <1>4, SpentStep DEF TypeOK, RestTyped, Delete, DeleteFails, ListKeys, FindPaired, outside
<1>5. ASSUME NEW i \in Ids,
             DropGrants(i) \/ RevokeKeys(i) \/ Purge(i) \/ DropBot(i) \/ DropHuman(i)
      PROVE  RestTyped'
  <2>1. ASSUME DropGrants(i) \/ DropHuman(i) PROVE RestTyped'
    BY <2>1 DEF TypeOK, RestTyped, DropGrants, DropHuman
  <2>2. ASSUME RevokeKeys(i) PROVE RestTyped'
    BY <2>2 DEF TypeOK, RestTyped, RevokeKeys
  <2>3. ASSUME Purge(i) PROVE RestTyped'
    BY <2>3 DEF TypeOK, RestTyped, Purge
  <2>4. ASSUME DropBot(i) PROVE RestTyped'
    BY <2>4 DEF TypeOK, RestTyped, DropBot
  <2> QED BY <1>5, <2>1, <2>2, <2>3, <2>4
<1>6. ASSUME NEW p \in Workers, WorkerStep(p) PROVE RestTyped'
  <2>1. Base(p) \in Names /\ prov[p].who \in Ids /\ prov[p].login \in Names \cup {None}
    BY <1>6, UnderWay DEF WorkerStep, Probe, Persist, PersistRefused, FindBot, CreateBot, FindAccount,
       CreateAccount, ProvisionFails, Busy, Provisioning
  <2>2. ASSUME Probe(p) \/ PersistRefused(p) \/ FindBot(p) \/ FindAccount(p) \/ ProvisionFails(p)
        PROVE  RestTyped'
    BY <2>2, SpentStep DEF TypeOK, RestTyped, Probe, PersistRefused, FindBot, FindAccount,
       ProvisionFails, outside
  <2>3. ASSUME Persist(p) \/ CreateBot(p) \/ CreateAccount(p) PROVE RestTyped'
    BY ZenonT(30), <2>1, <2>3 DEF TypeOK, RestTyped, Persist, CreateBot, CreateAccount
  <2> QED BY <1>6, <2>2, <2>3 DEF WorkerStep
<1>7. ASSUME Restart PROVE RestTyped'
  BY <1>7, SpentStep DEF TypeOK, RestTyped, Restart, outside
<1> QED BY <1>1, <1>2, <1>3, <1>4, <1>5, <1>6, <1>7, <1>8, <1>9, <1>10 DEF Next, WorkerStep

LEMMA TypeStep ==
  ASSUME TypeOK, ProbesInRange, Next
  PROVE  TypeOK' /\ ProbesInRange'
BY ProvStep, CascadeTypedStep, RestStep DEF TypeOK, ProvTyped, CascadeTyped, RestTyped

-----------------------------------------------------------------------------
(* Companions, and the end of an identity                                  *)

LEMMA FoundStep ==
  ASSUME TypeOK, FoundIsPaired, Next
  PROVE  FoundIsPaired'
<1> USE AccountsAssumption
<1>0. /\ \A i \in Ids : cascade[i] \in Cascade
      /\ \A i \in Ids : cascade[i].pc \in {"purge", "dropBot"} => cascade[i].name \in Names
  BY DEF TypeOK, Cascade
<1>1. ASSUME NEW i \in Ids, Cascades(i, [cascade[i] EXCEPT !.clean = FALSE]), UNCHANGED bot
      PROVE  FoundIsPaired'
  <2>1. PICK c : c = [cascade[i] EXCEPT !.clean = FALSE]
    OBVIOUS
  <2>2. c.pc = cascade[i].pc /\ c.name = cascade[i].name /\ c.found = cascade[i].found
    BY <1>0, <2>1 DEF Cascade
  <2> QED BY <1>1, <2>1, <2>2 DEF TypeOK, FoundIsPaired, Cascades
<1>2. ASSUME NEW i \in Ids, Delete(i) PROVE FoundIsPaired'
  <2>1. PICK c : c = [NoCascade EXCEPT !.pc = "data", !.name = Derived(i, trait[i]),
                        !.clean = Orderly(i)]
    OBVIOUS
  <2>2. c.pc = "data" /\ c.found = FALSE
    BY <2>1 DEF NoCascade
  <2> QED BY <1>2, <2>1, <2>2 DEF TypeOK, FoundIsPaired, Delete, Cascades, outside
<1>3. ASSUME NEW i \in Ids, DropGrants(i) \/ ListKeys(i) \/ RevokeKeys(i) \/ DropHuman(i)
      PROVE  FoundIsPaired'
  <2>1. PICK c \in Cascade : MovesTo(i, c)
    BY <1>3, MoveOfOne DEF CascadeStep
  <2>2. c.found = cascade[i].found /\ cascade' = [cascade EXCEPT ![i] = c] /\ bot' = bot
    BY <1>3, <2>1
       DEF MovesTo, Cascades, DropGrants, ListKeys, RevokeKeys, DropHuman, FindPaired, outside
  <2>3. CASE DropHuman(i)
    <3>1. c.pc = "done"
      BY <1>0, <2>2, <2>3 DEF DropHuman, Cascades, Cascade, TypeOK
    <3> QED BY <2>2, <3>1 DEF TypeOK, FoundIsPaired
  <2>4. CASE DropGrants(i) \/ ListKeys(i) \/ RevokeKeys(i)
    <3>1. cascade[i].pc \in {"data", "listKeys", "revoke"}
      BY <2>4 DEF DropGrants, ListKeys, RevokeKeys
    <3>2. c = cascade'[i]
      BY <2>2 DEF TypeOK
    <3>3. c.pc \in {"listKeys", "revoke", "findBot"}
      <4>1. CASE DropGrants(i)
        BY <1>0, <3>2, <4>1 DEF DropGrants, Cascades, Cascade, TypeOK
      <4>2. CASE ListKeys(i)
        BY ZenonT(30), <1>0, <3>2, <4>2 DEF ListKeys, Cascades, Cascade, TypeOK
      <4>3. CASE RevokeKeys(i)
        BY <1>0, <3>2, <4>3 DEF RevokeKeys, Cascades, Cascade, TypeOK, Keeping
      <4> QED BY <2>4, <4>1, <4>2, <4>3
    <3> QED BY <2>2, <3>1, <3>3 DEF TypeOK, FoundIsPaired
  <2> QED BY <1>3, <2>3, <2>4
<1>4. ASSUME NEW i \in Ids, FindPaired(i) PROVE FoundIsPaired'
  <2>1. PICK c : c = [cascade[i] EXCEPT !.pc = "purge", !.found = Paired(i, cascade[i].name)]
    OBVIOUS
  <2>2. c.pc = "purge" /\ c.name = cascade[i].name /\ (c.found <=> bot[c.name] = i)
    BY ZenonT(30), <1>0, <2>1 DEF Cascade, Paired
  <2> QED BY <1>4, <2>1, <2>2 DEF TypeOK, FoundIsPaired, FindPaired, Cascades, outside
<1>5. ASSUME NEW i \in Ids, Purge(i) PROVE FoundIsPaired'
  BY <1>0, <1>5 DEF TypeOK, FoundIsPaired, Cascade, Cascades, Purge, Gated
<1>6. ASSUME NEW i \in Ids, DropBot(i) PROVE FoundIsPaired'
  BY <1>0, <1>6 DEF TypeOK, FoundIsPaired, Cascade, Cascades, DropBot
<1>7. ASSUME NEW i \in Ids, DeleteFails(i) PROVE FoundIsPaired'
  <2>1. PICK c : c = Skipped(cascade[i])
    OBVIOUS
  <2>2. /\ c.name = cascade[i].name /\ c.found = cascade[i].found
        /\ c.pc \in {"listKeys", "findBot", "purge", "dropHuman", "kept"}
        /\ c.pc \in {"listKeys", "findBot", "purge"}
             => cascade[i].pc \in {"data", "listKeys", "revoke", "findBot"}
        /\ c.pc \in {"dropHuman", "kept"} => cascade[i].pc \in {"purge", "dropBot", "dropHuman"}
    BY <1>0, <1>7, <2>1 DEF DeleteFails, Deleting, Skipped, Keeping, Gated, Cascade
  <2>3. cascade' = [cascade EXCEPT ![i] = c] /\ bot' = bot
    BY <1>7, <2>1 DEF DeleteFails, Cascades, outside
  <2> QED BY <2>2, <2>3 DEF TypeOK, FoundIsPaired
<1>8. ASSUME NEW p \in Workers, CreateBot(p) PROVE FoundIsPaired'
  <2>1. \A n \in Names : bot[n] # None => bot'[n] = bot[n]
    BY <1>8 DEF CreateBot, TypeOK
  <2> QED BY <1>0, <1>8, <2>1 DEF CreateBot, FoundIsPaired
<1>9. ASSUME Restart PROVE FoundIsPaired'
  BY <1>9 DEF TypeOK, FoundIsPaired, NoCascade, Restart, outside
<1>10. ASSUME UNCHANGED <<bot, cascade>> PROVE FoundIsPaired'
  BY <1>10 DEF FoundIsPaired
<1> QED BY <1>1, <1>2, <1>3, <1>4, <1>5, <1>6, <1>7, <1>8, <1>9, <1>10
        DEF Next, Create, Rename, Grant, BeginKey, CreateKey, RevokeKey, Provision, Probe, Persist,
            PersistRefused, FindBot, FindAccount, CreateAccount, ProvisionFails, outside

LEMMA GoneStep ==
  ASSUME TypeOK, GoneIsDone, Next
  PROVE  GoneIsDone'
<1> USE AccountsAssumption
<1>1. ASSUME NEW i \in Ids, Cascades(i, [cascade[i] EXCEPT !.clean = FALSE]), UNCHANGED identity
      PROVE  GoneIsDone'
  <2>1. [cascade[i] EXCEPT !.clean = FALSE].pc = cascade[i].pc
    BY DEF TypeOK, Cascade
  <2> QED BY <1>1, <2>1 DEF TypeOK, GoneIsDone, Cascades
<1>2. ASSUME NEW i \in Ids, Delete(i) PROVE GoneIsDone'
  BY <1>2 DEF TypeOK, GoneIsDone, Delete, Cascades, outside
<1>3. ASSUME NEW i \in Ids, DropHuman(i) PROVE GoneIsDone'
  BY <1>3 DEF TypeOK, Cascade, GoneIsDone, DropHuman, Cascades
<1>4. ASSUME NEW i \in Ids, CascadeStep(i), UNCHANGED identity PROVE GoneIsDone'
  <2>1. PICK c \in Cascade : MovesTo(i, c)
    BY <1>4, MoveOfOne
  <2> QED BY <1>4, <2>1 DEF TypeOK, GoneIsDone, MovesTo, Deleting, Cascades
<1>5. ASSUME Restart PROVE GoneIsDone'
  BY <1>5 DEF TypeOK, GoneIsDone, Restart, Deleting, outside
<1>6. ASSUME UNCHANGED cascade, \A i \in Ids : identity'[i] = "gone" => identity[i] = "gone"
      PROVE  GoneIsDone'
  BY <1>6 DEF GoneIsDone
<1>7. ASSUME NEW i \in Ids, NEW t \in Given, Create(i, t) PROVE GoneIsDone'
  BY <1>6, <1>7 DEF Create, TypeOK
<1> QED BY ZenonT(30), <1>1, <1>2, <1>3, <1>4, <1>5, <1>6, <1>7
        DEF Next, CascadeStep, Rename, Grant, BeginKey, CreateKey, RevokeKey, Provision, DropGrants,
            ListKeys, RevokeKeys, FindPaired, Purge, DropBot, DeleteFails, Probe, Persist,
            PersistRefused, FindBot, CreateBot, FindAccount, CreateAccount, ProvisionFails, outside

-----------------------------------------------------------------------------
(* Clean cascades                                                          *)

\* What others' provisionings do is nothing to a clean cascade.
LEMMA CleanBeside ==
  ASSUME TypeOK, CascadesClean, UNCHANGED <<cascade, minting, owner>>,
         \A q \in Workers : Busy(q)' => Busy(q) /\ prov'[q].who = prov[q].who,
         \A n \in Names : account'[n] = account[n]
                            \/ \E q \in Workers : Busy(q) /\ account'[n] = prov[q].who
  PROVE  CascadesClean'
<1> SUFFICES ASSUME NEW i \in Ids, cascade[i].clean PROVE CleanCascade(i)'
  BY DEF CascadesClean, CleanCascade
<1>1. CleanCascade(i)
  BY DEF CascadesClean
<1>2. \A n \in Names : account'[n] = i => account[n] = i
  BY <1>1 DEF CleanCascade
<1>3. \A q \in Workers : Busy(q)' => prov'[q].who # i
  BY <1>1 DEF CleanCascade
<1> QED BY <1>1, <1>2, <1>3 DEF CleanCascade

LEMMA CleanStep ==
  ASSUME TypeOK, ProbesInRange, CascadesClean, Next
  PROVE  CascadesClean'
<1> USE AccountsAssumption
<1>0. \A i \in Ids : cascade[i] \in Cascade
  BY DEF TypeOK
<1>1. ASSUME NEW i \in Ids, NEW t \in Given, Create(i, t) \/ Rename(i, t) PROVE CascadesClean'
  <2>1. prov' = Disturbed(Workers) /\ UNCHANGED <<account, cascade, minting, owner>>
    BY <1>1 DEF Create, Rename
  <2>2. \A q \in Workers : Busy(q)' => Busy(q) /\ prov'[q].who = prov[q].who
    BY <2>1, DisturbedTyped DEF Busy
  <2> QED BY <2>1, <2>2, CleanBeside
<1>2. ASSUME NEW i \in Ids, BeginKey(i) PROVE CascadesClean'
  BY <1>0, <1>2
     DEF TypeOK, Cascade, CascadesClean, CleanCascade, Busy, BeginKey, Cascades, outside
<1>3. ASSUME NEW i \in Ids, NEW k \in Keys, CreateKey(i, k) PROVE CascadesClean'
  BY <1>3 DEF TypeOK, CascadesClean, CleanCascade, Busy, CreateKey
<1>4. ASSUME NEW i \in Ids, NEW k \in Keys, RevokeKey(i, k) PROVE CascadesClean'
  BY <1>4 DEF TypeOK, CascadesClean, CleanCascade, Busy, RevokeKey
<1>5. ASSUME NEW p \in Workers, NEW i \in Ids, Provision(p, i) PROVE CascadesClean'
  <2>1. PICK c : c = [cascade[i] EXCEPT !.clean = FALSE]
    OBVIOUS
  <2>2. cascade' = [cascade EXCEPT ![i] = c] /\ c.clean = FALSE
    BY <1>0, <1>5, <2>1 DEF Provision, Cascades, Cascade
  <2>3. PICK r : r = [NoProvisioning EXCEPT !.pc = "probe", !.who = i, !.mem = trait[i],
                        !.alone = /\ \A q \in Workers : ~Busy(q)
                                  /\ \A j \in Ids : ~Deleting(j)]
    OBVIOUS
  <2>4. r.who = i
    BY <2>3 DEF NoProvisioning
  <2>5. PICK F : F = Disturbed(Workers)
    OBVIOUS
  <2>6. /\ F \in [Workers -> Provisioning]
        /\ \A q \in Workers : F[q].pc = prov[q].pc /\ F[q].who = prov[q].who
    BY <2>5, DisturbedTyped
  <2>7. prov' = [F EXCEPT ![p] = r]
    BY <1>5, <2>3, <2>5 DEF Provision
  <2>8. ASSUME NEW q \in Workers
        PROVE  prov'[q].who = i \/ (prov'[q].who = prov[q].who /\ (Busy(q)' => Busy(q)))
    <3>1. CASE q = p
      BY <2>4, <2>6, <2>7, <3>1
    <3>2. CASE q # p
      <4>1. prov'[q] = F[q]
        BY <2>6, <2>7, <3>2
      <4> QED BY <2>6, <4>1 DEF Busy
    <3> QED BY <3>1, <3>2
  <2> SUFFICES ASSUME NEW j \in Ids, cascade'[j].clean PROVE CleanCascade(j)'
    BY DEF CascadesClean, CleanCascade
  <2>9. j # i /\ cascade'[j] = cascade[j] /\ CleanCascade(j)
    BY <2>2 DEF TypeOK, CascadesClean
  <2>10. \A q \in Workers : Busy(q)' => prov'[q].who # j
    BY <2>8, <2>9 DEF CleanCascade
  <2> QED BY <1>5, <2>9, <2>10 DEF CleanCascade, Provision, outside
<1>6. ASSUME NEW i \in Ids, Delete(i) PROVE CascadesClean'
  <2>1. PICK c : c = [NoCascade EXCEPT !.pc = "data", !.name = Derived(i, trait[i]),
                        !.clean = Orderly(i)]
    OBVIOUS
  <2>2. c.pc = "data" /\ c.name = Derived(i, trait[i]) /\ c.clean = Orderly(i)
    BY <2>1 DEF NoCascade
  <2>3. /\ cascade' = [cascade EXCEPT ![i] = c] /\ prov' = Disturbed(Workers)
        /\ UNCHANGED <<account, minting, owner>>
    BY <1>6, <2>1 DEF Delete, Cascades, outside
  <2>4. \A q \in Workers : Busy(q)' => Busy(q) /\ prov'[q].who = prov[q].who
    BY <2>3, DisturbedTyped DEF Busy
  <2> SUFFICES ASSUME NEW j \in Ids, cascade'[j].clean PROVE CleanCascade(j)'
    BY DEF CascadesClean, CleanCascade
  <2>5. CASE j = i
    <3>1. cascade'[j] = c
      BY <2>3, <2>5 DEF TypeOK
    <3>2. Orderly(i)
      BY <2>2, <3>1
    <3>3. \A q \in Workers : Busy(q)' => prov'[q].who # i
      BY <2>4, <3>2 DEF Orderly
    <3> QED BY <2>2, <2>3, <2>5, <3>1, <3>2, <3>3 DEF CleanCascade, Orderly
  <2>6. CASE j # i
    <3>1. cascade'[j] = cascade[j] /\ CleanCascade(j)
      BY <2>3, <2>6 DEF TypeOK, CascadesClean
    <3>2. \A q \in Workers : Busy(q)' => prov'[q].who # j
      BY <2>4, <3>1 DEF CleanCascade
    <3> QED BY <2>3, <3>1, <3>2 DEF CleanCascade
  <2> QED BY <2>5, <2>6
<1>7. ASSUME NEW i \in Ids, DropGrants(i) PROVE CascadesClean'
  BY <1>7 DEF TypeOK, Cascade, CascadesClean, CleanCascade, Busy, Cascades, DropGrants
<1>8. ASSUME NEW i \in Ids, ListKeys(i) PROVE CascadesClean'
  BY <1>8 DEF TypeOK, Cascade, CascadesClean, CleanCascade, Busy, Cascades, outside, ListKeys
<1>9. ASSUME NEW i \in Ids, RevokeKeys(i) PROVE CascadesClean'
  BY <1>9 DEF TypeOK, Cascade, CascadesClean, CleanCascade, Busy, Cascades, Keeping, RevokeKeys
<1>10. ASSUME NEW i \in Ids, FindPaired(i) PROVE CascadesClean'
  BY <1>10 DEF TypeOK, Cascade, CascadesClean, CleanCascade, Busy, Cascades, outside, Paired,
     FindPaired
<1>11. ASSUME NEW i \in Ids, Purge(i) PROVE CascadesClean'
  BY <1>11 DEF TypeOK, Cascade, CascadesClean, CleanCascade, Busy, Cascades, Gated, Purge
<1>12. ASSUME NEW i \in Ids, DropBot(i) PROVE CascadesClean'
  BY <1>12 DEF TypeOK, Cascade, CascadesClean, CleanCascade, Busy, Cascades, DropBot
<1>17. ASSUME NEW i \in Ids, DropHuman(i) PROVE CascadesClean'
  BY <1>17 DEF TypeOK, Cascade, CascadesClean, CleanCascade, Busy, Cascades, DropHuman
<1>13. ASSUME NEW i \in Ids, DeleteFails(i) PROVE CascadesClean'
  <2>1. PICK c : c = Skipped(cascade[i])
    OBVIOUS
  <2>2. /\ c.name = cascade[i].name /\ c.clean = cascade[i].clean
        /\ c.pc \in {"listKeys", "findBot", "purge", "dropHuman", "kept"}
        /\ c.pc = "findBot" => ~c.ok
        /\ c.pc = "purge" => cascade[i].pc = "findBot" /\ c.ok = cascade[i].ok
        /\ c.pc = "dropHuman" => cascade[i].pc = "dropBot"
    BY ZenonT(30), <1>0, <1>13, <2>1 DEF DeleteFails, Deleting, Skipped, Keeping, Gated, Cascade
  <2>3. cascade' = [cascade EXCEPT ![i] = c] /\ UNCHANGED <<account, prov, minting, owner>>
    BY <1>13, <2>1 DEF DeleteFails, Cascades, outside
  <2> SUFFICES ASSUME NEW j \in Ids, cascade'[j].clean PROVE CleanCascade(j)'
    BY DEF CascadesClean, CleanCascade
  <2>4. cascade'[j] = IF j = i THEN c ELSE cascade[j]
    BY <2>3 DEF TypeOK
  <2>5. CleanCascade(j) /\ cascade[j].clean
    BY <2>2, <2>4 DEF CascadesClean
  <2> QED BY <2>2, <2>3, <2>4, <2>5 DEF CleanCascade, Busy
<1>14. ASSUME NEW p \in Workers, WorkerStep(p) PROVE CascadesClean'
  <2>1. PICK r \in Provisioning : StepsTo(p, r)
    BY <1>14, StepOfOne
  <2>2. \A q \in Workers : Busy(q)' => Busy(q) /\ prov'[q].who = prov[q].who
    BY <2>1 DEF TypeOK, StepsTo, Provisions, Busy
  <2>3. Busy(p)
    BY <2>1 DEF StepsTo
  <2>4. /\ UNCHANGED <<cascade, minting, owner>>
        /\ \A n \in Names : account'[n] = account[n] \/ account'[n] = prov[p].who
    BY <1>14 DEF WorkerStep, Probe, Persist, PersistRefused, FindBot, CreateBot, FindAccount,
       CreateAccount, ProvisionFails, TypeOK, outside
  <2> QED BY <2>2, <2>3, <2>4, CleanBeside
<1>15. ASSUME Restart PROVE CascadesClean'
  BY <1>15 DEF TypeOK, CascadesClean, CleanCascade, Busy, Deleting, NoProvisioning, NoCascade, outside,
     Restart
<1>16. ASSUME UNCHANGED <<account, owner, prov, cascade, minting>> PROVE CascadesClean'
  BY <1>16 DEF CascadesClean, CleanCascade, Busy
<1> QED BY <1>1, <1>2, <1>3, <1>4, <1>5, <1>6, <1>7, <1>8, <1>9, <1>10, <1>11, <1>12, <1>13, <1>14,
           <1>15, <1>16, <1>17 DEF Next, WorkerStep, Grant

-----------------------------------------------------------------------------
(* Lone provisionings                                                      *)

LEMMA LoneStep ==
  ASSUME TypeOK, ProbesInRange, LoneRuns, Next
  PROVE  LoneRuns'
<1> USE AccountsAssumption
<1>0. ASSUME NEW p \in Workers
      PROVE  prov[p] \in Provisioning /\ (prov[p].alone => LoneProvisioning(p))
  BY DEF TypeOK, LoneRuns
<1>1. ASSUME \A q \in Workers : ~prov'[q].alone PROVE LoneRuns'
  BY <1>1 DEF LoneRuns, LoneProvisioning
<1>2. ASSUME prov' = Disturbed(Workers) PROVE LoneRuns'
  BY <1>1, <1>2, DisturbedTyped
<1>3. ASSUME NEW i \in Ids, CascadeStep(i), UNCHANGED prov PROVE LoneRuns'
  <2>1. Deleting(i)
    BY <1>3, MoveOfOne DEF MovesTo
  <2> QED BY <1>1, <1>3, <2>1 DEF LoneRuns, LoneProvisioning
<1>4. ASSUME UNCHANGED <<trait, account, prov>>, \A j \in Ids : Deleting(j)' => Deleting(j)
      PROVE  LoneRuns'
  <2> SUFFICES ASSUME NEW p \in Workers, prov[p].alone PROVE LoneProvisioning(p)'
    BY <1>4 DEF LoneRuns, LoneProvisioning
  <2>1. LoneProvisioning(p)
    BY <1>0
  <2>2. \A q \in Workers : Busy(q)' <=> Busy(q)
    BY <1>4 DEF Busy
  <2>3. Base(p)' = Base(p)
    BY <1>4 DEF Base
  <2> QED BY <1>4, <2>1, <2>2, <2>3 DEF LoneProvisioning
<1>5. ASSUME NEW i \in Ids, BeginKey(i) PROVE LoneRuns'
  <2>1. \A j \in Ids : Deleting(j)' => Deleting(j)
    BY <1>5 DEF TypeOK, Cascade, BeginKey, Cascades, Deleting
  <2> QED BY <1>4, <1>5, <2>1 DEF BeginKey, outside
<1>6. ASSUME NEW p \in Workers, NEW i \in Ids, Provision(p, i) PROVE LoneRuns'
  <2>1. PICK r : r = [NoProvisioning EXCEPT !.pc = "probe", !.who = i, !.mem = trait[i],
                        !.alone = /\ \A q \in Workers : ~Busy(q)
                                  /\ \A j \in Ids : ~Deleting(j)]
    OBVIOUS
  <2>2. /\ r.who = i /\ r.pc = "probe" /\ r.mem = trait[i] /\ r.login = None
        /\ r.alone => (\A q \in Workers : ~Busy(q)) /\ (\A j \in Ids : ~Deleting(j))
    BY <2>1 DEF NoProvisioning
  <2>3. PICK F : F = Disturbed(Workers)
    OBVIOUS
  <2>4. /\ F \in [Workers -> Provisioning]
        /\ \A q \in Workers : F[q].pc = prov[q].pc /\ ~F[q].alone
    BY <2>3, DisturbedTyped
  <2>5. prov' = [F EXCEPT ![p] = r]
    BY <1>6, <2>1, <2>3 DEF Provision
  <2>6. prov'[p] = r /\ \A q \in Workers \ {p} : prov'[q] = F[q]
    BY <2>4, <2>5
  <2> SUFFICES ASSUME NEW q \in Workers, prov'[q].alone PROVE LoneProvisioning(q)'
    BY DEF LoneRuns, LoneProvisioning
  <2>7. q = p /\ r.alone
    BY <2>4, <2>6
  <2>8. \A w \in Workers \ {p} : ~Busy(w)'
    BY SMTT(30), <2>2, <2>4, <2>6, <2>7 DEF Busy
  <2>9. \A j \in Ids : ~Deleting(j)'
    BY <1>6, <2>2, <2>7 DEF TypeOK, Cascade, Provision, Cascades, Deleting
  <2>10. trait' = trait
    BY <1>6 DEF Provision, outside
  <2> QED BY <2>2, <2>6, <2>7, <2>8, <2>9, <2>10 DEF LoneProvisioning
<1>7. ASSUME NEW p \in Workers, WorkerStep(p) PROVE LoneRuns'
  <2>1. PICK r \in Provisioning : StepsTo(p, r)
    BY <1>7, StepOfOne
  <2>2. Busy(p) /\ prov' = [prov EXCEPT ![p] = r] /\ r.who = prov[p].who
    BY <2>1 DEF StepsTo, Provisions
  <2>3. prov'[p] = r /\ \A q \in Workers \ {p} : prov'[q] = prov[q]
    BY <2>2 DEF TypeOK
  <2>4. \A q \in Workers \ {p} : ~prov'[q].alone
    BY <1>0, <2>2, <2>3 DEF LoneProvisioning
  <2> SUFFICES ASSUME r.alone PROVE LoneProvisioning(p)'
    BY <2>3, <2>4 DEF LoneRuns, LoneProvisioning
  <2>a. prov[p].pc # "idle"
    BY <2>2 DEF Busy
  <2>b. prov[p].who \in Ids /\ Base(p) \in Names /\ prov[p] \in Provisioning
    BY <2>a, UnderWay
  <2>c. Candidates(p) \in Seq(Names)
    BY <2>a, UnderWay
  <2>d. ASSUME ProvisionFails(p) PROVE FALSE
    <3>1. r = AfterFailure(p)
      BY <2>d, <2>2, <2>3 DEF ProvisionFails, Provisions, TypeOK
    <3>2. CASE prov[p].pc = "probe"
      <4>1. PICK c : c = Chosen(p, Base(p))
        OBVIOUS
      <4>2. c \in Provisioning
        BY <2>b, <4>1 DEF Chosen, Provisioning
      <4>3. r = [c EXCEPT !.alone = FALSE]
        BY <3>1, <3>2, <4>1 DEF AfterFailure
      <4> QED BY <4>2, <4>3 DEF Provisioning
    <3>3. CASE prov[p].pc # "probe"
      BY <2>2, <2>b, <3>1, <3>3 DEF AfterFailure, Provisioning, Busy
    <3> QED BY <3>2, <3>3
  <2>e. ASSUME PersistRefused(p) PROVE FALSE
    BY <2>b, <2>e, <2>3 DEF PersistRefused, Provisions, Provisioning, TypeOK
  <2>f. ASSUME NEW s, Provisions(p, s) PROVE r = s
    BY <2>3, <2>f DEF Provisions, TypeOK
  <2>5. prov[p].alone
    <3>1. ASSUME NEW n, r = Chosen(p, n) PROVE prov[p].alone
      BY <2>b, <3>1 DEF Chosen, Provisioning
    <3>2. ASSUME NEW t, r = [prov[p] EXCEPT !.try = t] PROVE prov[p].alone
      BY <2>b, <3>2 DEF Provisioning
    <3>3. ASSUME NEW pc, r = [prov[p] EXCEPT !.pc = pc] PROVE prov[p].alone
      BY <2>b, <3>3 DEF Provisioning
    <3>4. ASSUME NEW n, r = [prov[p] EXCEPT !.pc = "findBot", !.mem = n] PROVE prov[p].alone
      BY <2>b, <3>4 DEF Provisioning
    <3>5. CASE Probe(p)
      BY <2>f, <3>1, <3>2, <3>3, <3>5 DEF Probe
    <3>6. CASE Persist(p)
      BY <2>f, <3>4, <3>6 DEF Persist
    <3>7. CASE FindBot(p) \/ CreateBot(p) \/ FindAccount(p) \/ CreateAccount(p)
      BY <2>f, <3>3, <3>7 DEF FindBot, CreateBot, FindAccount, CreateAccount
    <3> QED BY <1>7, <2>d, <2>e, <3>5, <3>6, <3>7 DEF WorkerStep
  <2>6. LoneProvisioning(p)
    BY <1>0, <2>5
  <2>7. \A q \in Workers \ {p} : ~Busy(q)'
    BY <2>3, <2>5, <2>6 DEF LoneProvisioning, Busy
  <2>8. \A j \in Ids : ~Deleting(j)'
    <3>1. cascade' = cascade
      BY <1>7 DEF WorkerStep, Probe, Persist, PersistRefused, FindBot, CreateBot, FindAccount,
         CreateAccount, ProvisionFails, outside
    <3> QED BY <2>5, <2>6, <3>1 DEF LoneProvisioning, Deleting
  <2>9. CASE Probe(p)
    <3>0. UNCHANGED <<trait, account>> /\ prov[p].pc = "probe" /\ prov[p].login = None
      BY <2>5, <2>6, <2>9 DEF Probe, outside, LoneProvisioning
    <3> DEFINE n == Candidates(p)[prov[p].try]
    <3>1. n \in Names
      BY <2>c, <3>0, ElementOfSeq DEF ProbesInRange
    <3>2. CASE ~Taken(prov[p].who, n) /\ r = Chosen(p, n)
      <4>1. /\ r.login = n /\ r.mem = prov[p].mem
            /\ r.pc = IF n = prov[p].mem THEN "findBot" ELSE "persist"
        BY <2>b, <3>1, <3>2 DEF Chosen, Provisioning
      <4> QED BY SMTT(30), <2>2, <2>3, <2>5, <2>6, <2>7, <2>8, <3>0, <3>1, <3>2, <4>1
              DEF LoneProvisioning, Taken
    <3>3. CASE r = [prov[p] EXCEPT !.try = prov[p].try + 1]
                 \/ r = [prov[p] EXCEPT !.pc = "findBot"]
      <4>1. r.login = None /\ r.mem = prov[p].mem /\ r.pc \in {"probe", "findBot"}
        BY ZenonT(30), <2>b, <3>0, <3>3 DEF Provisioning
      <4> QED BY <2>2, <2>3, <2>5, <2>6, <2>7, <2>8, <3>0, <4>1 DEF LoneProvisioning
    <3> QED BY <2>3, <2>9, <3>2, <3>3 DEF Probe, Provisions, TypeOK
  <2>10. CASE Persist(p)
    <3>1. r.pc = "findBot" /\ r.mem = prov[p].login /\ r.login = prov[p].login
      BY ZenonT(30), <2>3, <2>b, <2>10 DEF Persist, Provisions, Provisioning, TypeOK
    <3>2. trait'[prov[p].who] = prov[p].login /\ account' = account /\ prov[p].pc = "persist"
      BY <2>b, <2>10 DEF Persist, TypeOK
    <3> QED BY <2>2, <2>3, <2>5, <2>6, <2>7, <2>8, <3>1, <3>2 DEF LoneProvisioning
  <2>11. CASE FindBot(p) \/ CreateBot(p)
    <3>1. r.pc \in {"createBot", "findAccount"} /\ r.mem = prov[p].mem /\ r.login = prov[p].login
      <4>1. r = [prov[p] EXCEPT !.pc = "createBot"] \/ r = [prov[p] EXCEPT !.pc = "findAccount"]
        BY <2>f, <2>11 DEF FindBot, CreateBot
      <4> QED BY ZenonT(30), <2>b, <4>1 DEF Provisioning
    <3>2. UNCHANGED <<trait, account>> /\ prov[p].pc \in {"findBot", "createBot"}
      BY <2>11 DEF FindBot, CreateBot, outside
    <3> QED BY <2>2, <2>3, <2>5, <2>6, <2>7, <2>8, <3>1, <3>2 DEF LoneProvisioning
  <2>12. CASE FindAccount(p)
    <3>1. /\ r.pc = IF account[Base(p)] = None THEN "create" ELSE "done"
          /\ r.mem = prov[p].mem /\ r.login = prov[p].login
      BY <2>3, <2>b, <2>12 DEF FindAccount, Provisions, Provisioning, TypeOK
    <3>2. UNCHANGED <<trait, account>> /\ prov[p].pc = "findAccount"
      BY <2>12 DEF FindAccount, outside
    <3>3. Base(p)' = Base(p)
      BY <2>2, <2>3, <3>1 DEF Base
    <3>4. prov[p].login # None => prov[p].login = Base(p)
      BY <2>5, <2>6, <3>2 DEF LoneProvisioning, Base, Derived
    <3> QED BY <2>2, <2>3, <2>5, <2>6, <2>7, <2>8, <3>1, <3>2, <3>3, <3>4 DEF LoneProvisioning
  <2>13. CASE CreateAccount(p)
    <3>1. r.pc = "done" /\ r.mem = prov[p].mem /\ r.login = prov[p].login
      BY <2>3, <2>b, <2>13 DEF CreateAccount, Provisions, Provisioning, TypeOK
    <3>2. trait' = trait /\ prov[p].pc = "create"
      BY <2>13 DEF CreateAccount
    <3>3. prov[p].login # None => prov[p].login = Base(p)
      BY <2>5, <2>6, <3>2 DEF LoneProvisioning, Base, Derived
    <3>4. account[Base(p)] = None
      BY <2>5, <2>6, <3>2 DEF LoneProvisioning
    <3>5. account'[Base(p)] \in {None, prov[p].who}
            /\ \E m \in Names : account'[m] = prov[p].who
      BY <2>b, <2>13, <3>4 DEF CreateAccount, Admits, TypeOK
    <3> QED BY <2>2, <2>3, <2>5, <2>6, <2>7, <2>8, <3>1, <3>2, <3>3, <3>5 DEF LoneProvisioning
  <2> QED BY <1>7, <2>d, <2>e, <2>9, <2>10, <2>11, <2>12, <2>13 DEF WorkerStep
<1>8. ASSUME Restart PROVE LoneRuns'
  BY <1>1, <1>8 DEF Restart, NoProvisioning
<1>9. ASSUME UNCHANGED <<trait, account, prov, cascade>> PROVE LoneRuns'
  <2>1. \A j \in Ids : Deleting(j)' => Deleting(j)
    BY <1>9 DEF Deleting
  <2> QED BY <1>4, <1>9, <2>1
<1> QED BY <1>2, <1>3, <1>5, <1>6, <1>7, <1>8, <1>9
        DEF Next, WorkerStep, CascadeStep, Create, Rename, Delete, Grant, CreateKey, RevokeKey,
            DropGrants, ListKeys, RevokeKeys, FindPaired, Purge, DropBot, DropHuman, DeleteFails

-----------------------------------------------------------------------------
(* The theorems                                                            *)

\* Whatever people, provisionings and cascades do at once and whatever fails, the inductive
\* invariant holds.
THEOREM AccountsInvariance == Spec => []AccountsInv
<1> USE AccountsAssumption
<1>1. Init => AccountsInv
  <2> SUFFICES ASSUME Init PROVE AccountsInv
    OBVIOUS
  <2>1. TypeOK
    BY DEF Init, TypeOK, Provisioning, NoProvisioning, Cascade, NoCascade, Spent
  <2>2. ProbesInRange /\ FoundIsPaired /\ GoneIsDone /\ CascadesClean /\ LoneRuns
    BY DEF Init, ProbesInRange, FoundIsPaired, GoneIsDone, CascadesClean, CleanCascade, LoneRuns,
       LoneProvisioning, NoProvisioning, NoCascade
  <2> QED BY <2>1, <2>2 DEF AccountsInv
<1>2. AccountsInv /\ [Next]_vars => AccountsInv'
  <2> SUFFICES ASSUME AccountsInv, [Next]_vars PROVE AccountsInv'
    OBVIOUS
  <2>1. CASE Next
    BY <2>1, TypeStep, FoundStep, GoneStep, CleanStep, LoneStep DEF AccountsInv
  <2>2. CASE UNCHANGED vars
    BY <2>2 DEF vars, AccountsInv, TypeOK, ProbesInRange, FoundIsPaired, GoneIsDone, CascadesClean,
       CleanCascade, LoneRuns, LoneProvisioning, Candidates, Base, Busy, Deleting
  <2> QED BY <2>1, <2>2
<1> QED BY <1>1, <1>2, PTL DEF Spec

\* Every value is of its kind.
THEOREM TypeCorrect == Spec => []TypeOK
BY AccountsInvariance, PTL DEF AccountsInv

\* The identity is deleted last: when it is gone after a cascade beside which the user did
\* nothing, no API key and no Gitea account of the user is left, whatever failed.
THEOREM KeysAndAccountsGoFirst == Spec => []CredentialsGoFirst
<1>1. AccountsInv => CredentialsGoFirst
  BY DEF AccountsInv, GoneIsDone, CascadesClean, CleanCascade, CredentialsGoFirst
<1> QED BY <1>1, AccountsInvariance, PTL

\* The login that a provisioning alone resolved is what every later reader derives, and is
\* not another identity's account.
THEOREM ResolvedLoginIsOwn == Spec => []ResolvedIsOwn
<1>1. AccountsInv => ResolvedIsOwn
  <2> SUFFICES ASSUME AccountsInv, NEW p \in Workers, prov[p].pc = "done", prov[p].alone,
                      prov[p].login # None
               PROVE  LET i == prov[p].who
                          n == Derived(i, trait[i]) IN
                        /\ account[n] \in {None, i}
                        /\ account[n] = i \/ \E m \in Names : account[m] = i
    BY DEF ResolvedIsOwn
  <2>1. LoneProvisioning(p)
    BY DEF AccountsInv, LoneRuns
  <2>2. Derived(prov[p].who, trait[prov[p].who]) = prov[p].login
    BY <2>1 DEF LoneProvisioning, Derived
  <2> QED BY <2>1, <2>2 DEF LoneProvisioning
<1> QED BY <1>1, AccountsInvariance, PTL

\* A companion is deleted only by the cascade of the human it was made for.
THEOREM CompanionsOfOthersSurvive == Spec => BotsOfOthersSurvive
<1>1. AccountsInv /\ [Next]_vars =>
        [\A n \in Names : bot[n] # None /\ bot'[n] # bot[n] => cascade[bot[n]].pc = "dropBot"]_vars
  <2> SUFFICES ASSUME AccountsInv, Next, NEW n \in Names, bot[n] # None, bot'[n] # bot[n]
               PROVE  cascade[bot[n]].pc = "dropBot"
    BY DEF vars
  <2>1. ASSUME NEW i \in Ids, DropBot(i) PROVE cascade[bot[n]].pc = "dropBot"
    BY <2>1 DEF AccountsInv, TypeOK, FoundIsPaired, DropBot
  <2>2. ASSUME NEW p \in Workers, CreateBot(p) PROVE FALSE
    BY <2>2 DEF AccountsInv, TypeOK, CreateBot
  <2>3. bot' # bot
    OBVIOUS
  <2> QED BY <2>1, <2>2, <2>3
          DEF Next, Create, Rename, Grant, BeginKey, CreateKey, RevokeKey, Provision, Delete,
              DropGrants, ListKeys, RevokeKeys, FindPaired, Purge, DropHuman, DeleteFails, Probe,
              Persist, PersistRefused, FindBot, FindAccount, CreateAccount, ProvisionFails, Restart,
              outside
<1> QED BY <1>1, AccountsInvariance, PTL DEF Spec, BotsOfOthersSurvive
=============================================================================
