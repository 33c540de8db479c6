------------------------------ MODULE Accounts ------------------------------
(***************************************************************************)
(* The accounts of a member, made by services/provisioning.ts and          *)
(* services/gitea-identity.ts and taken away by services/user-delete.ts    *)
(* of typescript/portal/src.                                               *)
(*                                                                         *)
(* A member is an identity of Kratos.  The platform gives it a login, a    *)
(* Gitea account of that login, a companion identity <login>.bot, and API  *)
(* keys, which are clients of Hydra.  None of these systems knows of the   *)
(* others: the portal ties them by the login, which it stores in the       *)
(* identity's preferred_username or derives again from the email.  Every   *)
(* step of this module is one call to one of them.  The email of an        *)
(* identity does not change, and an identity stands for its email.         *)
(***************************************************************************)
EXTENDS Naturals, Sequences

CONSTANTS
  Ids,            \* identities of humans
  Names,          \* logins
  None,
  Local,          \* the local part of an identity's email
  Suffixed,       \* the candidates base, base-1, base-2, ... of a login (a bound)
  Given,          \* what an admin enters for a username, None for nothing (a bound)
  Keys,           \* API keys there may be at once (a bound)
  Workers,        \* provisionings under way at once (a bound)
  MaxProvisions, MaxDeletes, MaxEdits, MaxFailures   \* bounds

ASSUME AccountsAssumption ==
  /\ None \notin Ids \cup Names
  /\ Local \in [Ids -> Names]
  /\ Suffixed \in [Names -> Seq(Names)]
  /\ \A n \in Names : Suffixed[n] # <<>> /\ Suffixed[n][1] = n
  /\ Given \subseteq Names \cup {None}
  /\ {MaxProvisions, MaxDeletes, MaxEdits, MaxFailures} \subseteq Nat

VARIABLES
  identity, \* Kratos: is the identity there?
  trait,    \* its preferred_username
  bot,      \* Kratos: metadata_public.human_id of the identity <login>.bot
  account,  \* Gitea: whose email has the account of that login?
  owner,    \* Hydra: metadata.owner_id of an API key
  grant,    \* project_grants: the gitea_username stored in the grant to a user
  prov,     \* ensureProvisioned: one record for each that is under way
  cascade,  \* deleteUserCascade: one record for each user
  minting,  \* the users whose POST /keys has passed requireSession
  spent     \* how much of the bounds is used

vars == <<identity, trait, bot, account, owner, grant, prov, cascade, minting, spent>>
outside == <<identity, trait, bot, account, owner, grant>>

Provisioning ==
  [pc : {"idle", "probe", "persist", "findBot", "createBot", "findAccount", "create", "done"},
   who : Ids \cup {None},
   mem : Names \cup {None},     \* identity.traits.preferred_username as read
   try : Nat,                   \* the candidate resolveGiteaUsername looks at
   login : Names \cup {None},   \* chosen
   alone : BOOLEAN]             \* history: nothing failed, nothing else ran beside it

Cascade ==
  [pc : {"idle", "data", "listKeys", "revoke", "findBot", "purge", "dropBot", "dropHuman",
         "kept", "done"},
   name : Names \cup {None},    \* humanUsername
   keys : SUBSET Keys,          \* what listUserApiKeys returned
   found : BOOLEAN,             \* bot
   ok : BOOLEAN,                \* credentialTeardownOk
   clean : BOOLEAN]             \* history: the user did nothing beside it

NoProvisioning ==
  [pc |-> "idle", who |-> None, mem |-> None, try |-> 1, login |-> None, alone |-> FALSE]

NoCascade == [pc |-> "idle", name |-> None, keys |-> {}, found |-> FALSE, ok |-> TRUE,
              clean |-> FALSE]

Spent == [provisions : 0..MaxProvisions, deletes : 0..MaxDeletes, edits : 0..MaxEdits,
          failures : 0..MaxFailures]

\* Every value is of its kind.
TypeOK ==
  /\ identity \in [Ids -> {"none", "live", "gone"}]
  /\ trait \in [Ids -> Names \cup {None}]
  /\ bot \in [Names -> Ids \cup {None}]
  /\ account \in [Names -> Ids \cup {None}]
  /\ owner \in [Keys -> Ids \cup {None}]
  /\ grant \in [Ids -> Names \cup {None}]
  /\ prov \in [Workers -> Provisioning]
  /\ cascade \in [Ids -> Cascade]
  /\ minting \subseteq Ids
  /\ spent \in Spent
  /\ \A p \in Workers : prov[p].pc # "idle" => prov[p].who # None
  /\ \A p \in Workers : prov[p].pc = "persist" => prov[p].login # None
  /\ \A i \in Ids : cascade[i].pc \notin {"idle", "kept"} => cascade[i].name # None

Init ==
  /\ identity = [i \in Ids |-> "none"]
  /\ trait = [i \in Ids |-> None]
  /\ bot = [n \in Names |-> None]
  /\ account = [n \in Names |-> None]
  /\ owner = [k \in Keys |-> None]
  /\ grant = [i \in Ids |-> None]
  /\ prov = [p \in Workers |-> NoProvisioning]
  /\ cascade = [i \in Ids |-> NoCascade]
  /\ minting = {}
  /\ spent = [provisions |-> 0, deletes |-> 0, edits |-> 0, failures |-> 0]

-----------------------------------------------------------------------------
(* Names                                                                   *)

\* giteaUsernameForIdentity: the stored login, else the local part of the email.
Derived(i, t) == IF t = None THEN Local[i] ELSE t

\* Mutant of Taken: the email of the account is not compared.
NobodyElses(i, n) == FALSE

\* The candidate is another identity's account.
Taken(i, n) == account[n] \notin {None, i}

\* Mutant of Paired: whoever the companion was made for.
AnyCompanion(i, n) == bot[n] # None

\* isBotOwnedBy: the companion of that login was made for this human.
Paired(i, n) == bot[n] = i

Busy(p) == prov[p].pc \notin {"idle", "done"}
Deleting(i) == cascade[i].pc \notin {"idle", "kept", "done"}

CanUse(what, max) == spent[what] < max
Use(what) == spent' = [spent EXCEPT ![what] = @ + 1]

\* A provisioning that something else, or a failure, touches is not alone any more.
Disturbed(ps) ==
  [p \in Workers |-> IF p \in ps THEN [prov[p] EXCEPT !.alone = FALSE] ELSE prov[p]]

Provisions(p, next) == prov' = [prov EXCEPT ![p] = next]
Cascades(i, next) == cascade' = [cascade EXCEPT ![i] = next]

-----------------------------------------------------------------------------
(* What people do                                                          *)

\* POST /admin/users, with or without a username, or a signup through Google.
Create(i, t) ==
  /\ identity[i] = "none"
  /\ identity' = [identity EXCEPT ![i] = "live"]
  /\ trait' = [trait EXCEPT ![i] = t]
  /\ prov' = Disturbed(Workers)
  /\ UNCHANGED <<bot, account, owner, grant, cascade, minting, spent>>

\* POST /admin/users/:id replaces the traits; a username left out is removed.
Rename(i, t) ==
  /\ identity[i] = "live"
  /\ CanUse("edits", MaxEdits)
  /\ trait' = [trait EXCEPT ![i] = t]
  /\ prov' = Disturbed(Workers)
  /\ Use("edits")
  /\ UNCHANGED <<identity, bot, account, owner, grant, cascade, minting>>

\* A project is shared with a user: the login is stored with the grant.
Grant(i) ==
  /\ identity[i] = "live"
  /\ CanUse("edits", MaxEdits)
  /\ grant' = [grant EXCEPT ![i] = Derived(i, trait[i])]
  /\ Use("edits")
  /\ UNCHANGED <<identity, trait, bot, account, owner, prov, cascade, minting>>

\* POST /keys: the session is checked, then a role is read, then the key is made.
BeginKey(i) ==
  /\ identity[i] = "live"
  /\ i \notin minting
  /\ CanUse("edits", MaxEdits)
  /\ minting' = minting \cup {i}
  /\ Cascades(i, [cascade[i] EXCEPT !.clean = FALSE])
  /\ Use("edits")
  /\ UNCHANGED <<outside, prov>>

CreateKey(i, k) ==
  /\ i \in minting
  /\ owner[k] = None
  /\ minting' = minting \ {i}
  /\ owner' = [owner EXCEPT ![k] = i]
  /\ UNCHANGED <<identity, trait, bot, account, grant, prov, cascade, spent>>

\* POST /keys/:keyId/revoke.
RevokeKey(i, k) ==
  /\ identity[i] = "live"
  /\ owner[k] = i
  /\ owner' = [owner EXCEPT ![k] = None]
  /\ UNCHANGED <<identity, trait, bot, account, grant, prov, cascade, minting, spent>>

-----------------------------------------------------------------------------
(* ensureProvisioned                                                       *)

\* The admin's create, the registration hook or the first page: the identity is read.
Provision(p, i) ==
  /\ ~Busy(p)
  /\ identity[i] = "live"
  /\ CanUse("provisions", MaxProvisions)
  /\ prov' = [Disturbed(Workers) EXCEPT ![p] =
       [NoProvisioning EXCEPT !.pc = "probe", !.who = i, !.mem = trait[i],
          !.alone = /\ \A q \in Workers : ~Busy(q)
                    /\ \A j \in Ids : ~Deleting(j)]]
  /\ Cascades(i, [cascade[i] EXCEPT !.clean = FALSE])
  /\ Use("provisions")
  /\ UNCHANGED <<outside, minting>>

\* resolveGiteaUsername: what becomes of a choice.  The same login is not written again.
Chosen(p, n) ==
  [prov[p] EXCEPT !.login = n, !.pc = IF n = prov[p].mem THEN "findBot" ELSE "persist"]

Base(p) == Derived(prov[p].who, prov[p].mem)
Candidates(p) == Suffixed[Base(p)]

\* resolveGiteaUsername looks at one candidate: free or its own is chosen.
Probe(p) ==
  /\ prov[p].pc = "probe"
  /\ LET n == Candidates(p)[prov[p].try] IN
     \/ /\ ~Taken(prov[p].who, n)
        /\ Provisions(p, Chosen(p, n))
     \/ /\ Taken(prov[p].who, n)
        /\ Provisions(p, IF prov[p].try < Len(Candidates(p))
                           THEN [prov[p] EXCEPT !.try = @ + 1]
                           ELSE [prov[p] EXCEPT !.pc = "findBot"])
  /\ UNCHANGED <<outside, cascade, minting, spent>>

\* updateIdentityTraits, and the copy in memory after it.
Persist(p) ==
  LET i == prov[p].who IN
  /\ prov[p].pc = "persist"
  /\ identity[i] = "live"
  /\ trait' = [trait EXCEPT ![i] = prov[p].login]
  /\ Provisions(p, [prov[p] EXCEPT !.pc = "findBot", !.mem = prov[p].login])
  /\ UNCHANGED <<identity, bot, account, owner, grant, cascade, minting, spent>>

\* It is refused for an identity that is gone, or for a login another identity has stored
\* (whether Kratos refuses that is not in the repository: both are allowed).
PersistRefused(p) ==
  LET i == prov[p].who IN
  /\ prov[p].pc = "persist"
  /\ \/ identity[i] # "live"
     \/ \E j \in Ids \ {i} : identity[j] = "live" /\ trait[j] = prov[p].login
  /\ Provisions(p, [prov[p] EXCEPT !.pc = "findBot", !.alone = FALSE])
  /\ UNCHANGED <<outside, cascade, minting, spent>>

\* ensureBotForHuman: an existing identity is adopted or refused, none is created.
FindBot(p) ==
  /\ prov[p].pc = "findBot"
  /\ Provisions(p, [prov[p] EXCEPT
       !.pc = IF bot[Base(p)] = None THEN "createBot" ELSE "findAccount"])
  /\ UNCHANGED <<outside, cascade, minting, spent>>

\* createIdentity for the bot: 409 if there is one by now, which is looked up and kept.
CreateBot(p) ==
  /\ prov[p].pc = "createBot"
  /\ bot' = IF bot[Base(p)] = None THEN [bot EXCEPT ![Base(p)] = prov[p].who] ELSE bot
  /\ Provisions(p, [prov[p] EXCEPT !.pc = "findAccount"])
  /\ UNCHANGED <<identity, trait, account, owner, grant, cascade, minting, spent>>

\* ensureUser looks: an account of that login ends it, its own quietly, another's with an error.
FindAccount(p) ==
  /\ prov[p].pc = "findAccount"
  /\ Provisions(p, [prov[p] EXCEPT !.pc = IF account[Base(p)] = None THEN "create" ELSE "done"])
  /\ UNCHANGED <<outside, cascade, minting, spent>>

\* Gitea refuses a login that is taken and an email that already has an account.
Admits(i, n) == account[n] = None /\ \A m \in Names : account[m] # i

\* ensureUser creates.
CreateAccount(p) ==
  /\ prov[p].pc = "create"
  /\ account' = IF Admits(prov[p].who, Base(p))
                  THEN [account EXCEPT ![Base(p)] = prov[p].who] ELSE account
  /\ Provisions(p, [prov[p] EXCEPT !.pc = "done"])
  /\ UNCHANGED <<identity, trait, bot, owner, grant, cascade, minting, spent>>

\* A call fails.  The probe falls back on the base; every other step gives way to the next.
AfterFailure(p) ==
  CASE prov[p].pc = "probe" -> [Chosen(p, Base(p)) EXCEPT !.alone = FALSE]
    [] prov[p].pc = "persist" -> [prov[p] EXCEPT !.pc = "findBot", !.alone = FALSE]
    [] prov[p].pc \in {"findBot", "createBot"} ->
         [prov[p] EXCEPT !.pc = "findAccount", !.alone = FALSE]
    [] prov[p].pc \in {"findAccount", "create"} ->
         [prov[p] EXCEPT !.pc = "done", !.alone = FALSE]

ProvisionFails(p) ==
  /\ Busy(p)
  /\ CanUse("failures", MaxFailures)
  /\ Provisions(p, AfterFailure(p))
  /\ Use("failures")
  /\ UNCHANGED <<outside, cascade, minting>>

-----------------------------------------------------------------------------
(* deleteUserCascade                                                       *)

\* The user has no account but of the login the cascade works with, and nothing under way.
Orderly(i) ==
  /\ i \notin minting
  /\ \A p \in Workers : Busy(p) => prov[p].who # i
  /\ \A n \in Names : account[n] = i => n = Derived(i, trait[i])

\* POST /admin/users/:id/delete reads the identity.  A kept one can be deleted again.
Delete(i) ==
  /\ ~Deleting(i)
  /\ identity[i] = "live"
  /\ CanUse("deletes", MaxDeletes)
  /\ Cascades(i, [NoCascade EXCEPT !.pc = "data", !.name = Derived(i, trait[i]),
                    !.clean = Orderly(i)])
  /\ prov' = Disturbed(Workers)
  /\ Use("deletes")
  /\ UNCHANGED <<outside, minting>>

\* Steps 1 to 3 (projects, groups, memberships) end with deleteUserGrants.
DropGrants(i) ==
  /\ cascade[i].pc = "data"
  /\ grant' = [grant EXCEPT ![i] = None]
  /\ Cascades(i, [cascade[i] EXCEPT !.pc = "listKeys"])
  /\ UNCHANGED <<identity, trait, bot, account, owner, prov, minting, spent>>

ListKeys(i) ==
  /\ cascade[i].pc = "listKeys"
  /\ Cascades(i, [cascade[i] EXCEPT !.pc = "revoke", !.keys = {k \in Keys : owner[k] = i}])
  /\ UNCHANGED <<outside, prov, minting, spent>>

\* Mutant of Keeping: the failure is listed and does not keep the identity.
OnlyListed(c) == c

\* What a failure on a credential leaves behind: the identity will be kept.
Keeping(c) == [c EXCEPT !.ok = FALSE]

\* deleteClient of every listed key; one that is gone by now is an error too.
RevokeKeys(i) ==
  LET c == [cascade[i] EXCEPT !.pc = "findBot"] IN
  /\ cascade[i].pc = "revoke"
  /\ owner' = [k \in Keys |-> IF k \in c.keys THEN None ELSE owner[k]]
  /\ Cascades(i, IF \E k \in c.keys : owner[k] = None THEN Keeping(c) ELSE c)
  /\ UNCHANGED <<identity, trait, bot, account, grant, prov, minting, spent>>

FindPaired(i) ==
  /\ cascade[i].pc = "findBot"
  /\ Cascades(i, [cascade[i] EXCEPT !.pc = "purge", !.found = Paired(i, cascade[i].name)])
  /\ UNCHANGED <<outside, prov, minting, spent>>

\* The gate on step 7.
Gated(c) == [c EXCEPT !.pc = IF ~c.ok THEN "kept" ELSE IF c.found THEN "dropBot" ELSE "dropHuman"]

\* deleteGiteaUser by login.  The bot's login has no account: ensureUser is never called
\* for a name that ends in .bot, and a 404 is success.
Purge(i) ==
  /\ cascade[i].pc = "purge"
  /\ account' = [account EXCEPT ![cascade[i].name] = None]
  /\ Cascades(i, Gated(cascade[i]))
  /\ UNCHANGED <<identity, trait, bot, owner, grant, prov, minting, spent>>

DropBot(i) ==
  /\ cascade[i].pc = "dropBot"
  /\ bot' = [bot EXCEPT ![cascade[i].name] = None]
  /\ Cascades(i, [cascade[i] EXCEPT !.pc = "dropHuman"])
  /\ UNCHANGED <<identity, trait, account, owner, grant, prov, minting, spent>>

DropHuman(i) ==
  /\ cascade[i].pc = "dropHuman"
  /\ identity' = [identity EXCEPT ![i] = "gone"]
  /\ Cascades(i, [cascade[i] EXCEPT !.pc = "done"])
  /\ UNCHANGED <<trait, bot, account, owner, grant, prov, minting, spent>>

\* A call fails: only keys and Gitea accounts keep the identity, and the failure to look
\* up the bot is taken for there being none.
Skipped(c) ==
  CASE c.pc = "data" -> [c EXCEPT !.pc = "listKeys"]
    [] c.pc \in {"listKeys", "revoke"} -> Keeping([c EXCEPT !.pc = "findBot"])
    [] c.pc = "findBot" -> [c EXCEPT !.pc = "purge"]
    [] c.pc = "purge" -> Gated(Keeping(c))
    [] c.pc = "dropBot" -> [c EXCEPT !.pc = "dropHuman"]
    [] c.pc = "dropHuman" -> [c EXCEPT !.pc = "kept"]

DeleteFails(i) ==
  /\ Deleting(i)
  /\ CanUse("failures", MaxFailures)
  /\ Cascades(i, Skipped(cascade[i]))
  /\ Use("failures")
  /\ UNCHANGED <<outside, prov, minting>>

-----------------------------------------------------------------------------

\* The portal restarts: what was under way is forgotten.
Restart ==
  /\ CanUse("failures", MaxFailures)
  /\ prov' = [p \in Workers |-> NoProvisioning]
  /\ cascade' = [i \in Ids |-> IF Deleting(i) THEN NoCascade ELSE cascade[i]]
  /\ minting' = {}
  /\ Use("failures")
  /\ UNCHANGED outside

Next ==
  \/ \E i \in Ids, t \in Given : Create(i, t) \/ Rename(i, t)
  \/ \E i \in Ids :
       \/ Grant(i) \/ BeginKey(i)
       \/ \E k \in Keys : CreateKey(i, k) \/ RevokeKey(i, k)
       \/ \E p \in Workers : Provision(p, i)
       \/ Delete(i) \/ DropGrants(i) \/ ListKeys(i) \/ RevokeKeys(i) \/ FindPaired(i)
       \/ Purge(i) \/ DropBot(i) \/ DropHuman(i) \/ DeleteFails(i)
  \/ \E p \in Workers :
       \/ Probe(p) \/ Persist(p) \/ PersistRefused(p) \/ FindBot(p) \/ CreateBot(p)
       \/ FindAccount(p) \/ CreateAccount(p) \/ ProvisionFails(p)
  \/ Restart

Spec == Init /\ [][Next]_vars

-----------------------------------------------------------------------------
(* Properties                                                              *)

\* The identity is deleted last because it is the only handle on the rest: when it is gone,
\* no API key and no Gitea account of the user is left, whichever calls failed and however
\* often the delete was repeated; provided the user did nothing beside the cascade and had
\* no account under another login.  (With the types of the variables.)
CredentialsGoFirst ==
  /\ TypeOK
  /\ \A i \in Ids : identity[i] = "gone" /\ cascade[i].clean =>
       (\A k \in Keys : owner[k] # i) /\ (\A n \in Names : account[n] # i)

\* A companion is deleted only by the cascade of the human it was made for, whatever logins
\* were given, taken away and given again in between.
BotsOfOthersSurvive ==
  [][\A n \in Names : bot[n] # None /\ bot'[n] # bot[n] => cascade[bot[n]].pc = "dropBot"]_vars

\* When a provisioning ran alone, the login that every later reader derives is not another
\* identity's account, and it is the identity's own unless Gitea has its email under
\* another login; in whatever state earlier failures, deletions and edits left the systems.
ResolvedIsOwn ==
  \A p \in Workers :
    LET i == prov[p].who
        n == Derived(i, trait[i]) IN
    prov[p].pc = "done" /\ prov[p].alone /\ prov[p].login # None =>
      /\ account[n] \in {None, i}
      /\ account[n] = i \/ \E m \in Names : account[m] = i
=============================================================================
