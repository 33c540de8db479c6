-------------------------- MODULE ClientAudiences ---------------------------
(* The audiences that an OAuth client may ask Hydra for: its allowlist,    *)
(* which three handlers of the portal edit over Hydra's admin API, and the *)
(* memo that spares most authorizations the trip.  The facade of           *)
(* routes/mcp.ts, planMcpAuthorize of services/mcp-facade.ts,              *)
(* createEnsureClientAudience of services/mcp-client-audience.ts and the   *)
(* registration proxy of routes/mcp.ts.  A step is what happens between    *)
(* two awaits, or one call's effect.                                       *)
(***************************************************************************)
EXTENDS Naturals, Sequences, FiniteSets

CONSTANTS
  Clients,
  Slugs,         \* projects there may be; a slug stands for its audience, too
  Platform,      \* the audience of the portal's own MCP server
  Malformed,     \* a resource that is not canonical, or not of this deployment
  Facades, Edits,   \* authorizations and registration requests at once (bounds)
  Nobody, Unknown,
  ResourceLists, \* the `resource` parameters of an authorization
  Bodies,        \* the audiences that a client puts into its own registration
  MaxAudiences   \* maxAudiences

ASSUME ClientAudiencesAssumption ==
  /\ Platform \notin Slugs /\ {Malformed, Unknown} \cap (Slugs \cup {Platform}) = {}
  /\ Nobody \notin Clients /\ MaxAudiences \in Nat \ {0}
  /\ ResourceLists \subseteq Seq(Slugs \cup {Platform, Malformed})
  /\ Bodies \subseteq SUBSET (Slugs \cup {Platform})

VARIABLES
  exists,  \* slugs with a row in `projects`
  life,    \* of each client: "new", "live" or "gone"; Hydra never reuses an id
  allow,   \* Hydra: how often each audience stands in the client's allowlist
  memo,    \* the pairs that need not be checked
  facade,
  edit,    \* POST, PUT and DELETE /oauth2/register
  raced,   \* history: clients whose list was replaced by one that another writer had outdated
  absent   \* history: slugs that had no project at some time

listVars == <<exists, life, allow, memo, facade, edit, raced, absent>>

Audiences == Slugs \cup {Platform}
Bag == [Audiences -> Nat]
EmptyBag == [a \in Audiences |-> 0]
In(n) == {a \in Audiences : n[a] > 0}
Once(A) == [a \in Audiences |-> IF a \in A THEN 1 ELSE 0]
Size(n) == Cardinality(UNION {{a} \X (1..n[a]) : a \in Audiences})

\* `seen`: the list that was read, while it matters; `stale`: somebody changed it since.
Facade == [pc : {"idle", "memo", "read", "append", "seed", "ask", "set"},
           client : Clients \cup {Nobody}, aud : Audiences \cup {Unknown},
           seen : Bag, ask : SUBSET Audiences, stale : BOOLEAN]
NoFacade == [pc |-> "idle", client |-> Nobody, aud |-> Unknown, seen |-> EmptyBag,
             ask |-> {}, stale |-> FALSE]
Edit == [op : {"idle", "put", "delete"}, client : Clients \cup {Nobody},
         list : SUBSET Audiences, merged : BOOLEAN, stale : BOOLEAN]
NoEdit == [op |-> "idle", client |-> Nobody, list |-> {}, merged |-> FALSE, stale |-> FALSE]

ListTypeOK ==
  /\ exists \in SUBSET Slugs /\ absent \in SUBSET Slugs
  /\ life \in [Clients -> {"new", "live", "gone"}]
  /\ allow \in [Clients -> Bag] /\ memo \in SUBSET (Clients \X Audiences)
  /\ facade \in [Facades -> Facade] /\ edit \in [Edits -> Edit]
  /\ raced \in SUBSET Clients

\* Some clients are older than the facade and have no allowlist.
ListInit ==
  /\ exists \in SUBSET Slugs /\ absent = Slugs \ exists
  /\ life \in [Clients -> {"new", "live"}] /\ allow = [c \in Clients |-> EmptyBag]
  /\ memo = {} /\ raced = {}
  /\ facade = [f \in Facades |-> NoFacade] /\ edit = [e \in Edits |-> NoEdit]

-----------------------------------------------------------------------------
\* A change of c's list outdates what others have read of it.
OutdatedFacades(F, c) == [f \in Facades |->
  IF F[f].client = c /\ F[f].pc \in {"seed", "ask"} THEN [F[f] EXCEPT !.stale = TRUE] ELSE F[f]]
OutdatedEdits(E, c) == [e \in Edits |->
  IF E[e].client = c THEN [E[e] EXCEPT !.stale = TRUE] ELSE E[e]]

\* selectMcpAudience and canonicalMcpAudience: none is the platform, one is itself,
\* more are refused; there is no way from a malformed one to the platform.
Select(resources) ==
  IF resources = <<>> THEN Platform
  ELSE IF Len(resources) > 1 \/ resources[1] = Malformed THEN Unknown ELSE resources[1]

\* GET /oauth2/mcp-authorize, until the project is known to exist.
Authorize(f, c, resources) ==
  LET aud == Select(resources) IN
  /\ facade[f].pc = "idle"
  /\ aud # Unknown /\ (aud \in Slugs => aud \in exists)
  /\ facade' = [facade EXCEPT ![f] = [NoFacade EXCEPT !.pc = "memo", !.client = c, !.aud = aud]]
  /\ UNCHANGED <<exists, life, allow, memo, edit, raced, absent>>

\* ensureClientAudience: known to be there, or Hydra is asked.
Recall(f) ==
  /\ facade[f].pc = "memo"
  /\ facade' = [facade EXCEPT ![f] =
       IF <<facade[f].client, facade[f].aud>> \in memo THEN NoFacade ELSE [@ EXCEPT !.pc = "read"]]
  /\ UNCHANGED <<exists, life, allow, memo, edit, raced, absent>>

\* The list has the audience, or is full, or absent, or gets an entry more.
Read(f) ==
  LET c == facade[f].client
      full == Size(allow[c]) >= MaxAudiences
  IN /\ facade[f].pc = "read" /\ life[c] = "live"
     /\ facade' = [facade EXCEPT ![f] =
          IF facade[f].aud \in In(allow[c]) THEN [@ EXCEPT !.pc = "set"]
          ELSE IF full THEN [@ EXCEPT !.pc = "ask", !.seen = allow[c], !.ask = In(allow[c])]
          ELSE [@ EXCEPT !.pc = IF allow[c] = EmptyBag THEN "seed" ELSE "append"]]
     /\ UNCHANGED <<exists, life, allow, memo, edit, raced, absent>>

\* isStale, of one audience after another, and the cap.
AskStale(f, a) ==
  LET gone == a \in Slugs \ exists
      kept == [facade[f].seen EXCEPT ![a] = IF gone THEN 0 ELSE @]
      left == facade[f].ask \ {a}
  IN /\ facade[f].pc = "ask" /\ a \in facade[f].ask
     /\ facade' = [facade EXCEPT ![f] =
          IF left # {} THEN [@ EXCEPT !.seen = kept, !.ask = left]
          ELSE IF Size(kept) >= MaxAudiences THEN NoFacade
          ELSE [@ EXCEPT !.seen = kept, !.ask = {}]]
     /\ UNCHANGED <<exists, life, allow, memo, edit, raced, absent>>

\* An entry more in the list that IS there; or the list as it was read, whole.
OneMore(list, a) == [list EXCEPT ![a] = @ + 1]
Patch(f) ==
  LET c == facade[f].client
      whole == facade[f].pc # "append"
  IN /\ facade[f].pc \in {"append", "seed", "ask"} /\ facade[f].ask = {}
     /\ life[c] = "live"
     /\ allow' = [allow EXCEPT ![c] = OneMore(IF whole THEN facade[f].seen ELSE @, facade[f].aud)]
     /\ raced' = IF whole /\ facade[f].stale THEN raced \cup {c} ELSE raced
     /\ facade' = OutdatedFacades([facade EXCEPT ![f] =
          [NoFacade EXCEPT !.pc = "set", !.client = c, !.aud = facade[f].aud]], c)
     /\ edit' = OutdatedEdits(edit, c)
     /\ UNCHANGED <<exists, life, memo, absent>>

\* The entry is remembered, unless the memo is full; the browser is sent on.
Memoize(f) ==
  LET c == facade[f].client IN
  /\ facade[f].pc = "set"
  /\ \/ /\ memo' = memo \cup {<<c, facade[f].aud>>}
        \* who writes the list without having read it did not know of this entry
        /\ edit' = [e \in Edits |-> IF edit[e].client = c /\ ~edit[e].merged
                                    THEN [edit[e] EXCEPT !.stale = TRUE] ELSE edit[e]]
     \/ UNCHANGED <<memo, edit>>
  /\ facade' = [facade EXCEPT ![f] = NoFacade]
  /\ UNCHANGED <<exists, life, allow, raced, absent>>

\* A call fails (the client may be gone): 502, and nothing is remembered.
FacadeFails(f) ==
  /\ facade[f].pc \in {"read", "append", "seed", "ask", "set"}
  /\ facade' = [facade EXCEPT ![f] = NoFacade]
  /\ UNCHANGED <<exists, life, allow, memo, edit, raced, absent>>

Expire(c, a) ==
  /\ <<c, a>> \in memo /\ memo' = memo \ {<<c, a>>}
  /\ UNCHANGED <<exists, life, allow, facade, edit, raced, absent>>

-----------------------------------------------------------------------------
\* proxyRegister.  Registration: Hydra makes the client.
Register(c, body) ==
  /\ life[c] = "new"
  /\ life' = [life EXCEPT ![c] = "live"]
  /\ allow' = [allow EXCEPT ![c] = Once(body \cup {Platform})]
  /\ UNCHANGED <<exists, memo, facade, edit, raced, absent>>

Remembers(c) == memo    \* a mutant: the memo survives the update
Forget(c) == memo \ ({c} \X Audiences)

\* An update: what is allowed now is read, or cannot be; then the memo is forgotten,
\* and the whole client will be replaced.
Update(e, c, body) ==
  /\ edit[e] = NoEdit
  /\ \/ /\ life[c] = "live"
        /\ edit' = [edit EXCEPT ![e] = [NoEdit EXCEPT !.op = "put", !.client = c, !.merged = TRUE,
                                        !.list = body \cup {Platform} \cup In(allow[c])]]
     \/ edit' = [edit EXCEPT ![e] = [NoEdit EXCEPT !.op = "put", !.client = c,
                                        !.list = body \cup {Platform}]]
  /\ memo' = Forget(c)
  /\ UNCHANGED <<exists, life, allow, facade, raced, absent>>
Delete(e, c) ==
  /\ edit[e] = NoEdit
  /\ edit' = [edit EXCEPT ![e] = [NoEdit EXCEPT !.op = "delete", !.client = c]]
  /\ memo' = Forget(c)
  /\ UNCHANGED <<exists, life, allow, facade, raced, absent>>

\* Somebody is about to remember what a list without its audiences makes untrue.
Remembering(c) == \E f \in Facades : facade[f].client = c /\ facade[f].pc = "set"

\* Hydra replaces, or deletes, the client.
Replace(e) ==
  LET c == edit[e].client IN
  /\ edit[e].op \in {"put", "delete"} /\ life[c] = "live"
  /\ allow' = [allow EXCEPT ![c] = IF edit[e].op = "put" THEN Once(edit[e].list) ELSE EmptyBag]
  /\ life' = [life EXCEPT ![c] = IF edit[e].op = "put" THEN "live" ELSE "gone"]
  /\ raced' = IF edit[e].stale \/ (~edit[e].merged /\ Remembering(c)) THEN raced \cup {c} ELSE raced
  /\ facade' = OutdatedFacades(facade, c)
  /\ edit' = OutdatedEdits([edit EXCEPT ![e] = NoEdit], c)
  /\ UNCHANGED <<exists, memo, absent>>
\* Hydra refuses (the registration token, or a client that is gone), or is away.
EditFails(e) ==
  /\ edit[e].op \in {"put", "delete"}
  /\ edit' = [edit EXCEPT ![e] = NoEdit]
  /\ UNCHANGED <<exists, life, allow, memo, facade, raced, absent>>

-----------------------------------------------------------------------------
CreateProject(s) ==
  /\ s \notin exists /\ exists' = exists \cup {s}
  /\ UNCHANGED <<life, allow, memo, facade, edit, raced, absent>>
DeleteProject(s) ==
  /\ s \in exists /\ exists' = exists \ {s} /\ absent' = absent \cup {s}
  /\ UNCHANGED <<life, allow, memo, facade, edit, raced>>
\* What the proxy had sent may still arrive.
RestartFacades ==
  /\ memo' = {} /\ facade' = [f \in Facades |-> NoFacade]
  /\ UNCHANGED <<exists, life, allow, edit, raced, absent>>

ListNext ==
  \/ \E f \in Facades :
       \/ \E c \in Clients, resources \in ResourceLists : Authorize(f, c, resources)
       \/ Recall(f) \/ Read(f) \/ Patch(f) \/ Memoize(f) \/ FacadeFails(f)
       \/ \E a \in Audiences : AskStale(f, a)
  \/ \E c \in Clients, body \in Bodies :
       \/ Register(c, body)
       \/ \E e \in Edits : Update(e, c, body)
  \/ \E e \in Edits :
       \/ Replace(e) \/ EditFails(e)
       \/ \E c \in Clients : Delete(e, c)
  \/ \E c \in Clients, a \in Audiences : Expire(c, a)
  \/ \E s \in Slugs : CreateProject(s) \/ DeleteProject(s)
  \/ RestartFacades

ListSpec == ListInit /\ [][ListNext]_listVars

-----------------------------------------------------------------------------
(* What the memo holds is true: an authorization that is let through       *)
(* without asking Hydra is one that Hydra will accept, whatever            *)
(* authorizations for other audiences ran at the same time (append) and    *)
(* whatever the client did to its registration before (merge, invalidate). *)
(* The exceptions are those that the code leaves open: a whole list        *)
(* written over one that somebody else had changed in between, and the     *)
(* audience of a project that was not there, which a full list drops.        *)
MemoTrue ==
  /\ ListTypeOK
  /\ \A c \in Clients, a \in Audiences :
       <<c, a>> \in memo /\ c \notin raced /\ a \notin absent => allow[c][a] > 0
=============================================================================
