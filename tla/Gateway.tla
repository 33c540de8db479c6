------------------------------- MODULE Gateway ------------------------------
(* The door of a project's MCP endpoint: introspect, sitePermission and    *)
(* handleMcp of typescript/mcp-gateway/src/index.ts, and the endpoint      *)
(* /internal/projects/:slug/access/:sub of the portal that it asks.  A     *)
(* connection may stay open for ever and is checked again every Interval;  *)
(* only refusals of a token are remembered.  A step is what happens        *)
(* between two awaits.                                                     *)
(***************************************************************************)
EXTENDS SiteGrants

CONSTANTS
  Streams,   \* connections at once (a bound)
  NoUser,
  Suitable,  \* the users whose token is an access token for this project and of no denied client
  NegTTL,    \* NEG_INTROSPECT_TTL_MS
  Interval   \* STREAM_REVALIDATE_MS

\* A check is over before the next one is due.
ASSUME GatewayAssumption ==
  /\ NoUser \notin Users /\ Suitable \subseteq Users
  /\ NegTTL \in Nat \ {0} /\ Interval \in Nat /\ 2 * Delay < Interval

VARIABLES
  active,      \* Hydra: whose tokens are active; none becomes so again
  sinceActive, \* history
  sinceBad,    \* history: how long ago the token was inactive, or Hydra did not answer for it
  refused,     \* negIntrospectCache: for how long a refusal is believed
  stream

gateVars == <<active, sinceActive, sinceBad, refused, stream>>

Stream == [pc : {"idle", "introspect", "toldToken", "perm", "toldPerm", "refused"},
           user : Users \cup {NoUser}, answer : BOOLEAN, age : 0..Delay,
           open : BOOLEAN, timer : 0..Interval]
NoStream == [pc |-> "idle", user |-> NoUser, answer |-> FALSE, age |-> 0,
             open |-> FALSE, timer |-> 0]

GateTypeOK ==
  /\ GrantsTypeOK
  /\ active \in SUBSET Users
  /\ sinceActive \in [Users -> 0..Cap] /\ sinceBad \in [Users -> 0..Cap]
  /\ refused \in [Users -> 0..NegTTL]
  /\ stream \in [Streams -> Stream]

GateInit ==
  /\ GrantsInit
  /\ active \in SUBSET Users
  /\ sinceActive = NeverSince(active) /\ sinceBad = NeverSince(Users \ active)
  /\ refused = [u \in Users |-> 0]
  /\ stream = [s \in Streams |-> NoStream]

-----------------------------------------------------------------------------
\* What becomes of s when its token is refused: 401, or the stream is torn down.
Refuse(s) ==
  IF stream[s].open THEN NoStream
  ELSE [NoStream EXCEPT !.pc = "refused", !.user = stream[s].user]

\* introspect: from the map, or asked for.
Remembered(u) == refused[u] > 0
Start(s, rec) ==
  IF Remembered(rec.user)
  THEN IF rec.open THEN NoStream ELSE [NoStream EXCEPT !.pc = "refused", !.user = rec.user]
  ELSE [rec EXCEPT !.pc = "introspect", !.age = 0]

Connect(s, u) ==
  /\ stream[s] = NoStream
  /\ stream' = [stream EXCEPT ![s] = Start(s, [NoStream EXCEPT !.user = u])]
  /\ UNCHANGED <<grantVars, active, sinceActive, sinceBad, refused>>

\* The interval's callback.
Revalidate(s) ==
  /\ stream[s].open /\ stream[s].timer = 0 /\ stream[s].pc = "idle"
  /\ stream' = [stream EXCEPT ![s] = Start(s, [stream[s] EXCEPT !.timer = Interval])]
  /\ UNCHANGED <<grantVars, active, sinceActive, sinceBad, refused>>

Introspect(s) ==
  /\ stream[s].pc = "introspect"
  /\ stream' = [stream EXCEPT ![s].pc = "toldToken", ![s].answer = stream[s].user \in active]
  /\ UNCHANGED <<grantVars, active, sinceActive, sinceBad, refused>>
\* Hydra answers with an error, or not at all: as good as "inactive".
IntrospectFails(s) ==
  /\ stream[s].pc = "introspect"
  /\ stream' = [stream EXCEPT ![s].pc = "toldToken", ![s].answer = FALSE]
  /\ sinceBad' = [sinceBad EXCEPT ![stream[s].user] = 0]
  /\ UNCHANGED <<grantVars, active, sinceActive, refused>>

Lifetime == NegTTL
TokenTold(s) ==
  LET u == stream[s].user
  IN /\ stream[s].pc = "toldToken"
     /\ \/ /\ ~stream[s].answer
           /\ refused' = [refused EXCEPT ![u] = Lifetime]
           /\ stream' = [stream EXCEPT ![s] = Refuse(s)]
        \/ /\ stream[s].answer
           /\ stream' = [stream EXCEPT ![s] =
                IF u \in Suitable \/ stream[s].open
                THEN [stream[s] EXCEPT !.pc = "perm", !.age = 0, !.answer = FALSE]
                ELSE NoStream]
           /\ UNCHANGED refused
     /\ UNCHANGED <<grantVars, active, sinceActive, sinceBad>>

\* sitePermission; any failure of it is `none`.
AskPermission(s) ==
  /\ stream[s].pc = "perm"
  /\ \E a \in {stream[s].user \in permitted, FALSE} :
       stream' = [stream EXCEPT ![s].pc = "toldPerm", ![s].answer = a]
  /\ UNCHANGED <<grantVars, active, sinceActive, sinceBad, refused>>

\* The proxy is opened, or goes on; or the request is refused, or the stream torn down.
OnlyTheToken(s) == stream[s].answer \/ stream[s].open    \* a mutant: revalidates the token only
StillValid(s) == stream[s].answer
PermTold(s) ==
  /\ stream[s].pc = "toldPerm"
  /\ stream' = [stream EXCEPT ![s] =
       IF ~StillValid(s) THEN NoStream
       ELSE [stream[s] EXCEPT !.pc = "idle", !.answer = FALSE, !.age = 0, !.open = TRUE,
                              !.timer = IF stream[s].open THEN stream[s].timer ELSE Interval]]
  /\ UNCHANGED <<grantVars, active, sinceActive, sinceBad, refused>>

\* The 401 is sent; the client or the container closes.
Close(s) ==
  /\ stream[s].pc = "refused" \/ stream[s].open
  /\ stream' = [stream EXCEPT ![s] = NoStream]
  /\ UNCHANGED <<grantVars, active, sinceActive, sinceBad, refused>>

-----------------------------------------------------------------------------
Expire(u) ==
  /\ u \in active /\ active' = active \ {u}
  /\ sinceBad' = [sinceBad EXCEPT ![u] = 0]
  /\ UNCHANGED <<grantVars, sinceActive, refused, stream>>
ChangeGrant(u) == (Grant(u) \/ Revoke(u)) /\ UNCHANGED gateVars

Evict(u) ==
  /\ refused[u] > 0 /\ refused' = [refused EXCEPT ![u] = 0]
  /\ UNCHANGED <<grantVars, active, sinceActive, sinceBad, stream>>

Waiting(s) == stream[s].pc \notin {"idle", "refused"}
GateTick ==
  /\ \A s \in Streams :
       /\ stream[s].pc # "refused"
       /\ Waiting(s) => stream[s].age < Delay
       /\ stream[s].open => stream[s].timer > 0
  /\ stream' = [s \in Streams |->
       [stream[s] EXCEPT !.age = IF Waiting(s) THEN @ + 1 ELSE @,
                         !.timer = IF stream[s].open THEN @ - 1 ELSE @]]
  /\ sinceActive' = Later(sinceActive, active)
  /\ sinceBad' = Later(sinceBad, Users \ active)
  /\ sincePermitted' = Later(sincePermitted, permitted)
  /\ refused' = [u \in Users |-> IF refused[u] = 0 THEN 0 ELSE refused[u] - 1]
  /\ UNCHANGED <<permitted, active>>

GateNext ==
  \/ \E s \in Streams :
       \/ \E u \in Users : Connect(s, u)
       \/ Revalidate(s) \/ Introspect(s) \/ IntrospectFails(s) \/ TokenTold(s)
       \/ AskPermission(s) \/ PermTold(s) \/ Close(s)
  \/ \E u \in Users : Expire(u) \/ ChangeGrant(u) \/ Evict(u)
  \/ GateTick

GateSpec == GateInit /\ [][GateNext]_<<grantVars, gateVars>>

-----------------------------------------------------------------------------
Connected == {stream[s].user : s \in {t \in Streams : stream[t].open}}
Refused == {stream[s].user : s \in {t \in Streams : stream[t].pc = "refused"}}

TokenDoor == INSTANCE Staleness WITH
  inside <- Connected, since <- sinceActive, Window <- Interval + 3 * Delay
GrantDoor == INSTANCE Staleness WITH
  inside <- Connected, since <- sincePermitted, Window <- Interval + 3 * Delay
RefusalDoor == INSTANCE Staleness WITH
  inside <- Refused, since <- sinceBad, Window <- NegTTL + Delay - 1

(* A token that is revoked, or expires, ends its streams within the        *)
(* interval and the calls around it; so does a permission that is taken    *)
(* away while the token stays good.  And a token is refused because it was *)
(* inactive, or Hydra did not answer for it, within the lifetime of a      *)
(* remembered refusal and one call: an outage is forgotten soon, however   *)
(* often the client tries.  (With the types of the variables.)             *)
StreamBounded ==
  TokenDoor!Spec /\ GrantDoor!Spec /\ RefusalDoor!Spec /\ []GateTypeOK
=============================================================================
