------------------------------ MODULE Consent -------------------------------
(* The door of the tokens: /consent of typescript/portal/src/routes/       *)
(* hydra.ts, which every authorization of an OAuth client crosses, with    *)
(* createAudienceFilter of services/audience-filter.ts and the             *)
(* classification of audiences of shared/mcp-resources.ts.  A client may   *)
(* ask for any audiences that stand in its allowlist, and it writes that   *)
(* itself when it registers.  A step is what happens between two awaits.   *)
(***************************************************************************)
EXTENDS SiteGrants, FiniteSets

CONSTANTS
  Challenges, Posts,  \* authorizations, and forms that are being handled (bounds)
  Anybody,            \* no user, or one that nothing else is said of
  Offers,             \* what a client may ask for: sets of audiences
  Undecided

\* Kinds of audience: the platform's, the project's, one of theirs in another spelling,
\* and one that is no MCP resource.
PlatformAud == "platform"
ProjectAud == "project"
OddAud == "odd"
OtherAud == "other"
McpAudiences == {PlatformAud, ProjectAud, OddAud}

ASSUME ConsentAssumption ==
  /\ Anybody \notin Users /\ Undecided \notin Users
  /\ Offers \subseteq SUBSET (McpAudiences \cup {OtherAud})

VARIABLES
  fit,        \* the users that userCanAccessService lets use the client
  sinceFit,   \* history
  challenge,  \* Hydra: who was logged in, what was asked, and what became of it
  post

consentVars == <<fit, sinceFit, challenge, post>>

Challenge == [sub : Users \cup {Anybody}, aud : Offers \cup {{}},
              state : {"none", "open", "granted", "rejected"},
              given : SUBSET (McpAudiences \cup {OtherAud}), by : Users \cup {Anybody}]
NoChallenge == [sub |-> Anybody, aud |-> {}, state |-> "none", given |-> {}, by |-> Anybody]
Post == [pc : {"idle", "load", "service", "toldService", "perm", "toldPerm", "claims",
               "grant", "granted", "reject"},
         user : Users \cup {Anybody}, of : Challenges \cup {Undecided}, deny : BOOLEAN,
         answer : BOOLEAN, age : 0..Delay]
NoPost == [pc |-> "idle", user |-> Anybody, of |-> Undecided, deny |-> FALSE,
           answer |-> FALSE, age |-> 0]

ConsentTypeOK ==
  /\ GrantsTypeOK
  /\ fit \in SUBSET Users /\ sinceFit \in [Users -> 0..Cap]
  /\ challenge \in [Challenges -> Challenge] /\ post \in [Posts -> Post]

ConsentInit ==
  /\ GrantsInit
  /\ fit \in SUBSET Users /\ sinceFit = NeverSince(fit)
  /\ challenge = [k \in Challenges |-> NoChallenge]
  /\ post = [h \in Posts |-> NoPost]

-----------------------------------------------------------------------------
Step(h, pc) == post' = [post EXCEPT ![h] = [@ EXCEPT !.pc = pc, !.answer = FALSE, !.age = 0]]
End(h) == post' = [post EXCEPT ![h] = NoPost]
Asked(h) == challenge[post[h].of].aud

\* A user logs in at Hydra for a client, which sends the browser to /consent.
Ask(k, u, A) ==
  /\ challenge[k].state = "none"
  /\ challenge' = [challenge EXCEPT ![k] =
       [NoChallenge EXCEPT !.sub = u, !.aud = A, !.state = "open"]]
  /\ UNCHANGED <<grantVars, fit, sinceFit, post>>

\* POST /consent/accept or /consent/deny, with somebody's session and CSRF token.
Submit(h, k, u, deny) ==
  /\ post[h] = NoPost /\ challenge[k].state # "none"
  /\ post' = [post EXCEPT ![h] = [NoPost EXCEPT !.pc = "load", !.user = u, !.of = k, !.deny = deny]]
  /\ UNCHANGED <<grantVars, fit, sinceFit, challenge>>

\* loadConsentForSession: Hydra answers; 403 if the challenge is somebody else's.
Owns(h) == challenge[post[h].of].sub = post[h].user
Load(h) ==
  /\ post[h].pc = "load"
  /\ IF ~Owns(h) THEN End(h) ELSE Step(h, IF post[h].deny THEN "reject" ELSE "service")
  /\ UNCHANGED <<grantVars, fit, sinceFit, challenge>>

\* ensureServiceAccess
AnswerService(h) ==
  /\ post[h].pc = "service"
  /\ post' = [post EXCEPT ![h].pc = "toldService", ![h].answer = post[h].user \in fit]
  /\ UNCHANGED <<grantVars, fit, sinceFit, challenge>>

\* One MCP audience at most, in its canonical spelling.
OneResource(A) == Cardinality(A \cap McpAudiences) <= 1 /\ OddAud \notin A
ServiceTold(h) ==
  /\ post[h].pc = "toldService"
  /\ IF ~post[h].answer THEN End(h)
     ELSE Step(h, IF ~OneResource(Asked(h)) THEN "reject"
                  ELSE IF ProjectAud \in Asked(h) THEN "perm" ELSE "claims")
  /\ UNCHANGED <<grantVars, fit, sinceFit, challenge>>

\* filterAccessibleAudiences: a lookup that fails drops the audience.
AnswerAccess(h) ==
  /\ post[h].pc = "perm"
  /\ \E a \in {post[h].user \in permitted, FALSE} :
       post' = [post EXCEPT ![h].pc = "toldPerm", ![h].answer = a]
  /\ UNCHANGED <<grantVars, fit, sinceFit, challenge>>
\* A project that is dropped is a refusal, never a token for less.
DropsNobody(h) == TRUE    \* a mutant: the audience stays, whatever the answer
Kept(h) == post[h].answer
AccessTold(h) ==
  /\ post[h].pc = "toldPerm"
  /\ Step(h, IF Kept(h) THEN "claims" ELSE "reject")
  /\ UNCHANGED <<grantVars, fit, sinceFit, challenge>>

\* buildIdTokenClaims: Kratos answers, or does not.
Claims(h) ==
  /\ post[h].pc = "claims" /\ Step(h, "grant")
  /\ UNCHANGED <<grantVars, fit, sinceFit, challenge>>

\* Hydra takes one decision on a challenge, and the token will say what was granted.
Decide(h, state, given) ==
  /\ challenge[post[h].of].state = "open"
  /\ challenge' = [challenge EXCEPT ![post[h].of] =
       [@ EXCEPT !.state = state, !.given = given, !.by = post[h].user]]
Accept(h) ==
  /\ post[h].pc = "grant"
  /\ Decide(h, "granted", Asked(h))
  /\ Step(h, "granted")
  /\ UNCHANGED <<grantVars, fit, sinceFit>>
Reject(h) ==
  /\ post[h].pc = "reject"
  /\ Decide(h, "rejected", {})
  /\ End(h)
  /\ UNCHANGED <<grantVars, fit, sinceFit>>

\* The browser is sent on; or a call failed, or the challenge was decided: 500.
Leave(h) ==
  /\ post[h].pc \in {"load", "service", "claims", "grant", "granted", "reject"}
  /\ End(h)
  /\ UNCHANGED <<grantVars, fit, sinceFit, challenge>>

-----------------------------------------------------------------------------
\* An admin opens or restricts the service, or changes a role.
Refit(u) ==
  /\ IF u \in fit THEN fit' = fit \ {u} /\ UNCHANGED sinceFit
     ELSE fit' = fit \cup {u} /\ sinceFit' = [sinceFit EXCEPT ![u] = 0]
  /\ UNCHANGED <<grantVars, challenge, post>>
Regrant(u) == (Grant(u) \/ Revoke(u)) /\ UNCHANGED consentVars

ConsentTick ==
  /\ \A h \in Posts :
       post[h].pc # "granted" /\ (post[h].pc # "idle" => post[h].age < Delay)
  /\ post' = [h \in Posts |-> IF post[h].pc = "idle" THEN post[h]
                              ELSE [post[h] EXCEPT !.age = @ + 1]]
  /\ sinceFit' = Later(sinceFit, fit)
  /\ sincePermitted' = Later(sincePermitted, permitted)
  /\ UNCHANGED <<permitted, fit, challenge>>

ConsentNext ==
  \/ \E k \in Challenges :
       \/ \E u \in Users \cup {Anybody}, A \in Offers : Ask(k, u, A)
       \/ \E h \in Posts, u \in Users, deny \in BOOLEAN : Submit(h, k, u, deny)
  \/ \E h \in Posts :
       \/ Load(h) \/ AnswerService(h) \/ ServiceTold(h) \/ AnswerAccess(h) \/ AccessTold(h)
       \/ Claims(h) \/ Accept(h) \/ Reject(h) \/ Leave(h)
  \/ \E u \in Users : Refit(u) \/ Regrant(u)
  \/ ConsentTick

ConsentSpec == ConsentInit /\ [][ConsentNext]_<<grantVars, consentVars>>

-----------------------------------------------------------------------------
Granting == {h \in Posts : post[h].pc = "granted"}
GivenToken == {post[h].user : h \in Granting}
GivenProject == {post[h].user : h \in {g \in Granting : ProjectAud \in Asked(g)}}

ProjectDoor == INSTANCE Staleness WITH
  inside <- GivenProject, since <- sincePermitted, Window <- 3 * Delay
ServiceDoor == INSTANCE Staleness WITH
  inside <- GivenToken, since <- sinceFit, Window <- 4 * Delay

(* A token is for the user who accepted it and names all that was asked    *)
(* for, or nothing is granted; of this deployment's MCP resources it names *)
(* one at most, in the spelling that the servers compare with.             *)
TokensBound ==
  /\ ConsentTypeOK
  /\ \A k \in Challenges : challenge[k].state = "granted" =>
       /\ challenge[k].by = challenge[k].sub
       /\ challenge[k].given = challenge[k].aud
       /\ OneResource(challenge[k].given)

(* Who is given a token for a project had a permission on its site, and    *)
(* was somebody the client is open to, no longer ago than the calls that   *)
(* the handler makes after it asked.                                       *)
TokensInTime == ProjectDoor!Spec /\ ServiceDoor!Spec

(* Consent is given by whom it is for and what it is for, in time.         *)
ConsentBounded == TokensInTime /\ []TokensBound
=============================================================================
