----------------------------- MODULE ToolChannel ----------------------------
(* The door of the portal's own MCP server: GET /mcp of                    *)
(* typescript/portal/src/routes/mcp.ts, a channel that stays open, its     *)
(* places counted by user and in all, its token checked at every           *)
(* heartbeat.  Two memories stand before Hydra: the one of introspectToken *)
(* (services/hydra-introspect.ts), of good tokens only, and the one that   *)
(* the heartbeats share; an entry's life runs from when the question was   *)
(* ASKED.  A step is what happens between two awaits.                      *)
(***************************************************************************)
EXTENDS SiteGrants, FiniteSets

CONSTANTS
  Channels,   \* connections at once (a bound)
  Nobody,
  AnswerTTL,  \* CACHE_TTL_MS, in ticks
  SharedTTL,  \* REINTROSPECT_COALESCE_MS
  BeatEvery,  \* REINTROSPECT_MS
  MaxPerUser, MaxTotal

\* A check is over before the next one is due.
ASSUME ToolChannelAssumption ==
  /\ Nobody \notin Users
  /\ AnswerTTL \in Nat \ {0} /\ SharedTTL \in Nat \ {0} /\ BeatEvery \in Nat
  /\ Delay < AnswerTTL /\ Delay < BeatEvery
  /\ MaxPerUser \in Nat /\ MaxTotal \in Nat
  /\ IsFiniteSet(Channels)

VARIABLES
  good,      \* Hydra: whose tokens are active; none becomes so again
  sinceGood, \* history
  answers,   \* cache of introspectToken: for how long a token is believed to be active
  shared,    \* tokenLiveness: the last answer to a heartbeat, and for how long it is believed
  chan,
  perUser,   \* sseOpenPerUser
  total      \* sseOpenTotal

toolVars == <<good, sinceGood, answers, shared, chan, perUser, total>>

\* `gone`: the client left before anything listened for that.
Chan == [pc : {"idle", "auth", "identity", "beat", "told", "ended"}, user : Users \cup {Nobody},
         answer : BOOLEAN, age : 0..Delay, open : BOOLEAN, timer : 0..BeatEvery, gone : BOOLEAN]
NoChan == [pc |-> "idle", user |-> Nobody, answer |-> FALSE, age |-> 0,
           open |-> FALSE, timer |-> 0, gone |-> FALSE]

ToolTypeOK ==
  /\ good \in SUBSET Users /\ sinceGood \in [Users -> 0..Cap]
  /\ answers \in [Users -> 0..AnswerTTL]
  /\ shared \in [Users -> [active : BOOLEAN, left : 0..SharedTTL]]
  /\ chan \in [Channels -> Chan]
  /\ perUser \in [Users -> 0..MaxPerUser] /\ total \in 0..MaxTotal

Forgotten == [u \in Users |-> 0]
Unshared == [u \in Users |-> [active |-> FALSE, left |-> 0]]
ToolInit ==
  /\ GrantsInit /\ good \in SUBSET Users /\ sinceGood = NeverSince(good)
  /\ answers = Forgotten /\ shared = Unshared /\ chan = [c \in Channels |-> NoChan]
  /\ perUser = Forgotten /\ total = 0

-----------------------------------------------------------------------------
FromArrival(ttl, age) == ttl    \* a mutant: an entry's life runs from the answer
Left(ttl, age) == IF age >= ttl THEN 0 ELSE ttl - age
Freed(n) == IF n > 0 THEN n - 1 ELSE 0

\* The caps, the place taken, and headers that may not be written any more.
Full(u) == total >= MaxTotal \/ perUser[u] >= MaxPerUser
Enter(c, u) ==
  \/ /\ ~Full(u)
     /\ perUser' = [perUser EXCEPT ![u] = @ + 1] /\ total' = total + 1
     /\ chan' = [chan EXCEPT ![c] = [NoChan EXCEPT
          !.user = u, !.open = TRUE, !.timer = BeatEvery, !.gone = chan[c].gone]]
  \/ chan' = [chan EXCEPT ![c] = NoChan] /\ UNCHANGED <<perUser, total>>

\* authenticate: the token, told from memory or by Hydra, and then the identity.
Request(c, u) ==
  /\ chan[c] = NoChan
  /\ \E pc \in IF answers[u] > 0 THEN {"identity"} ELSE {"auth"} :
       chan' = [chan EXCEPT ![c].pc = pc, ![c].user = u]
  /\ UNCHANGED <<grantVars, good, sinceGood, answers, shared, perUser, total>>

\* Hydra answers, or fails, which is as good as "inactive".
Hydra(c) ==
  /\ chan[c].pc \in {"auth", "beat"}
  /\ \E a \in {chan[c].user \in good, FALSE} :
       chan' = [chan EXCEPT ![c].pc = "told", ![c].answer = a]
  /\ UNCHANGED <<grantVars, good, sinceGood, answers, shared, perUser, total>>

Remember(u, a, age) ==
  answers' = IF a THEN [answers EXCEPT ![u] = Left(AnswerTTL, age)] ELSE answers

AuthTold(c) ==
  LET u == chan[c].user
  IN /\ chan[c].pc = "told" /\ ~chan[c].open /\ chan[c].timer = 0
     /\ Remember(u, chan[c].answer, chan[c].age)
     /\ chan' = [chan EXCEPT ![c] =
                   IF @.answer THEN [NoChan EXCEPT !.pc = "identity", !.user = u, !.gone = chan[c].gone]
                   ELSE NoChan]
     /\ UNCHANGED <<grantVars, good, sinceGood, shared, perUser, total>>

\* Kratos answers, or fails, which ends nothing; the token is not looked at again.
Identified(c) ==
  /\ chan[c].pc = "identity" /\ Enter(c, chan[c].user)
  /\ UNCHANGED <<grantVars, good, sinceGood, answers, shared>>

\* A heartbeat's verdict: res.end(), or a keepalive.  Nobody hears the end of a
\* response whose client was gone before.
Verdict(c, ok) ==
  [chan[c] EXCEPT !.pc = IF ok \/ chan[c].gone THEN "idle" ELSE "ended",
                  !.answer = FALSE, !.age = 0]
\* The interval's next callback is due BeatEvery after this one, whatever comes of it.
Beaten(q) == [q EXCEPT !.timer = BeatEvery]

\* coalescedIntrospect
SharedFor(age) == Left(SharedTTL, age)
Heartbeat(c) ==
  LET u == chan[c].user
  IN /\ chan[c].open /\ chan[c].pc = "idle" /\ chan[c].timer = 0
     /\ \/ /\ shared[u].left > 0
           /\ chan' = [chan EXCEPT ![c] = Beaten(Verdict(c, shared[u].active))] /\ UNCHANGED shared
        \/ /\ shared[u].left = 0 /\ answers[u] > 0
           /\ chan' = [chan EXCEPT ![c] = Beaten(Verdict(c, TRUE))]
           /\ shared' = [shared EXCEPT ![u] = [active |-> TRUE, left |-> SharedFor(0)]]
        \/ /\ shared[u].left = 0 /\ answers[u] = 0
           /\ chan' = [chan EXCEPT ![c] = Beaten([@ EXCEPT !.pc = "beat"])] /\ UNCHANGED shared
     /\ UNCHANGED <<grantVars, good, sinceGood, answers, perUser, total>>

BeatTold(c) ==
  LET u == chan[c].user
      a == chan[c].answer
  IN /\ chan[c].pc = "told" /\ chan[c].timer > 0
     /\ Remember(u, a, chan[c].age)
     /\ shared' = [shared EXCEPT ![u] = [active |-> a, left |-> SharedFor(chan[c].age)]]
     /\ chan' = [chan EXCEPT ![c] = IF chan[c].open THEN Verdict(c, a) ELSE NoChan]
     /\ UNCHANGED <<grantVars, good, sinceGood, perUser, total>>

-----------------------------------------------------------------------------
\* The client leaves, or the response is over: `release`, if the listener was there in
\* time.  A heartbeat under way ends by itself.
ReleasesHalf(c) ==    \* a mutant: one of the two counters
  perUser' = [perUser EXCEPT ![chan[c].user] = Freed(@)] /\ UNCHANGED total
Release(c) ==
  perUser' = [perUser EXCEPT ![chan[c].user] = Freed(@)] /\ total' = Freed(total)
Closed(c) ==
  /\ chan[c].open /\ ~chan[c].gone
  /\ Release(c)
  /\ chan' = [chan EXCEPT ![c] = IF @.pc \in {"beat", "told"} THEN [@ EXCEPT !.open = FALSE]
                                 ELSE NoChan]
  /\ UNCHANGED <<grantVars, good, sinceGood, answers, shared>>
LeavesEarly(c) ==
  /\ chan[c].pc \in {"auth", "told", "identity"}
  /\ ~chan[c].open /\ chan[c].timer = 0 /\ ~chan[c].gone
  /\ chan' = [chan EXCEPT ![c].gone = TRUE]
  /\ UNCHANGED <<grantVars, good, sinceGood, answers, shared, perUser, total>>

Invalidate(u) ==
  /\ u \in good /\ good' = good \ {u}
  /\ UNCHANGED <<grantVars, sinceGood, answers, shared, chan, perUser, total>>
\* Either map drops its oldest entry when it is full.
DropOldest(u) ==
  /\ \/ answers' = [answers EXCEPT ![u] = 0] /\ UNCHANGED shared
     \/ shared' = [shared EXCEPT ![u].left = 0] /\ UNCHANGED answers
  /\ UNCHANGED <<grantVars, good, sinceGood, chan, perUser, total>>
RestartPortal ==
  /\ answers' = Forgotten /\ shared' = Unshared /\ chan' = [c \in Channels |-> NoChan]
  /\ perUser' = Forgotten /\ total' = 0
  /\ UNCHANGED <<grantVars, good, sinceGood>>

ToolTick ==
  /\ \A c \in Channels :
       /\ chan[c].pc # "ended"
       /\ chan[c].pc # "idle" => chan[c].age < Delay
       /\ chan[c].open => chan[c].timer > 0
  /\ chan' = [c \in Channels |->
       [chan[c] EXCEPT !.age = IF chan[c].pc = "idle" THEN 0 ELSE @ + 1,
                       !.timer = IF chan[c].open THEN @ - 1 ELSE @]]
  /\ sinceGood' = Later(sinceGood, good)
  /\ answers' = [u \in Users |-> Freed(answers[u])]
  /\ shared' = [u \in Users |-> [shared[u] EXCEPT !.left = Freed(@)]]
  /\ UNCHANGED <<grantVars, good, perUser, total>>

ToolNext ==
  \/ \E c \in Channels :
       \/ \E u \in Users : Request(c, u)
       \/ Hydra(c) \/ AuthTold(c) \/ Identified(c) \/ Heartbeat(c) \/ BeatTold(c)
       \/ Closed(c) \/ LeavesEarly(c)
  \/ \E u \in Users : Invalidate(u) \/ DropOldest(u)
  \/ RestartPortal \/ ToolTick

ToolSpec == ToolInit /\ [][ToolNext]_<<grantVars, toolVars>>

-----------------------------------------------------------------------------
Listening == {chan[c].user : c \in {d \in Channels :
                chan[d].open /\ chan[d].pc # "ended" /\ ~chan[d].gone}}

Longer(m, n) == IF m >= n THEN m ELSE n
ChannelDoor == INSTANCE Staleness WITH
  inside <- Listening, since <- sinceGood,
  Window <- BeatEvery + (AnswerTTL - 1) + Longer(SharedTTL - 1, Delay) + Delay

(* A token that is revoked, or expires, ends its channels within the life  *)
(* of a remembered answer, one heartbeat, the heartbeat's own call, and    *)
(* the longer of two: the call for the identity, which lies between the    *)
(* answer and a channel's opening, and the life of the answer that the     *)
(* heartbeats share, which may be made of a remembered one.                *)
ChannelBounded == ChannelDoor!Spec

(* The places counted are those of the open channels, the ones whose       *)
(* client left during authentication included, which nothing ever gives    *)
(* back: release runs once for each, whichever of the ways out comes       *)
(* first, so that neither cap is exceeded and no place is lost otherwise.  *)
(* (The caps are in the types.)                                            *)
OpenOf(u) == {c \in Channels : chan[c].open /\ chan[c].user = u}
AllOpen == {c \in Channels : chan[c].open}
ChannelsCounted ==
  /\ ToolTypeOK
  /\ \A u \in Users : perUser[u] = Cardinality(OpenOf(u))
  /\ total = Cardinality(AllOpen)
=============================================================================
