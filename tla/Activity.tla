------------------------------ MODULE Activity ------------------------------
(* The ledger of town activity and the badges that are derived from it:    *)
(* typescript/portal/src/services/achievements.ts, the callers of its      *)
(* recordActivity, the memory of markViewed (routes/site-access.ts) and    *)
(* the retention of index.ts.  A step is a statement's start or its end,   *)
(* or what the portal does between two awaits; time counts UTC days.       *)
(***************************************************************************)
EXTENDS Naturals, FiniteSets

CONSTANTS
  Residents,
  Projects, Owner,  \* the resident who owns each
  NoProject, Stranger,
  Inserts,          \* calls of recordActivity at once (a bound)
  Retention,        \* VIEW_RETENTION_DAYS, unless it is 0 and nothing is pruned
  Streak,           \* the `need` of the badges for activity on different days
  LastDay, MaxCalls \* bounds

Kinds == {"project_view", "project_interaction", "pr_merged"}
NeighborKinds == {"project_view", "project_interaction"}
DayCappedKinds == {"project_view", "project_interaction"}
Badges == {"streak", "explorer"}

ASSUME ActivityAssumption ==
  /\ Owner \in [Projects -> Residents \cup {Stranger}]
  /\ IsFiniteSet(Projects) /\ NoProject \notin Projects /\ Stranger \notin Residents
  /\ Retention \in Nat \ {0} /\ Streak \in Nat \ {0} /\ LastDay \in Nat /\ MaxCalls \in Nat

VARIABLES
  calls,      \* of recordActivity so far (bounded)
  today,
  projects,   \* the projects that exist
  ledger,     \* cv_activity_events: how many rows of each sort
  insert,     \* of each call: the row it is about and how far it is
  viewed,     \* viewedToday
  overlapped, \* history: rows that two statements wanted at the same time
  blurred,    \* history: days on which the memory was lost or a call had come over midnight
  reconcile,  \* maybeReconcile of each resident
  lately,     \* lastReconcile: residents within the cooldown
  award,      \* cv_achievement_grants
  toasts,     \* history: how often each badge was announced
  earnedOnce  \* history: what was earned at some time

activityVars == <<calls, today, projects, ledger, insert, viewed, overlapped, blurred,
                  reconcile, lately, award, toasts, earnedOnce>>
rowVars == <<calls, today, projects, ledger, insert, viewed, overlapped, blurred>>
badgeVars == <<reconcile, lately, award, toasts>>

Rows == [kind : Kinds, actor : Residents, project : Projects \cup {NoProject}, day : 0..LastDay]
RowOf(kind, u, p, d) == [kind |-> kind, actor |-> u, project |-> p, day |-> d]

\* "sent": the database has not begun with it; "begun": it has, and decided whether to store.
NoRow == RowOf("pr_merged", Stranger, NoProject, 0)
Insert == [pc : {"idle", "sent", "begun"}, row : Rows \cup {NoRow}, store : BOOLEAN]
NoInsert == [pc |-> "idle", row |-> NoRow, store |-> FALSE]
Reconciling == [on : BOOLEAN, unread : SUBSET Badges, earned : SUBSET Badges]
NoReconcile == [on |-> FALSE, unread |-> {}, earned |-> {}]

ActivityTypeOK ==
  /\ calls \in 0..MaxCalls /\ today \in 0..LastDay /\ projects \in SUBSET Projects
  /\ ledger \in [Rows -> Nat] /\ insert \in [Inserts -> Insert]
  /\ viewed \in SUBSET (Residents \X Projects \X (0..LastDay))
  /\ overlapped \in SUBSET Rows /\ blurred \in SUBSET (0..LastDay)
  /\ reconcile \in [Residents -> Reconciling]
  /\ lately \in SUBSET Residents
  /\ award \in [Residents -> [Badges -> {"none", "pending", "notified"}]]
  /\ toasts \in [Residents -> [Badges -> Nat]]
  /\ earnedOnce \in SUBSET (Residents \X Badges)

ActivityInit ==
  /\ calls = 0 /\ today = 0 /\ projects = Projects /\ ledger = [r \in Rows |-> 0]
  /\ insert = [i \in Inserts |-> NoInsert] /\ viewed = {} /\ overlapped = {} /\ blurred = {}
  /\ reconcile = [u \in Residents |-> NoReconcile] /\ lately = {}
  /\ award = [u \in Residents |-> [b \in Badges |-> "none"]]
  /\ toasts = [u \in Residents |-> [b \in Badges |-> 0]]
  /\ earnedOnce = {}

-----------------------------------------------------------------------------
\* computeMetrics, a query of each badge's, over whatever rows there are.
Mine(l, u) == {r \in Rows : r.actor = u /\ l[r] > 0}
ActiveDays(l, u) == Cardinality({r.day : r \in Mine(l, u)})
InterDistinct(l, u) ==
  Cardinality({r.project : r \in {q \in Mine(l, u) : q.kind = "project_interaction"}} \ {NoProject})
EarnedIn(l, u, b) ==
  \/ b = "streak" /\ ActiveDays(l, u) >= Streak
  \/ b = "explorer" /\ InterDistinct(l, u) >= 1
Remark(l) == earnedOnce' = earnedOnce \cup {p \in Residents \X Badges : EarnedIn(l, p[1], p[2])}

\* recordActivity: a neighbor's event is never one's own.
Send(i, kind, u, p) ==
  /\ insert[i] = NoInsert /\ p \in projects
  /\ calls < MaxCalls /\ calls' = calls + 1
  /\ kind \in NeighborKinds => Owner[p] # u
  /\ insert' = [insert EXCEPT ![i] =
       [pc |-> "sent", row |-> RowOf(kind, u, p, today), store |-> FALSE]]

\* The site check has admitted somebody; markViewed lets one view a day through.
View(i, u, p) ==
  /\ Send(i, "project_view", u, p)
  /\ <<u, p, today>> \notin viewed /\ viewed' = viewed \cup {<<u, p, today>>}
  /\ UNCHANGED <<today, projects, ledger, overlapped, blurred, badgeVars, earnedOnce>>
\* A tool touches a project; a pull request is merged, one's own or a neighbor's.
Act(i, kind, u, p) ==
  /\ Send(i, kind, u, p)
  /\ UNCHANGED <<today, projects, ledger, viewed, overlapped, blurred, badgeVars, earnedOnce>>

Wanting(r) == {i \in Inserts : insert[i].pc = "begun" /\ insert[i].row = r}

\* The statement starts: now() is fixed, and so is what its NOT EXISTS can see.
AnyKind(r) == TRUE    \* a mutant: the cap is lost
Missing(r) ==
  r.kind \in DayCappedKinds => \A d \in r.day..LastDay : ledger[[r EXCEPT !.day = d]] = 0
Starts(i) ==
  LET row == [insert[i].row EXCEPT !.day = today] IN
  /\ insert[i].pc = "sent"
  /\ insert' = [insert EXCEPT ![i] = [pc |-> "begun", row |-> row, store |-> Missing(row)]]
  /\ overlapped' = IF Wanting(row) # {} THEN overlapped \cup {row} ELSE overlapped
  /\ blurred' = IF today # insert[i].row.day THEN blurred \cup {today} ELSE blurred
  /\ UNCHANGED <<calls, today, projects, ledger, viewed, badgeVars, earnedOnce>>
\* It ends: a row more, if it was missing and its project is still there.
Commit(i) ==
  LET r == insert[i].row IN
  /\ insert[i].pc = "begun"
  /\ ledger' = IF insert[i].store /\ r.project \in projects
               THEN [ledger EXCEPT ![r] = @ + 1] ELSE ledger
  /\ insert' = [insert EXCEPT ![i] = NoInsert]
  /\ Remark(ledger')
  /\ UNCHANGED <<calls, today, projects, viewed, overlapped, blurred, badgeVars>>
\* An error is logged and ignored.
InsertFails(i) ==
  /\ insert[i] # NoInsert /\ insert' = [insert EXCEPT ![i] = NoInsert]
  /\ UNCHANGED <<calls, today, projects, ledger, viewed, overlapped, blurred, badgeVars, earnedOnce>>

NextDay ==
  /\ today < LastDay /\ today' = today + 1
  /\ UNCHANGED <<calls, projects, ledger, insert, viewed, overlapped, blurred, badgeVars, earnedOnce>>

\* pruneActivity: on the last day, it depends on the hour.
Views(d) == {r \in Rows : r.kind = "project_view" /\ ledger[r] > 0 /\ r.day + Retention = d}
Prune ==
  /\ \E due \in SUBSET Views(today) :
       LET old == UNION {Views(d) : d \in 0..today - 1} \cup due IN
       ledger' = [r \in Rows |-> IF r \in old THEN 0 ELSE ledger[r]]
  /\ UNCHANGED <<calls, today, projects, insert, viewed, overlapped, blurred, badgeVars, earnedOnce>>

\* on delete set null
ProjectGone(p) ==
  /\ p \in projects /\ projects' = projects \ {p}
  /\ ledger' = [r \in Rows |-> IF r.project = p THEN 0
                               ELSE IF r.project = NoProject
                               THEN ledger[r] + ledger[[r EXCEPT !.project = p]] ELSE ledger[r]]
  /\ UNCHANGED <<calls, today, insert, viewed, overlapped, blurred, badgeVars, earnedOnce>>

\* The memory is full and is cleared; or the portal restarts, and what it had sent goes on.
Forgets == viewed' = {} /\ blurred' = blurred \cup {today}
ClearViewed ==
  /\ Forgets /\ UNCHANGED <<calls, today, projects, ledger, insert, overlapped, badgeVars, earnedOnce>>
RestartLedger ==
  /\ Forgets /\ lately' = {} /\ reconcile' = [u \in Residents |-> NoReconcile]
  /\ UNCHANGED <<calls, today, projects, ledger, insert, overlapped, award, toasts, earnedOnce>>

-----------------------------------------------------------------------------
\* maybeReconcile, on a page of the dashboard: once per cooldown.
Reconcile(u) ==
  /\ u \notin lately /\ ~reconcile[u].on
  /\ lately' = lately \cup {u}
  /\ reconcile' = [reconcile EXCEPT ![u] = [on |-> TRUE, unread |-> Badges, earned |-> {}]]
  /\ UNCHANGED <<rowVars, award, toasts, earnedOnce>>
Cooled(u) ==
  /\ u \in lately /\ lately' = lately \ {u}
  /\ UNCHANGED <<rowVars, reconcile, award, toasts, earnedOnce>>
\* The queries run side by side: each sees the ledger of its own moment.
Query(u, b) ==
  /\ b \in reconcile[u].unread
  /\ reconcile' = [reconcile EXCEPT ![u] =
       [reconcile[u] EXCEPT !.unread = @ \ {b},
                            !.earned = IF EarnedIn(ledger, u, b) THEN @ \cup {b} ELSE @]]
  /\ UNCHANGED <<rowVars, lately, award, toasts, earnedOnce>>
\* ON CONFLICT DO NOTHING; or an error, which is ignored.
Awarded(old) == IF old = "none" THEN "pending" ELSE old
Upsert(u) ==
  /\ reconcile[u].on /\ reconcile[u].unread = {}
  /\ \/ award' = [award EXCEPT ![u] =
          [b \in Badges |-> IF b \in reconcile[u].earned THEN Awarded(@[b]) ELSE @[b]]]
     \/ UNCHANGED award
  /\ reconcile' = [reconcile EXCEPT ![u] = NoReconcile]
  /\ UNCHANGED <<rowVars, lately, toasts, earnedOnce>>
\* takePendingToasts
Toast(u) ==
  LET pending == {b \in Badges : award[u][b] = "pending"} IN
  /\ pending # {}
  /\ award' = [award EXCEPT ![u] = [b \in Badges |-> IF b \in pending THEN "notified" ELSE @[b]]]
  /\ toasts' = [toasts EXCEPT ![u] = [b \in Badges |-> IF b \in pending THEN @[b] + 1 ELSE @[b]]]
  /\ UNCHANGED <<rowVars, reconcile, lately, earnedOnce>>

ActivityNext ==
  \/ \E i \in Inserts :
       \/ \E u \in Residents, p \in Projects :
            \/ View(i, u, p)
            \/ \E kind \in {"project_interaction", "pr_merged"} : Act(i, kind, u, p)
       \/ Starts(i) \/ Commit(i) \/ InsertFails(i)
  \/ \E u \in Residents :
       \/ Reconcile(u) \/ Cooled(u) \/ Upsert(u) \/ Toast(u)
       \/ \E b \in Badges : Query(u, b)
  \/ \E p \in Projects : ProjectGone(p)
  \/ NextDay \/ Prune \/ ClearViewed \/ RestartLedger

ActivitySpec == ActivityInit /\ [][ActivityNext]_activityVars

-----------------------------------------------------------------------------
(* One row of a capped kind per resident, project and UTC day, unless two  *)
(* statements overlapped, which the views of a site do only on a day on    *)
(* which the portal's own memory of them was lost, or a call came over     *)
(* midnight.  What is announced is announced once, and was earned.         *)
OnceEach ==
  /\ ActivityTypeOK
  /\ \A r \in Rows :
       /\ r.kind \in DayCappedKinds /\ r.project # NoProject /\ ledger[r] > 1 => r \in overlapped
       /\ r.kind = "project_view" /\ r \in overlapped => r.day \in blurred
  /\ \A u \in Residents, b \in Badges :
       /\ toasts[u][b] <= 1
       /\ award[u][b] # "none" => <<u, b>> \in earnedOnce

(* "they feed ONLY the popularity counters (never achievements), so        *)
(* pruning old ones is safe for badges" (services/achievements.ts:355):    *)
(* what the retention deletes takes no badge away.                         *)
PruneSafeForBadges ==
  [][projects' = projects =>
       \A u \in Residents, b \in Badges : EarnedIn(ledger, u, b) => EarnedIn(ledger', u, b)]_activityVars
=============================================================================
