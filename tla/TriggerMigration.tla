------------------------- MODULE TriggerMigration -------------------------
(***************************************************************************)
(* At its start a hub turns the triggers of every deployed project into    *)
(* triggers of the organization, each with a runtime project of its own    *)
(* (migrateLegacyProjectTriggers of src/src/triggers/migration.ts), while  *)
(* another hub may do the same, an older one deploys the project, and      *)
(* somebody saves triggers of the organization. Projects and triggers are  *)
(* those of one organization. A name is a sequence: "n" is <<"n">>, the    *)
(* "n" of project p that found its name taken is <<p, "n">>, and then      *)
(* <<p, "n", 2>>. Which connection a route leads to is EventRouting's.     *)
(***************************************************************************)
EXTENDS Integers, Sequences, FiniteSets

CONSTANTS Hubs,
          Order,     \* the legacy projects, in the order they are listed
          Names,     \* the names authors choose
          Contents,  \* the sequences of triggers a legacy revision may define
          MaxWrites, \* bound on deployments and saves
          MaxCrashes

VARIABLES
  revisions,     \* the revisions of a legacy project: what each defines
  active,        \* its active revision, 0 when it is archived or never deployed
  projectRoutes, \* its project_trigger_routes: the triggers that have one
  migrations,    \* project_trigger_migrations
  triggers,      \* organization_triggers: [id, name, from, routed]
  hubs,          \* [at, todo, occupied, since]; todo is what is left of the list
  writes,        \* deployments and saves so far
  crashes

vars == <<revisions, active, projectRoutes, migrations, triggers, hubs, writes, crashes>>

Projects == {Order[i] : i \in DOMAIN Order}
Elements(s) == {s[i] : i \in DOMAIN s}

\* The projects are listed once each, a revision defines each of its names once.
MigrationAssumption ==
  /\ Order \in Seq(STRING) /\ \A i, j \in DOMAIN Order : Order[i] = Order[j] => i = j
  /\ Names \subseteq Seq(STRING)
  /\ \A c \in Contents : c \in Seq(Names) /\ \A i, j \in DOMAIN c : c[i] = c[j] => i = j
  /\ MaxWrites \in Nat /\ MaxCrashes \in Nat

\* The list is worked off in its order.
Place(p) == CHOOSE i \in DOMAIN Order : Order[i] = p
First(todo) == CHOOSE it \in todo : \A x \in todo : Place(it.project) <= Place(x.project)

Down == [at |-> "down", todo |-> {}, occupied |-> {}, since |-> 0]
Taken == {t.name : t \in triggers}

TypeOK ==
  /\ \A p \in Projects : active[p] \in 0..Len(revisions[p])
  /\ migrations \subseteq Projects
  /\ \A t, u \in triggers : t.id = u.id \/ t.name = u.name => t = u
  /\ \A h \in Hubs : hubs[h].at \in {"down", "listed", "begun", "up", "failed"}
  /\ writes \in 0..MaxWrites /\ crashes \in 0..MaxCrashes

Init ==
  /\ revisions \in [Projects -> {<<c>> : c \in Contents}]
  /\ active = [p \in Projects |-> 1]
  /\ projectRoutes = [p \in Projects |-> Elements(revisions[p][1])]
  /\ migrations = {} /\ triggers = {}
  /\ hubs = [h \in Hubs |-> Down]
  /\ writes = 0 /\ crashes = 0

-----------------------------------------------------------------------------
(* The project whose row a transaction holds, and whether one holds the     *)
(* rows of the organization's triggers.                                     *)
Locked(p) == \E h \in Hubs : hubs[h].at = "begun" /\ First(hubs[h].todo).project = p
NamesLocked == \E h \in Hubs : hubs[h].at = "begun"

Pending(p) == active[p] > 0 /\ p \notin migrations

\* A hub starts: it reads the list once.
List(h) ==
  LET pending == {p \in Projects : Pending(p)} IN
  /\ hubs[h].at = "down"
  /\ hubs' = [hubs EXCEPT ![h] =
       [at |-> IF pending = {} THEN "up" ELSE "listed",
        todo |-> {[project |-> p, revision |-> active[p]] : p \in pending},
        occupied |-> {}, since |-> writes]]
  /\ UNCHANGED <<revisions, active, projectRoutes, migrations, triggers, writes, crashes>>

Passed(hub) ==
  LET left == hub.todo \ {First(hub.todo)} IN
  [hub EXCEPT !.at = IF left = {} THEN "up" ELSE "listed", !.todo = left, !.occupied = {}]
Failed(hub) == [hub EXCEPT !.at = "failed", !.todo = {}, !.occupied = {}]

\* Mutants: nobody asks whether the project was migrated; any revision will do.
NotAsked(p) == FALSE
AnyRevision(item) == TRUE
AlreadyMigrated(p) == p \in migrations
Unchanged(item) == active[item.project] = item.revision

\* Under the project's advisory lock and its row lock: what was migrated meanwhile is
\* passed over, and another active revision than the listed one stops the start.
Begin(h) ==
  LET item == First(hubs[h].todo) IN
  /\ hubs[h].at = "listed" /\ ~Locked(item.project)
  /\ hubs' = [hubs EXCEPT ![h] =
       IF AlreadyMigrated(item.project) THEN Passed(@)
       ELSE IF ~Unchanged(item) THEN Failed(@)
       ELSE [@ EXCEPT !.at = "begun", !.occupied = Taken]]
  /\ UNCHANGED <<revisions, active, projectRoutes, migrations, triggers, writes, crashes>>

\* Mutant: the name as authored.
AsAuthored(occupied, slug, requested) == requested
AvailableMigratedTriggerName(occupied, slug, requested) ==
  LET base == <<slug>> \o requested
      numbered(n) == Append(base, n)
      free == {n \in 2..Cardinality(occupied) + 2 : numbered(n) \notin occupied}
  IN IF requested \notin occupied THEN requested
     ELSE IF base \notin occupied THEN base
     ELSE numbered(CHOOSE n \in free : \A m \in free : n <= m)

\* The names the triggers of a revision get, one after the other.
Named(occupied, slug, requested) ==
  LET given[i \in 0..Len(requested)] ==
        IF i = 0 THEN <<>>
        ELSE Append(given[i - 1],
               AvailableMigratedTriggerName(occupied \cup Elements(given[i - 1]),
                                            slug, requested[i]))
  IN given[Len(requested)]

NextId == Cardinality(triggers)

\* The rest of the transaction. The names were read under a lock on the existing rows
\* only: one that was inserted meanwhile makes it fail.
Commit(h) ==
  LET item == First(hubs[h].todo)
      p == item.project
      requested == revisions[p][item.revision]
      names == Named(hubs[h].occupied, p, requested)
      created == {[id |-> NextId + i, name |-> names[i], from |-> <<p, requested[i]>>,
                   routed |-> requested[i] \in projectRoutes[p]] : i \in DOMAIN names}
  IN
  /\ hubs[h].at = "begun"
  /\ IF Elements(names) \cap Taken # {}
     THEN /\ hubs' = [hubs EXCEPT ![h] = Failed(@)]
          /\ UNCHANGED <<active, projectRoutes, migrations, triggers>>
     ELSE /\ triggers' = triggers \cup created
          /\ migrations' = migrations \cup {p}
          /\ projectRoutes' = [projectRoutes EXCEPT ![p] = {}]
          /\ active' = [active EXCEPT ![p] = 0]
          /\ hubs' = [hubs EXCEPT ![h] = Passed(@)]
  /\ UNCHANGED <<revisions, writes, crashes>>

\* The process ends, its transaction is rolled back; or it is started again.
Crash(h) ==
  /\ hubs[h].at \in {"listed", "begun"} /\ crashes < MaxCrashes
  /\ hubs' = [hubs EXCEPT ![h] = Down]
  /\ crashes' = crashes + 1
  /\ UNCHANGED <<revisions, active, projectRoutes, migrations, triggers, writes>>
Restart(h) ==
  /\ hubs[h].at = "failed"
  /\ hubs' = [hubs EXCEPT ![h] = Down]
  /\ UNCHANGED <<revisions, active, projectRoutes, migrations, triggers, writes, crashes>>

-----------------------------------------------------------------------------
\* A running hub deploys a revision of a legacy project: only of a live one.
Deploy(p) ==
  /\ active[p] > 0 /\ ~Locked(p) /\ writes < MaxWrites
  /\ \E c \in Contents :
       /\ revisions' = [revisions EXCEPT ![p] = Append(@, c)]
       /\ active' = [active EXCEPT ![p] = Len(revisions[p]) + 1]
       /\ projectRoutes' = [projectRoutes EXCEPT ![p] = Elements(c)]
  /\ writes' = writes + 1
  /\ UNCHANGED <<migrations, triggers, hubs, crashes>>

\* A running hub saves a trigger, a new one or over an old one, under the name its
\* document has; a name that another trigger has is refused.
SaveNew ==
  /\ writes < MaxWrites
  /\ \E n \in Names \ Taken, enabled \in BOOLEAN :
       triggers' = triggers \cup
         {[id |-> NextId + 1, name |-> n, from |-> <<>>, routed |-> enabled]}
  /\ writes' = writes + 1
  /\ UNCHANGED <<revisions, active, projectRoutes, migrations, hubs, crashes>>
SaveOld ==
  /\ writes < MaxWrites /\ ~NamesLocked
  /\ \E t \in triggers, n \in Names, enabled \in BOOLEAN :
       /\ \A u \in triggers : u.name = n => u = t
       /\ triggers' = (triggers \ {t}) \cup {[t EXCEPT !.name = n, !.routed = enabled]}
  /\ writes' = writes + 1
  /\ UNCHANGED <<revisions, active, projectRoutes, migrations, hubs, crashes>>

Next ==
  \/ \E h \in Hubs : List(h) \/ Begin(h) \/ Commit(h) \/ Crash(h) \/ Restart(h)
  \/ \E p \in Projects : Deploy(p)
  \/ SaveNew \/ SaveOld

Spec == Init /\ [][Next]_vars

-----------------------------------------------------------------------------
\* The triggers a project's last deployment defined.
Deployed(p) == Elements(revisions[p][Len(revisions[p])])

\* How many serve a trigger: the legacy project, or migrated triggers.
Serving(p, n) ==
  Cardinality({n} \cap projectRoutes[p]) + Cardinality({t \in triggers : t.from = <<p, n>>})

\* However starts, deployments and saves interleave, each trigger of a project's last
\* deployment is served once, by the project or by its migrated trigger, and none that a
\* deployment removed is (migrateProjectTriggers, activateProjectConfigurationRevision).
ServedOnce ==
  \A p \in Projects :
    /\ \A n \in Names : Serving(p, n) = IF n \in Deployed(p) THEN 1 ELSE 0
    /\ p \in migrations <=> active[p] = 0

\* Hubs that start together do not make each other fail: a start fails only when somebody
\* deployed or saved since it listed (migrateLegacyProjectTriggers).
FailsOnlyIfDisturbed ==
  \A h \in Hubs : hubs[h].at = "failed" => hubs[h].since < writes
=============================================================================
