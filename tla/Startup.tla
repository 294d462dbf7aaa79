---------------------------------- MODULE Startup ----------------------------------
(* What a start of the server does to the database before it answers: the migration of  *)
(* the permissions to features and scopes, then the seeders, each reading and committing *)
(* for itself. There is one server process (main.py) and nobody is served meanwhile; the *)
(* start may die between two commits, or give up, and is tried again. In between,        *)
(* administrators change what was seeded. A database or Redis that cannot be reached     *)
(* ends a start like a crash.                                                            *)
EXTENDS Integers, Sequences, FiniteSets

CONSTANTS Roles,
          SeededRole,                       \* the role with the identity that the seeder gives
          ScopeEntries, LeaveEntries, ReasonEntries,   \* keys of the lists that are seeded
          Titles,
          Features, Late,                   \* the registry, and what of it only the seeder inserts
          CalendarFeatures, TitleFeature,
          FeatureOf,                        \* OLD_MODULE_TO_FEATURE with its fallback, by legacy name
          None,
          Modes                             \* bound: databases to begin with and operations used together

VARIABLES mode,
          stage,       \* how far a start has come
          schema,      \* "empty", "boolean" or "scopes": what role_permissions looks like
          roles,       \* roles[r]: row, code and is_super_admin
          admin,       \* the first employee: row, whether the username is "admin", and its roles
          items,       \* the seeded lists: what became of each key
          titles,      \* task_templates of the default titles
          features,    \* keys of the feature registry
          legacy,      \* legacy[r][m]: can_view of the boolean rows, or "-"
          scopes,      \* scopes[r][f]: view_scope, or "-"
          rule,        \* office hours of the attendance rule
          settings,    \* whether calendar_settings has its row
          touched      \* history: has anything been changed since the last start was over?

tables == <<schema, roles, admin, items, titles, features, legacy, scopes, rule, settings>>
vars == <<mode, stage, tables, touched>>

Entries == ScopeEntries \cup LeaveEntries \cup ReasonEntries
LegacyNames == DOMAIN FeatureOf
AdminCodes == {"ADMIN", "HR"}
Stages == <<"migrate", "role", "employee", "grant", "scopes", "leaveTypes", "rule", "settings",
            "calendar", "titlePermission", "titles", "creators", "reasons", "registry", "up">>
Starting == {Stages[i] : i \in 1..(Len(Stages) - 1)}
After(s) == Stages[1 + CHOOSE i \in DOMAIN Stages : Stages[i] = s]
Proceed == stage' = After(stage)

NoRole == [row |-> FALSE, code |-> None, super |-> FALSE]
HasCode(c) == {r \in Roles : roles[r].row /\ roles[r].code = c}
NoScopes == [r \in Roles |-> [f \in Features |-> "-"]]
NoLegacy == [r \in Roles |-> [m \in LegacyNames |-> "-"]]

\* A new database, or one of an older version with its roles and their permissions.
Init ==
  /\ mode \in Modes
  /\ stage = "down"
  /\ schema = IF mode.old THEN "boolean" ELSE "empty"
  /\ roles = IF mode.old THEN mode.roles ELSE [r \in Roles |-> NoRole]
  /\ admin = [row |-> FALSE, named |-> FALSE, roles |-> {}]
  /\ items = [i \in Entries |-> "absent"]
  /\ titles = [t \in Titles |-> [state |-> "absent", owned |-> FALSE]]
  /\ features = {}
  /\ legacy \in IF mode.old
                THEN {l \in [Roles -> [LegacyNames -> {"-", "ALL", "NONE"}]] :
                        \A r \in Roles : ~ roles[r].row => l[r] = NoLegacy[r]}
                ELSE {NoLegacy}
  /\ scopes = NoScopes
  /\ rule = None /\ settings = FALSE
  /\ touched = TRUE

-----------------------------------------------------------------------------
(* A start *)

Start == stage \in {"down", "failed"} /\ stage' = "migrate" /\ UNCHANGED <<mode, tables, touched>>

\* The process dies, or is stopped.
Crash == stage # "down" /\ stage' = "down" /\ UNCHANGED <<mode, tables, touched>>

Collide_ignored == FALSE

Collide == \E r \in Roles, m, n \in LegacyNames :
  m # n /\ FeatureOf[m] = FeatureOf[n] /\ legacy[r][m] # "-" /\ legacy[r][n] # "-"

\* What a role's legacy rows become.
Converted(r, f) ==
  LET names == {m \in LegacyNames : FeatureOf[m] = f /\ legacy[r][m] # "-"}
  IN IF names = {} THEN "-" ELSE legacy[r][CHOOSE m \in names : TRUE]

Migrate_bare ==
  /\ stage = "migrate" /\ Proceed
  /\ IF schema = "scopes" THEN UNCHANGED tables
     ELSE /\ schema' = "scopes" /\ features' = {} /\ legacy' = NoLegacy
          /\ UNCHANGED <<scopes, roles, admin, items, titles, rule, settings>>
  /\ UNCHANGED <<mode, touched>>

\* Tables in one transaction: two legacy rows of a role that come to the same feature
\* are refused by uq_role_feature, and the start with them.
Migrate ==
  /\ stage = "migrate"
  /\ IF schema = "scopes" THEN Proceed /\ UNCHANGED tables
     ELSE IF Collide THEN stage' = "failed" /\ UNCHANGED tables
     ELSE /\ Proceed
          /\ schema' = "scopes"
          /\ features' = Features \ Late
          /\ scopes' = [r \in Roles |-> [f \in Features |-> Converted(r, f)]]
          /\ legacy' = NoLegacy
          /\ UNCHANGED <<roles, admin, items, titles, rule, settings>>
  /\ UNCHANGED <<mode, touched>>

AdminRole_byCode == HasCode("ADMIN")

\* The administrators' role: the one of the fixed identity, or the one with the code.
AdminRole == IF roles[SeededRole].row THEN {SeededRole} ELSE HasCode("ADMIN")

SeedRole ==
  /\ stage = "role" /\ Proceed
  /\ roles' = IF AdminRole = {}
              THEN [roles EXCEPT ![SeededRole] = [row |-> TRUE, code |-> "ADMIN", super |-> TRUE]]
              ELSE [r \in Roles |-> IF r \in AdminRole THEN [roles[r] EXCEPT !.super = TRUE] ELSE roles[r]]
  /\ UNCHANGED <<mode, schema, admin, items, titles, features, legacy, scopes, rule, settings, touched>>

\* Without a DEFAULT_ADMIN_PASSWORD the first start gives up here, with the role committed.
SeedAdmin ==
  /\ stage = "employee"
  /\ IF admin.row THEN Proceed /\ UNCHANGED admin
     ELSE IF mode.password THEN Proceed /\ admin' = [row |-> TRUE, named |-> TRUE, roles |-> {}]
     ELSE stage' = "failed" /\ UNCHANGED admin
  /\ UNCHANGED <<mode, schema, roles, items, titles, features, legacy, scopes, rule, settings, touched>>

SeedGrant ==
  /\ stage = "grant" /\ Proceed
  /\ admin' = [admin EXCEPT !.roles = @ \cup AdminRole]
  /\ UNCHANGED <<mode, schema, roles, items, titles, features, legacy, scopes, rule, settings, touched>>

Insert_all(keys) == items' = [i \in Entries |-> IF i \in keys THEN "seeded" ELSE items[i]]

\* A key that no row has is inserted, again when the row that had it has another now.
Insert(keys) == items' = [i \in Entries |->
  IF i \in keys /\ items[i] = "absent" THEN "seeded"
  ELSE IF i \in keys /\ items[i] = "recoded" THEN "doubled" ELSE items[i]]

SeedScopes ==
  /\ stage = "scopes" /\ Proceed /\ Insert(ScopeEntries)
  /\ UNCHANGED <<mode, schema, roles, admin, titles, features, legacy, scopes, rule, settings, touched>>

SeedLeaveTypes ==
  /\ stage = "leaveTypes" /\ Proceed /\ Insert(LeaveEntries)
  /\ UNCHANGED <<mode, schema, roles, admin, titles, features, legacy, scopes, rule, settings, touched>>

SeedReasons ==
  /\ stage = "reasons" /\ Proceed /\ Insert(ReasonEntries)
  /\ UNCHANGED <<mode, schema, roles, admin, titles, features, legacy, scopes, rule, settings, touched>>

NewHours_old == [begin |-> "09:00", end |-> "18:00"]

\* The hours that older versions began with are moved at every start, whoever set them.
NewHours == [begin |-> "08:00", end |-> "20:00"]
Moved_always(hours) == NewHours

Moved(hours) == [begin |-> IF hours.begin = "09:00" THEN "08:00" ELSE hours.begin,
                 end |-> IF hours.end = "18:00" THEN "20:00" ELSE hours.end]
SeedRule ==
  /\ stage = "rule" /\ Proceed
  /\ rule' = IF rule = None THEN NewHours ELSE Moved(rule)
  /\ UNCHANGED <<mode, schema, roles, admin, items, titles, features, legacy, scopes, settings, touched>>

SeedSettings ==
  /\ stage = "settings" /\ Proceed
  /\ settings' = TRUE
  /\ UNCHANGED <<mode, schema, roles, admin, items, titles, features, legacy, scopes, rule, touched>>

Granted_overwrites(who, what) == [r \in Roles |-> [f \in Features |->
  IF r \in who /\ f \in what \cap features THEN "ALL" ELSE scopes[r][f]]]

\* Rows are given to the roles that have the codes now and to the features there are.
Granted(who, what) == [r \in Roles |-> [f \in Features |->
  IF r \in who /\ f \in what \cap features /\ scopes[r][f] = "-" THEN "ALL" ELSE scopes[r][f]]]

SeedCalendar ==
  /\ stage = "calendar" /\ Proceed
  /\ scopes' = Granted(UNION {HasCode(c) : c \in AdminCodes}, CalendarFeatures)
  /\ UNCHANGED <<mode, schema, roles, admin, items, titles, features, legacy, rule, settings, touched>>

\* Without a role of the code ADMIN, or the feature, the titles are skipped as well.
SeedTitlePermission ==
  /\ stage = "titlePermission"
  /\ IF HasCode("ADMIN") = {} \/ TitleFeature \notin features
     THEN stage' = "reasons" /\ UNCHANGED scopes
     ELSE Proceed /\ scopes' = Granted(HasCode("ADMIN"), {TitleFeature})
  /\ UNCHANGED <<mode, schema, roles, admin, items, titles, features, legacy, rule, settings, touched>>

SeedTitle_firstOnly ==
  /\ stage = "titles"
  /\ IF \E t \in Titles : titles[t].state # "absent" THEN Proceed /\ UNCHANGED titles
     ELSE /\ \E t \in Titles : titles' = [titles EXCEPT ![t] = [state |-> "active", owned |-> FALSE]]
          /\ UNCHANGED stage
  /\ UNCHANGED <<mode, schema, roles, admin, items, features, legacy, scopes, rule, settings, touched>>

\* Each title is a commit of its own; one that is inactive is there.
SeedTitle ==
  /\ stage = "titles"
  /\ LET missing == {t \in Titles : titles[t].state = "absent"}
     IN \/ missing = {} /\ Proceed /\ UNCHANGED titles
        \/ \E t \in missing : /\ titles' = [titles EXCEPT ![t] = [state |-> "active", owned |-> FALSE]]
                              /\ UNCHANGED stage
  /\ UNCHANGED <<mode, schema, roles, admin, items, features, legacy, scopes, rule, settings, touched>>

SeedCreators ==
  /\ stage = "creators" /\ Proceed
  /\ titles' = [t \in Titles |-> IF admin.named /\ titles[t].state # "absent"
                                 THEN [titles[t] EXCEPT !.owned = TRUE] ELSE titles[t]]
  /\ UNCHANGED <<mode, schema, roles, admin, items, features, legacy, scopes, rule, settings, touched>>

\* Whatever of the registry is missing. The boolean columns are gone by now, so
\* migrate_boolean_permissions returns at once.
SeedRegistry ==
  /\ stage = "registry" /\ Proceed
  /\ features' = features \cup Features
  /\ touched' = FALSE
  /\ UNCHANGED <<mode, schema, roles, admin, items, titles, legacy, scopes, rule, settings>>

-----------------------------------------------------------------------------
(* What administrators change while the server is up *)

Serving(operation) == stage = "up" /\ operation \in mode.operations /\ touched' = TRUE /\ UNCHANGED <<mode, stage>>

\* A role is made, or renamed and with that gets another code, the seeded one as well.
NameRole(r, c) ==
  /\ Serving("name")
  /\ roles[r].row \/ r # SeededRole
  /\ HasCode(c) = {}
  /\ roles' = [roles EXCEPT ![r] = IF @.row THEN [@ EXCEPT !.code = c] ELSE [row |-> TRUE, code |-> c, super |-> FALSE]]
  /\ UNCHANGED <<schema, admin, items, titles, features, legacy, scopes, rule, settings>>

\* A permission is chosen, or its row removed.
ChooseScope(r, f, s) ==
  /\ Serving("permissions")
  /\ roles[r].row
  /\ scopes' = [scopes EXCEPT ![r][f] = s]
  /\ UNCHANGED <<schema, roles, admin, items, titles, features, legacy, rule, settings>>

\* The first employee loses a role, or has the username changed.
ChangeAdmin(kept, named) ==
  /\ Serving("admin")
  /\ admin' = [admin EXCEPT !.roles = @ \cap kept, !.named = named]
  /\ UNCHANGED <<schema, roles, items, titles, features, legacy, scopes, rule, settings>>

\* A seeded row is changed or deactivated, and a scope of work given another code.
EditItem(i, s) ==
  /\ Serving("items")
  /\ items[i] = "seeded" /\ (s = "recoded" => i \in ScopeEntries)
  /\ items' = [items EXCEPT ![i] = s]
  /\ UNCHANGED <<schema, roles, admin, titles, features, legacy, scopes, rule, settings>>

SetHours(hours) ==
  /\ Serving("hours")
  /\ rule' = hours
  /\ UNCHANGED <<schema, roles, admin, items, titles, features, legacy, scopes, settings>>

\* A default title is deactivated, or reworded so that no row has it.
EditTitle(t, s) ==
  /\ Serving("titles")
  /\ titles[t].state = "active"
  /\ titles' = [titles EXCEPT ![t] = [state |-> s, owned |-> s = "inactive" /\ @.owned]]
  /\ UNCHANGED <<schema, roles, admin, items, features, legacy, scopes, rule, settings>>

ChosenHours == [begin : {"09:00", "10:00"}, end : {"18:00", "19:00"}]

Next ==
  \/ Start \/ Crash \/ Migrate
  \/ SeedRole \/ SeedAdmin \/ SeedGrant \/ SeedScopes \/ SeedLeaveTypes \/ SeedRule \/ SeedSettings
  \/ SeedCalendar \/ SeedTitlePermission \/ SeedTitle \/ SeedCreators \/ SeedReasons \/ SeedRegistry
  \/ \E r \in Roles, c \in {"ADMIN", "HR", "OTHER"} : NameRole(r, c)
  \/ \E r \in Roles, f \in Features, s \in {"-", "NONE"} : ChooseScope(r, f, s)
  \/ \E kept \in {{}, Roles}, named \in BOOLEAN : ChangeAdmin(kept, named)
  \/ \E i \in Entries, s \in {"edited", "recoded"} : EditItem(i, s)
  \/ \E hours \in ChosenHours : SetHours(hours)
  \/ \E t \in Titles, s \in {"absent", "inactive"} : EditTitle(t, s)

Spec == Init /\ [][Next]_vars

-----------------------------------------------------------------------------
(* Properties *)

\* What the server relies on: an employee who holds a role with every right, each list,
\* the rule, the settings, the registry, the permissions of those who administer; the
\* titles as far as a role has the code ADMIN, and signed as far as somebody is "admin".
Complete ==
  /\ \E r \in admin.roles : roles[r].super
  /\ \A i \in Entries : items[i] \in {"seeded", "edited", "doubled"}
  /\ rule # None /\ settings /\ features = Features
  /\ \A c \in AdminCodes : \A r \in HasCode(c), f \in CalendarFeatures : scopes[r][f] # "-"
  /\ \A r \in HasCode("ADMIN") : scopes[r][TitleFeature] # "-"
  /\ HasCode("ADMIN") # {} => \A t \in Titles : titles[t].state # "absent" /\ (admin.named => titles[t].owned)

\* A start that comes to its end leaves all of it there, wherever the ones before it died
\* and whatever administrators removed.
StartRepairs == (stage # "up" /\ stage' = "up") => Complete'

\* A start takes nothing back that somebody chose, apart from the rows that were removed,
\* which return: rows keep their values, except that the administrators' role is a super
\* role again, that 09:00 and 18:00 are moved, and that the titles nobody signed are signed.
ChoicesKept ==
  stage \in Starting =>
    /\ \A r \in Roles : roles[r].row => roles'[r].row /\ roles'[r].code = roles[r].code
    /\ \A i \in Entries : items[i] = "edited" => items'[i] = "edited"
    /\ schema = "scopes" => \A r \in Roles, f \in Features : scopes[r][f] # "-" => scopes'[r][f] = scopes[r][f]
    /\ \A t \in Titles : titles[t].state # "absent" => titles'[t].state = titles[t].state
    /\ rule # None => /\ rule'.begin # rule.begin => rule.begin = "09:00"
                      /\ rule'.end # rule.end => rule.end = "18:00"
    /\ admin.roles \subseteq admin'.roles

\* seeder.py: "Idempotent: safe to run repeatedly". After a start that came to its end, and
\* as long as nobody changes anything, the next one writes nothing.
SecondStartIdle == (stage \in Starting /\ ~ touched) => UNCHANGED tables

\* A legacy permission is afterwards on the feature its name is mapped to, neither lost nor
\* widened, and a start gives up for two reasons only: two of them in one place, or the
\* first employee without a password.
PermissionsCarried ==
  /\ schema # "scopes" /\ schema' = "scopes" =>
       \A r \in Roles, m \in LegacyNames : legacy[r][m] # "-" => scopes'[r][FeatureOf[m]] = legacy[r][m]
  /\ stage # "failed" /\ stage' = "failed" => Collide \/ (~ mode.password /\ ~ admin.row)

StartSound == StartRepairs /\ ChoicesKept /\ SecondStartIdle /\ PermissionsCarried
====================================================================================
