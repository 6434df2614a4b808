------------------------------- MODULE Directory -------------------------------
(***************************************************************************)
(* The directory client of the HTTP bridge: class LDAPAuthenticator        *)
(* (src/src/ldap_authenticator.cpp) with its CircuitBreaker                *)
(* (src/include/circuit_breaker.h), the role policy of                     *)
(* src/include/tenant_role_policy.h, and the aliasing of roles that        *)
(* src/src/http_server.cpp applies to every call to the core.              *)
(*                                                                         *)
(* Every public operation takes ldap_mutex_ and holds it across all its    *)
(* network calls.  A connection goes to the master, or to a read-only      *)
(* replica when the master was found dead; a sign-in connects twice.  A    *)
(* step below ends where a network call ends, so servers may die, hang,    *)
(* recover and be written to between any two calls of one operation.       *)
(*                                                                         *)
(* The directory holds one user; what varies is the set of groups that     *)
(* list the user, on the master and on the replica.                        *)
(***************************************************************************)
EXTENDS Integers

CONSTANTS
  Thread,      \* handler threads that call the directory
  NoThread,
  Group,       \* the groups of the directory, see GroupShape
  TenantBase,  \* tenant_base_: the configured search base
  Root,        \* ldap_domain_: the root of the directory
  NoBase,      \* the empty string as a search base
  NoTenant,    \* the empty string as a tenant
  Lower,       \* Lower[n]: the role name n in lower case
  Deployment,  \* names in the deployment namespace: they start with "system_"
  HasReplica,  \* is replica_endpoint_ configured
  Cooldown,    \* failover_cooldown_s
  MaxChanges   \* bound on changes of membership

Server == {"master", "replica"}

\* under: the search bases whose subtree holds the group; cn is one of names.
GroupShape(g) ==
  /\ g.class \in {"groupOfNames", "other"}
  /\ g.attr \in {"member", "memberUid"}
  /\ g.cn \in g.names
  /\ g.names \subseteq DOMAIN Lower

ASSUME GroupAssumption == \A g \in Group : GroupShape(g)
ASSUME CooldownAssumption == Cooldown \in Nat \ {0}
ASSUME ThreadAssumption == NoThread \notin Thread
ASSUME ReplicaAssumption == HasReplica \in BOOLEAN
ASSUME ChangesAssumption == MaxChanges \in Nat

VARIABLES
  server,   \* server[s]: does s answer, refuse, or keep callers waiting
  listed,   \* listed[s]: the groups that list the user, as s has them
  changes,  \* changes of membership so far
  cool,     \* seconds until now() reaches down_until_, 0 if it has
  owner,    \* the thread that holds ldap_mutex_
  th,       \* th[t]: the locals of the operation t is in
  answer,   \* what the last operation returned, until the next one starts
  ever,     \* history: the groups that ever listed the user
  held,     \* history: the groups that listed the user since owner took the mutex
  steady,   \* history: since owner took the mutex nobody's membership changed,
            \*   and no search for groups failed that would have found one
  failed    \* history: seconds since a connect to the master last failed, capped

vars ==
  <<server, listed, changes, cool, owner, th, answer, ever, held, steady, failed>>
network == <<server, listed, changes, ever>>

-----------------------------------------------------------------------------
(* Where a tenant door may look for roles: tenant_role_policy.h.           *)

isDeploymentRole(r) == r \in Deployment

stripDeploymentRoles(roles) == {r \in roles : ~isDeploymentRole(r)}

roleSearchBase == IF TenantBase \in {NoBase, Root} THEN NoBase ELSE TenantBase

\* The base the third search names, whatever is configured.
DefaultTenantBase == "ou=default,ou=tenants"

-----------------------------------------------------------------------------
(* What one search finds among the groups L that list the user.            *)

Under(L, base) == {g \in L : base \in g.under}

\* cn, ou, name and gid of every group found, in lower case.
roleNames(G) == {Lower[n] : n \in UNION {g.names : g \in G}}

byClass(L) ==
  roleNames({g \in Under(L, roleSearchBase) : g.class = "groupOfNames" /\ g.attr = "member"})

\* Mutant: the wider search starts at the root of the directory.
byMemberAtRoot(L) == roleNames({g \in Under(L, Root) : g.attr = "member"})

byMember(L) == roleNames({g \in Under(L, TenantBase) : g.attr = "member"})

byAnyAttribute(L) == roleNames(Under(L, DefaultTenantBase))

\* The default role, and the roles two groups stand for.
mapGroups(found) ==
  LET roles == IF found = {} THEN {"users"} ELSE found
  IN  roles \cup (IF "administrators" \in roles THEN {"tenant_admin"} ELSE {})
            \cup (IF "erasure_admins" \in roles THEN {"erasure_admin"} ELSE {})

extractRolesFromGroups(found) == stripDeploymentRoles(mapGroups(found))

tenantsOf(L) == {g.tenant : g \in Under(L, TenantBase)} \ {NoTenant}

\* Mutant: every role in every tenant of the user.
rolesByTenantUnion(L) ==
  tenantsOf(L) \X {g.cn : g \in {x \in Under(L, TenantBase) : x.class = "groupOfNames"}}

rolesByTenant(L) ==
  {<<g.tenant, g.cn>> :
     g \in {x \in Under(L, TenantBase) :
              /\ x.class = "groupOfNames"
              /\ x.attr = "member"
              /\ x.tenant # NoTenant}}

\* Mutant: a mapping added at sign-in only.
effectiveRolesShort(roles) ==
  roles \cup (IF "erasure_admins" \in roles THEN {"erasure_admin"} ELSE {})

\* What a request carries to the core: the session's roles and their aliases.
effectiveRoles(roles) ==
  roles \cup (IF "administrators" \in roles THEN {"tenant_admin"} ELSE {})
        \cup (IF "erasure_admins" \in roles THEN {"erasure_admin"} ELSE {})

-----------------------------------------------------------------------------
Op == {"authenticateUser", "getUserInfoByEmail", "getTenantsForUser",
       "getRolesByTenant", "searchUsers", "searchRoles"}

SignsIn(op) == op \in {"authenticateUser", "getUserInfoByEmail"}

\* second tells the second connection of a sign-in from the first.
Idle == [pc |-> "idle", op |-> "none", conn |-> "none", second |-> FALSE]

NoAnswer ==
  [op |-> "none", known |-> FALSE, roles |-> {}, tenants |-> {}, pairs |-> {}, from |-> "none"]

Nothing(op) == [NoAnswer EXCEPT !.op = op]

TypeOK ==
  /\ server \in [Server -> {"up", "down", "hung"}]
  /\ listed \in [Server -> SUBSET Group]
  /\ changes \in 0 .. MaxChanges
  /\ cool \in 0 .. Cooldown
  /\ owner \in Thread \cup {NoThread}
  /\ \A t \in Thread :
       /\ th[t].pc \in {"idle", "connect", "dialMaster", "dialReplica", "find",
                        "bind", "groups1", "groups2", "groups3", "tenants", "byTenant", "list"}
       /\ th[t].op \in Op \cup {"none"}
       /\ th[t].conn \in Server \cup {"none"}
  /\ answer.op \in Op \cup {"none"}
  /\ ever \in SUBSET Group
  /\ held \in SUBSET Group
  /\ steady \in BOOLEAN
  /\ failed \in 0 .. Cooldown

Init ==
  /\ server = [s \in Server |-> "up"]
  /\ \E G \in SUBSET Group : listed = [s \in Server |-> G] /\ ever = G
  /\ changes = 0
  /\ cool = 0
  /\ owner = NoThread
  /\ th = [t \in Thread |-> Idle]
  /\ answer = NoAnswer
  /\ held = {}
  /\ steady = TRUE
  /\ failed = Cooldown

-----------------------------------------------------------------------------
(* The mutex.                                                              *)

\* A thread that waits for the mutex has done nothing yet: it is idle here.
Lock(t, op) ==
  /\ owner = NoThread
  /\ owner' = t
  /\ th' = [th EXCEPT ![t].pc = "connect", ![t].op = op]
  /\ answer' = NoAnswer
  /\ held' = listed["master"]
  /\ steady' = TRUE
  /\ UNCHANGED <<network, cool, failed>>

\* The operation returns a, and lock_guard releases the mutex.
Returns(t, a) ==
  /\ answer' = a
  /\ owner' = NoThread
  /\ th' = [th EXCEPT ![t] = Idle]

\* The operation goes on with the mutex held.
Continues(t, r) ==
  /\ th' = [th EXCEPT ![t] = r]
  /\ UNCHANGED <<owner, answer>>

\* searchRoles() without a tenant does not connect.
RefuseUnscoped(t) ==
  /\ th[t].pc = "connect"
  /\ th[t].op = "searchRoles"
  /\ Returns(t, Nothing("searchRoles"))
  /\ UNCHANGED <<network, cool, held, steady, failed>>

-----------------------------------------------------------------------------
(* connectToLDAP().                                                        *)

\* Mutant: a second connection does not ask the breaker.
ChooseMasterAgain(t) ==
  /\ th[t].pc = "connect"
  /\ Continues(t, [th[t] EXCEPT !.pc =
       IF ~HasReplica \/ cool = 0 \/ th[t].second THEN "dialMaster" ELSE "dialReplica"])
  /\ UNCHANGED <<network, cool, held, steady, failed>>

ChooseEndpoint(t) ==
  /\ th[t].pc = "connect"
  /\ Continues(t, [th[t] EXCEPT !.pc =
       IF ~HasReplica \/ cool = 0 THEN "dialMaster" ELSE "dialReplica"])
  /\ UNCHANGED <<network, cool, held, steady, failed>>

\* What an operation does with the connection it got.
Connected(r, s) ==
  [r EXCEPT !.conn = s,
            !.pc = CASE r.op \in {"searchUsers", "searchRoles"} -> "list"
                     [] r.second -> "groups1"
                     [] OTHER -> "find"]

\* No connection: an operation returns nothing, a sign-in that has already
\* bound as the user signs in with the default role.
Unconnected(r) ==
  IF r.second
  THEN [Nothing(r.op) EXCEPT !.known = TRUE, !.roles = {"users"}]
  ELSE Nothing(r.op)

\* Mutant: the cooldown is counted twice.
breakerTripsTwice == cool' = 2 * Cooldown

\* trip().
breakerTrips == cool' = Cooldown

DialMaster(t) ==
  /\ th[t].pc = "dialMaster"
  /\ server["master"] = "up"
  /\ Continues(t, Connected(th[t], "master"))
  /\ cool' = 0
  /\ UNCHANGED <<network, held, steady, failed>>

DialMasterFails(t) ==
  /\ th[t].pc = "dialMaster"
  /\ server["master"] = "down"
  /\ IF HasReplica
     THEN breakerTrips /\ Continues(t, [th[t] EXCEPT !.pc = "dialReplica"])
     ELSE Returns(t, Unconnected(th[t])) /\ UNCHANGED cool
  /\ failed' = 0
  /\ UNCHANGED <<network, held, steady>>

\* Mutant: every use of the replica starts the cooldown again.
DialReplicaTrips(t) ==
  /\ th[t].pc = "dialReplica"
  /\ server["replica"] = "up"
  /\ Continues(t, Connected(th[t], "replica"))
  /\ breakerTrips
  /\ UNCHANGED <<network, held, steady, failed>>

DialReplica(t) ==
  /\ th[t].pc = "dialReplica"
  /\ server["replica"] = "up"
  /\ Continues(t, Connected(th[t], "replica"))
  /\ UNCHANGED <<network, cool, held, steady, failed>>

\* Mutant: with neither server there, keep trying.
DialReplicaRetries(t) ==
  /\ th[t].pc = "dialReplica"
  /\ server["replica"] = "down"
  /\ Continues(t, [th[t] EXCEPT !.pc = "connect"])
  /\ UNCHANGED <<network, cool, held, steady, failed>>

DialReplicaFails(t) ==
  /\ th[t].pc = "dialReplica"
  /\ server["replica"] = "down"
  /\ Returns(t, Unconnected(th[t]))
  /\ UNCHANGED <<network, cool, held, steady, failed>>

-----------------------------------------------------------------------------
(* The calls on a connection.  A dead server fails every call; one that is *)
(* up may fail any (busy, over a limit, refused).                          *)

Answers(t) == server[th[t].conn] = "up"

\* The call ends, with an answer or without.
Ends(t) == server[th[t].conn] # "hung"

\* The user's entry is found; what follows depends on the operation.
FindUser(t) ==
  /\ th[t].pc = "find"
  /\ Answers(t)
  /\ Continues(t, [th[t] EXCEPT !.pc =
       CASE th[t].op = "authenticateUser"   -> "bind"
         [] th[t].op = "getUserInfoByEmail" -> "groups1"
         [] th[t].op = "getTenantsForUser"  -> "tenants"
         [] th[t].op = "getRolesByTenant"   -> "byTenant"])
  /\ UNCHANGED <<network, cool, held, steady, failed>>

\* The search fails, finds nobody or more than one entry.
UserNotFound(t) ==
  /\ th[t].pc = "find"
  /\ Ends(t)
  /\ Returns(t, Nothing(th[t].op))
  /\ UNCHANGED <<network, cool, held, steady, failed>>

\* The password is right: the roles are read on a connection of their own.
BindUser(t) ==
  /\ th[t].pc = "bind"
  /\ Answers(t)
  /\ Continues(t, [th[t] EXCEPT !.pc = "connect", !.second = TRUE, !.conn = "none"])
  /\ UNCHANGED <<network, cool, held, steady, failed>>

\* An empty password, a wrong one, or no answer to the bind.
BindRefused(t) ==
  /\ th[t].pc = "bind"
  /\ Ends(t)
  /\ Returns(t, Nothing(th[t].op))
  /\ UNCHANGED <<network, cool, held, steady, failed>>

\* A sign-in returns the roles that its searches found.
SignedIn(r, found) ==
  [Nothing(r.op) EXCEPT !.known = TRUE, !.roles = extractRolesFromGroups(found),
                        !.from = r.conn]

\* Mutant: a search that found roles is not the last one.
GroupSearchGoesOn(t, pc, found, next) ==
  /\ th[t].pc = pc
  /\ Ends(t)
  /\ \E roles \in (IF Answers(t) THEN {found} ELSE {}) \cup {{}} :
       /\ IF next = "none"
          THEN Returns(t, SignedIn(th[t], roles))
          ELSE Continues(t, [th[t] EXCEPT !.pc = next])
       /\ steady' = (steady /\ roles = found)
  /\ UNCHANGED <<network, cool, held, failed>>

\* A search that found roles is the last one; one that failed counts as one
\* that found nothing.
GroupSearch(t, pc, found, next) ==
  /\ th[t].pc = pc
  /\ Ends(t)
  /\ \E roles \in (IF Answers(t) THEN {found} ELSE {}) \cup {{}} :
       /\ IF roles # {} \/ next = "none"
          THEN Returns(t, SignedIn(th[t], roles))
          ELSE Continues(t, [th[t] EXCEPT !.pc = next])
       /\ steady' = (steady /\ roles = found)
  /\ UNCHANGED <<network, cool, held, failed>>

\* With an unusable tenant base nothing is searched, and there is no default
\* role either.
SearchByClass(t) ==
  IF roleSearchBase = NoBase
  THEN /\ th[t].pc = "groups1"
       /\ Returns(t, [Nothing(th[t].op) EXCEPT !.known = TRUE])
       /\ UNCHANGED <<network, cool, held, steady, failed>>
  ELSE GroupSearch(t, "groups1", byClass(listed[th[t].conn]), "groups2")

SearchByMember(t) == GroupSearch(t, "groups2", byMember(listed[th[t].conn]), "groups3")

SearchDefaultTenant(t) ==
  GroupSearch(t, "groups3", byAnyAttribute(listed[th[t].conn]), "none")

ReadTenants(t) ==
  /\ th[t].pc = "tenants"
  /\ Ends(t)
  /\ \E found \in (IF Answers(t) THEN {tenantsOf(listed[th[t].conn])} ELSE {}) \cup {{}} :
       Returns(t, [Nothing(th[t].op) EXCEPT !.known = TRUE, !.tenants = found,
                                            !.from = th[t].conn])
  /\ UNCHANGED <<network, cool, held, steady, failed>>

ReadRolesByTenant(t) ==
  /\ th[t].pc = "byTenant"
  /\ Ends(t)
  /\ \E found \in (IF Answers(t) THEN {rolesByTenant(listed[th[t].conn])} ELSE {}) \cup {{}} :
       Returns(t, [Nothing(th[t].op) EXCEPT !.known = TRUE, !.pairs = found,
                                            !.from = th[t].conn])
  /\ UNCHANGED <<network, cool, held, steady, failed>>

\* One search, whose names are only shown; what it lists is not modelled.
ListNames(t) ==
  /\ th[t].pc = "list"
  /\ Ends(t)
  /\ Returns(t, Nothing(th[t].op))
  /\ UNCHANGED <<network, cool, held, steady, failed>>

-----------------------------------------------------------------------------
(* The directory servers and the clock.                                    *)

ServerChanges(s, st) ==
  /\ server[s] # st
  /\ server' = [server EXCEPT ![s] = st]
  /\ UNCHANGED <<listed, changes, cool, owner, th, answer, ever, held, steady, failed>>

\* An administrator adds the user to g or takes them out, on the master.
ChangeMembership(g) ==
  LET G == IF g \in listed["master"] THEN listed["master"] \ {g} ELSE listed["master"] \cup {g}
  IN  /\ changes < MaxChanges
      /\ server["master"] = "up"
      /\ changes' = changes + 1
      /\ listed' = [listed EXCEPT !["master"] = G]
      /\ ever' = ever \cup G
      /\ held' = IF owner = NoThread THEN held ELSE held \cup G
      /\ steady' = (steady /\ owner = NoThread)
      /\ UNCHANGED <<server, cool, owner, th, answer, failed>>

Replicate ==
  /\ listed["replica"] # listed["master"]
  /\ \A s \in Server : server[s] = "up"
  /\ listed' = [listed EXCEPT !["replica"] = listed["master"]]
  /\ UNCHANGED <<server, changes, cool, owner, th, answer, ever, held, steady, failed>>

Tick ==
  /\ cool' = IF cool > 0 THEN cool - 1 ELSE 0
  /\ failed' = IF failed < Cooldown THEN failed + 1 ELSE Cooldown
  /\ UNCHANGED <<network, owner, th, answer, held, steady>>

\* What the operation in the critical section of t can do.
Step(t) ==
  \/ RefuseUnscoped(t)
  \/ ChooseEndpoint(t)
  \/ DialMaster(t)
  \/ DialMasterFails(t)
  \/ DialReplica(t)
  \/ DialReplicaFails(t)
  \/ FindUser(t)
  \/ UserNotFound(t)
  \/ BindUser(t)
  \/ BindRefused(t)
  \/ SearchByClass(t)
  \/ SearchByMember(t)
  \/ SearchDefaultTenant(t)
  \/ ReadTenants(t)
  \/ ReadRolesByTenant(t)
  \/ ListNames(t)

Next ==
  \/ \E t \in Thread, op \in Op : Lock(t, op)
  \/ \E t \in Thread : Step(t)
  \/ \E s \in Server, st \in {"up", "down", "hung"} : ServerChanges(s, st)
  \/ \E g \in Group : ChangeMembership(g)
  \/ Replicate
  \/ Tick

\* The scheduler runs the thread in the critical section, a server that answers
\* again and again answers its call, and time passes.  Nobody has to call.
Fairness ==
  /\ SF_vars(\E t \in Thread : Step(t))
  /\ WF_vars(Tick)

Spec == Init /\ [][Next]_vars /\ Fairness

-----------------------------------------------------------------------------
(* What the directory client promises.                                     *)

\* The groups an answer may rest on: what the master had while the operation
\* ran, or, from a replica that lags, whatever it ever had.
Backing == IF answer.from = "master" THEN held ELSE ever

\* The groups roles are meant to come from, in any tenant.
RoleGroups(G) ==
  {g \in G : TenantBase \in g.under /\ g.class = "groupOfNames" /\ g.attr = "member"}

\* What the three searches can reach at most.
SearchedGroups(G) ==
  {g \in G : \/ TenantBase \in g.under /\ g.attr = "member"
            \/ DefaultTenantBase \in g.under}

\* The names of G and the roles that two of them stand for.
StandFor(G) ==
  roleNames(G) \cup {r \in {"tenant_admin"} : "administrators" \in roleNames(G)}
               \cup {r \in {"erasure_admin"} : "erasure_admins" \in roleNames(G)}

(* However the calls of a sign-in fail, no role comes from outside the        *)
(* tenants' subtree: every role is the default one, or names, or is stood for *)
(* by, a group under the tenant base that has the user as a member, or a      *)
(* group of the default tenant that lists the user at all.  The group listed  *)
(* the user while the operation held the mutex (or ever, when the lagging     *)
(* replica answered).  A failed search can still ADD a role: the wider        *)
(* searches that follow it read groups a sign-in without failures does not.   *)
RolesEarned ==
  answer.roles \subseteq {"users"} \cup StandFor(SearchedGroups(Backing))

\* The master answered a sign-in, and nothing failed or changed meanwhile.
SteadySignIn(op) == answer.op = op /\ answer.from = "master" /\ steady

(* A user in ordinary role groups signs in with exactly their names and what  *)
(* these stand for, less the deployment namespace: nothing of the two wider   *)
(* searches, whose default-tenant fallback is for users without a group,      *)
(* whichever server answered the first connection and whoever signed in       *)
(* before.                                                                    *)
SignInExact ==
  \A op \in {"authenticateUser", "getUserInfoByEmail"} :
    SteadySignIn(op) /\ RoleGroups(held) # {}
      => answer.roles = StandFor(RoleGroups(held)) \ Deployment

(* The map a session token carries: getRolesByTenant() puts a role under a   *)
(* tenant only if a group of that tenant with that name lists the user as a  *)
(* member, however the directory changes or fails between the operations.    *)
RolesUnderTheirTenant ==
  \A p \in answer.pairs :
    \E g \in Backing : g.tenant = p[1] /\ g.cn = p[2] /\ g.attr = "member"

\* A group whose name is the role: outside the deployment namespace, in lower
\* case, and named by its cn alone.
Ordinary(g) ==
  /\ g \in RoleGroups({g})
  /\ g.names = {g.cn}
  /\ Lower[g.cn] = g.cn
  /\ ~isDeploymentRole(g.cn)

(* The comment on effectiveRoles(): "the identity the same whichever door     *)
(* the session came through".  A user whose groups are all ordinary groups of *)
(* one tenant carries the same roles to the core, up to the default role,     *)
(* after the password sign-in that was just answered and with a token minted  *)
(* for that tenant from getRolesByTenant().  (A user of two tenants does not: *)
(* see AdminOfOwnTenantOnly.)                                                 *)
DoorsAgree ==
  \A tenant \in {g.tenant : g \in Group} \ {NoTenant} :
    /\ SteadySignIn("authenticateUser")
    /\ \A g \in held : Ordinary(g) /\ g.tenant = tenant
    => LET bearer == {p[2] : p \in {q \in rolesByTenant(held) : q[1] = tenant}}
       IN  effectiveRoles(answer.roles) \ {"users"} = effectiveRoles(bearer) \ {"users"}

(* The comment on roleAliases(): the core grants a tenant admin "full access  *)
(* to THEIR OWN tenant's files - and never beyond it".  A Basic request is    *)
(* admitted at every tenant of the user and carries the roles of the sign-in  *)
(* there, so tenant_admin among them should mean that the user is in that     *)
(* tenant's administrators.  The sign-in collects the groups of all tenants,  *)
(* so this does not hold.                                                     *)
AdminOfOwnTenantOnly ==
  SteadySignIn("authenticateUser") /\ "tenant_admin" \in effectiveRoles(answer.roles) =>
    \A tenant \in tenantsOf(held) :
      \E g \in held : g.tenant = tenant /\ "administrators" \in roleNames({g})

(* The circuit breaker spares a dead master: once a connect to it has        *)
(* failed, no operation connects to it again for the whole cooldown, the     *)
(* second connection of the very sign-in that saw it fail included.  A       *)
(* search or a bind that fails on an open connection does not count, here or *)
(* in the code.                                                              *)
ProbesSpaced ==
  [][\A t \in Thread :
       HasReplica /\ th[t].pc = "connect" /\ th'[t].pc = "dialMaster"
         => failed = Cooldown]_vars

\* No server keeps a call waiting for ever.  Nothing in the code bounds the
\* wait, so this is an assumption about the directory.
ServersEndCalls == \A s \in Server : []<>(server[s] # "hung")

(* ldap_mutex_ is held across the network calls of an operation: as long as  *)
(* no directory server hangs for good, whoever holds it lets go of it, and   *)
(* no failure of either server at any call leaves it held.                   *)
LockReleased == ServersEndCalls => \A t \in Thread : (owner = t) ~> (owner # t)

(* "After the cooldown the next request re-probes the primary and resumes on *)
(* success": when the master is back for good, the replica is used only      *)
(* finitely often more, however many requests keep coming.                   *)
MasterFoundAgain ==
  ServersEndCalls /\ <>[](server["master"] = "up")
    => <>[](\A t \in Thread : th[t].conn # "replica")
================================================================================
