---------------------------- MODULE DirectoryProofs ----------------------------
(***************************************************************************)
(* Proofs about Directory, for any number of threads, any groups of the    *)
(* directory, any cooldown and any number of changes of membership.        *)
(*                                                                         *)
(* What an operation returns rests on the groups it saw.  The mutex is     *)
(* what makes that a fact about the answer: it keeps one operation's reads *)
(* and the record of what the master had meanwhile together.               *)
(***************************************************************************)
EXTENDS Directory, TLAPS

Pc == {"idle", "connect", "dialMaster", "dialReplica", "find", "bind", "groups1",
       "groups2", "groups3", "tenants", "byTenant", "list"}

\* Where an operation has a connection.
Online == Pc \ {"idle", "connect", "dialMaster", "dialReplica"}

Local ==
  [pc : Pc, op : Op \cup {"none"}, conn : Server \cup {"none"}, second : BOOLEAN]

LocalOK(r) ==
  /\ r \in Local
  /\ r.pc # "idle" => r.op \in Op
  /\ r.pc \in Online => r.conn \in Server
  /\ r.pc = "find" => r.op \notin {"searchUsers", "searchRoles"}
  /\ r.pc \in {"tenants", "byTenant"} => ~SignsIn(r.op)

\* One operation at a time, and nothing to tell of it before it returns.
Exclusive ==
  /\ \A t \in Thread : th[t].pc # "idle" <=> owner = t
  /\ owner # NoThread => answer = NoAnswer

\* What a server lists, it or the master once listed; what the master lists has
\* been seen by the operation that runs.
Copies ==
  /\ \A s \in Server : listed[s] \subseteq ever
  /\ owner # NoThread => listed["master"] \subseteq held

\* The cooldown outlasts the last failure, and a call to the master that is under
\* way was not begun within it.
BreakerOK ==
  HasReplica =>
    /\ cool + failed >= Cooldown
    /\ \A t \in Thread : th[t].pc = "dialMaster" => failed = Cooldown

\* What an answer a may say, if it rests on the groups H of the master while the
\* operation ran and on the groups E of all time.
Rests(a, H, E) == IF a.from = "master" THEN H ELSE E

Justified(a, B) ==
  /\ a.roles \subseteq {"users"} \cup StandFor(SearchedGroups(B))
  /\ \A p \in a.pairs : \E g \in B : g.tenant = p[1] /\ g.cn = p[2] /\ g.attr = "member"

\* What a sign-in a says exactly, if st: nothing failed or changed meanwhile.
Exact(a, st, H) ==
  SignsIn(a.op) /\ a.from = "master" /\ st /\ RoleGroups(H) # {}
    => a.roles = StandFor(RoleGroups(H)) \ Deployment

\* While nothing changes, the operation knows one state of the master; and a
\* sign-in goes on to a wider search of it only if there is no role group.
SteadyOK ==
  /\ owner # NoThread /\ steady => held = listed["master"]
  /\ \A t \in Thread :
       /\ th[t].pc \in {"groups2", "groups3"}
       /\ steady
       /\ th[t].conn = "master"
       => RoleGroups(held) = {}

IInv ==
  /\ TypeOK
  /\ th \in [Thread -> Local]
  /\ \A t \in Thread : LocalOK(th[t])
  /\ Exclusive
  /\ Copies
  /\ BreakerOK
  /\ Justified(answer, Rests(answer, held, ever))
  /\ SteadyOK
  /\ Exact(answer, steady, held)

-----------------------------------------------------------------------------
(* Searches.                                                               *)

\* More groups have more names.
LEMMA RoleNamesMonotone ==
  ASSUME NEW A, NEW B, A \subseteq B
  PROVE  roleNames(A) \subseteq roleNames(B)
  BY DEF roleNames

\* More groups reach, and stand for, no less.
LEMMA SearchedMonotone ==
  ASSUME NEW A, NEW B, A \subseteq B
  PROVE  StandFor(SearchedGroups(A)) \subseteq StandFor(SearchedGroups(B))
  <1>1. SearchedGroups(A) \subseteq SearchedGroups(B)
    BY DEF SearchedGroups
  <1>2. roleNames(SearchedGroups(A)) \subseteq roleNames(SearchedGroups(B))
    BY <1>1, RoleNamesMonotone
  <1> QED
    BY <1>2 DEF StandFor

\* More to rest on justifies no less.
LEMMA JustifiedMonotone ==
  ASSUME NEW a, NEW A, NEW B, A \subseteq B, Justified(a, A)
  PROVE  Justified(a, B)
  <1>1. StandFor(SearchedGroups(A)) \subseteq StandFor(SearchedGroups(B))
    BY SearchedMonotone
  <1> QED
    BY <1>1 DEF Justified

\* What the search may find on a server that lists L.
Findable(L) ==
  {{}} \cup {byMember(L), byAnyAttribute(L)}
       \cup (IF roleSearchBase = NoBase THEN {} ELSE {byClass(L)})

\* A usable base is the tenant base, and the first search finds the role groups.
LEMMA FoundByClass ==
  ASSUME NEW L, roleSearchBase # NoBase
  PROVE  byClass(L) = roleNames(RoleGroups(L))
  <1>1. roleSearchBase = TenantBase
    BY DEF roleSearchBase
  <1>2. {g \in Under(L, roleSearchBase) : g.class = "groupOfNames" /\ g.attr = "member"}
          = RoleGroups(L)
    BY <1>1 DEF Under, RoleGroups
  <1> QED
    BY <1>2 DEF byClass

\* The mapping at sign-in adds the default role and what the names stand for.
LEMMA Mapped ==
  ASSUME NEW G, NEW found, found \subseteq roleNames(G)
  PROVE  /\ extractRolesFromGroups(found) \subseteq {"users"} \cup StandFor(G)
         /\ found = roleNames(G) /\ found # {}
              => extractRolesFromGroups(found) = StandFor(G) \ Deployment
  <1>1. mapGroups(found) \subseteq
          found \cup {"users"} \cup {r \in {"tenant_admin"} : "administrators" \in found}
                \cup {r \in {"erasure_admin"} : "erasure_admins" \in found}
    BY DEF mapGroups
  <1>2. extractRolesFromGroups(found) = {r \in mapGroups(found) : r \notin Deployment}
    BY DEF extractRolesFromGroups, stripDeploymentRoles, isDeploymentRole
  <1>3. ASSUME found = roleNames(G), found # {}
        PROVE  mapGroups(found) = StandFor(G)
    BY <1>3 DEF mapGroups, StandFor
  <1> QED
    BY <1>1, <1>2, <1>3 DEF StandFor

\* Whichever of the three searches found them, the roles of a sign-in are earned
\* by the groups the server lists.
LEMMA RolesFound ==
  ASSUME NEW L, NEW found \in Findable(L)
  PROVE  extractRolesFromGroups(found) \subseteq {"users"} \cup StandFor(SearchedGroups(L))
  <1> DEFINE S == SearchedGroups(L)
  <1>1. {} \subseteq roleNames(S)
    OBVIOUS
  <1>2. byMember(L) \subseteq roleNames(S)
    <2>1. {g \in Under(L, TenantBase) : g.attr = "member"} \subseteq S
      BY DEF Under, SearchedGroups
    <2> QED
      BY <2>1, RoleNamesMonotone DEF byMember
  <1>3. byAnyAttribute(L) \subseteq roleNames(S)
    <2>1. Under(L, DefaultTenantBase) \subseteq S
      BY DEF Under, SearchedGroups
    <2> QED
      BY <2>1, RoleNamesMonotone DEF byAnyAttribute
  <1>4. ASSUME roleSearchBase # NoBase PROVE byClass(L) \subseteq roleNames(S)
    <2>1. RoleGroups(L) \subseteq S
      BY DEF RoleGroups, SearchedGroups
    <2>2. byClass(L) = roleNames(RoleGroups(L))
      BY <1>4, FoundByClass
    <2> QED
      BY <2>1, <2>2, RoleNamesMonotone
  <1> HIDE DEF S
  <1>5. found \subseteq roleNames(S)
    BY <1>1, <1>2, <1>3, <1>4 DEF Findable
  <1>6. extractRolesFromGroups(found) \subseteq {"users"} \cup StandFor(S)
    BY <1>5, Mapped
  <1> QED
    BY <1>6 DEF S

\* A role group has a name, so a first search that found nothing saw none.
LEMMA NamedGroups ==
  ASSUME NEW L \in SUBSET Group, roleNames(RoleGroups(L)) = {}
  PROVE  RoleGroups(L) = {}
  <1> SUFFICES ASSUME NEW g \in RoleGroups(L) PROVE FALSE
    OBVIOUS
  <1>1. g \in Group
    BY DEF RoleGroups
  <1>2. g.cn \in g.names
    BY <1>1, GroupAssumption DEF GroupShape
  <1>3. g.cn \in UNION {x.names : x \in RoleGroups(L)}
    BY <1>2
  <1> QED
    BY <1>3 DEF roleNames

\* Every pair of getRolesByTenant() has its group.
LEMMA PairsFound ==
  ASSUME NEW L, NEW p \in rolesByTenant(L)
  PROVE  \E g \in L : g.tenant = p[1] /\ g.cn = p[2] /\ g.attr = "member"
  BY DEF rolesByTenant, Under

-----------------------------------------------------------------------------
(* A step of the operation in the critical section.                        *)

\* What IInv says of the thread that steps.
LEMMA Holder ==
  ASSUME IInv, NEW t \in Thread, th[t].pc # "idle"
  PROVE  /\ LocalOK(th[t]) /\ owner = t /\ owner # NoThread
         /\ \A g \in Thread \ {t} : th[g].pc = "idle"
         /\ cool \in 0 .. Cooldown /\ failed \in 0 .. Cooldown
         /\ HasReplica => /\ cool + failed >= Cooldown
                          /\ th[t].pc = "dialMaster" => failed = Cooldown
         /\ listed["master"] \subseteq held /\ listed["replica"] \subseteq ever
         /\ steady => held = listed["master"]
  BY ThreadAssumption DEF IInv, Exclusive, Copies, BreakerOK, TypeOK, Server, SteadyOK

\* Priming what Justified and Exact say is priming their arguments.
LEMMA PrimedJustified ==
  /\ Justified(answer, Rests(answer, held, ever))'
       <=> Justified(answer', Rests(answer', held', ever'))
  /\ Exact(answer, steady, held)' <=> Exact(answer', steady', held')
  BY DEF Justified, Rests, StandFor, SearchedGroups, roleNames, Exact, RoleGroups

\* The operation goes on, with locals r.
LEMMA ContinuesStep ==
  ASSUME IInv, NEW t \in Thread, th[t].pc # "idle", NEW r, Continues(t, r),
         LocalOK(r), r.pc # "idle",
         UNCHANGED <<network, held>>, steady' \in BOOLEAN, steady' => steady,
         r.pc \in {"groups2", "groups3"} /\ steady' /\ r.conn = "master"
           => RoleGroups(held) = {},
         cool' \in 0 .. Cooldown, failed' \in 0 .. Cooldown,
         HasReplica => /\ cool' + failed' >= Cooldown
                       /\ r.pc = "dialMaster" => failed' = Cooldown
  PROVE  IInv'
  <1>1. /\ th' = [th EXCEPT ![t] = r] /\ owner' = owner /\ answer' = answer
        /\ UNCHANGED <<server, listed, changes, ever, held>>
    BY DEF Continues, network
  <1>2. th \in [Thread -> Local] /\ r \in Local /\ r.pc # "idle"
    BY DEF IInv, LocalOK
  <1>3. /\ th' \in [Thread -> Local]
        /\ \A g \in Thread : th'[g] = IF g = t THEN r ELSE th[g]
    BY <1>1, <1>2
  <1>4. \A g \in Thread : LocalOK(th'[g])
    BY <1>3 DEF IInv
  <1>5. TypeOK'
    <2>1. \A g \in Thread : /\ th'[g].pc \in Pc /\ th'[g].op \in Op \cup {"none"}
                            /\ th'[g].conn \in Server \cup {"none"}
      BY <1>3 DEF Local
    <2> QED
      BY <1>1, <2>1 DEF IInv, TypeOK, Pc
  <1>6. owner = t /\ owner # NoThread /\ \A g \in Thread \ {t} : th[g].pc = "idle"
    BY Holder
  <1>7. Exclusive'
    BY <1>1, <1>2, <1>3, <1>6 DEF IInv, Exclusive
  <1>8. Copies'
    BY <1>1 DEF IInv, Copies
  <1>9. BreakerOK'
    BY <1>3, <1>6 DEF BreakerOK
  <1>10. Justified(answer, Rests(answer, held, ever))'
    <2>1. Justified(answer', Rests(answer', held', ever'))
      BY <1>1 DEF IInv
    <2> QED
      BY <2>1, PrimedJustified
  <1>11. SteadyOK'
    BY <1>1, <1>3, <1>6, <1>2, ThreadAssumption DEF IInv, SteadyOK, RoleGroups
  <1>12. Exact(answer, steady, held)'
    BY <1>1, <1>6 DEF IInv, Exclusive, Exact, NoAnswer, SignsIn
  <1> QED
    BY <1>3, <1>4, <1>5, <1>7, <1>8, <1>9, <1>10, <1>11, <1>12 DEF IInv

\* The operation returns a.
LEMMA ReturnsStep ==
  ASSUME IInv, NEW t \in Thread, th[t].pc # "idle", NEW a, Returns(t, a),
         a.op \in Op \cup {"none"}, Justified(a, Rests(a, held, ever)),
         UNCHANGED <<network, held>>, steady' \in BOOLEAN, Exact(a, steady', held),
         cool' \in 0 .. Cooldown, failed' \in 0 .. Cooldown,
         HasReplica => cool' + failed' >= Cooldown
  PROVE  IInv'
  <1>1. /\ th' = [th EXCEPT ![t] = Idle] /\ owner' = NoThread /\ answer' = a
        /\ UNCHANGED <<server, listed, changes, ever, held>>
    BY DEF Returns, network
  <1>2. th \in [Thread -> Local] /\ Idle \in Local /\ Idle.pc = "idle"
    BY DEF IInv, Idle, Local, Pc
  <1>3. /\ th' \in [Thread -> Local]
        /\ \A g \in Thread : th'[g] = IF g = t THEN Idle ELSE th[g]
    BY <1>1, <1>2
  <1>4. \A g \in Thread : LocalOK(th'[g])
    BY <1>2, <1>3 DEF IInv, LocalOK, Online
  <1>5. TypeOK'
    <2>1. \A g \in Thread : /\ th'[g].pc \in Pc /\ th'[g].op \in Op \cup {"none"}
                            /\ th'[g].conn \in Server \cup {"none"}
      BY <1>3 DEF Local
    <2> QED
      BY <1>1, <2>1 DEF IInv, TypeOK, Pc
  <1>6. \A g \in Thread : th'[g].pc = "idle"
    BY <1>2, <1>3, Holder
  <1>7. Exclusive'
    BY <1>1, <1>6, ThreadAssumption DEF Exclusive
  <1>8. Copies'
    BY <1>1 DEF IInv, Copies
  <1>9. BreakerOK'
    BY <1>6 DEF BreakerOK
  <1>10. Justified(answer, Rests(answer, held, ever))' /\ Exact(answer, steady, held)'
    <2>1. Justified(answer', Rests(answer', held', ever')) /\ Exact(answer', steady', held')
      BY <1>1
    <2> QED
      BY <2>1, PrimedJustified
  <1>11. SteadyOK'
    BY <1>1, <1>6 DEF SteadyOK
  <1> QED
    BY <1>3, <1>4, <1>5, <1>7, <1>8, <1>9, <1>10, <1>11 DEF IInv

\* An answer without a role or a pair claims nothing.
LEMMA NothingOK ==
  ASSUME NEW op \in Op, NEW B
  PROVE  /\ Nothing(op).op = op /\ Nothing(op).from = "none"
         /\ Justified(Nothing(op), B)
  <1>1. /\ Nothing(op).op = op /\ Nothing(op).roles = {} /\ Nothing(op).pairs = {}
        /\ Nothing(op).from = "none"
    BY DEF Nothing, NoAnswer
  <1> QED
    BY <1>1 DEF Justified

\* What a sign-in that could not connect again returns: the default role.
LEMMA UnconnectedOK ==
  ASSUME NEW r, LocalOK(r), r.pc # "idle", NEW B
  PROVE  /\ Unconnected(r).op \in Op /\ Unconnected(r).from = "none"
         /\ Justified(Unconnected(r), B)
  <1>1. r.op \in Op
    BY DEF LocalOK
  <1>2. CASE r.second
    <2> DEFINE a == [Nothing(r.op) EXCEPT !.known = TRUE, !.roles = {"users"}]
    <2>1. Unconnected(r) = a
      BY <1>2 DEF Unconnected
    <2>2. a.op = r.op /\ a.roles = {"users"} /\ a.pairs = {} /\ a.from = "none"
      BY DEF Nothing, NoAnswer
    <2> HIDE DEF a
    <2> QED
      BY <1>1, <2>1, <2>2 DEF Justified
  <1>3. CASE ~r.second
    BY <1>1, <1>3, NothingOK DEF Unconnected
  <1> QED
    BY <1>2, <1>3

\* An answer that no server gave is not one of a steady sign-in.
LEMMA UnansweredExact ==
  ASSUME NEW a, a.from = "none", NEW st, NEW H
  PROVE  Exact(a, st, H)
  BY DEF Exact

\* Where a step leaves the history of the operation alone.
LEMMA SameHistory ==
  ASSUME IInv, UNCHANGED steady
  PROVE  steady' \in BOOLEAN /\ (steady' => steady)
  BY DEF IInv, TypeOK

\* The breaker and the clock, where a step leaves them alone.
LEMMA SameBreaker ==
  ASSUME IInv, NEW t \in Thread, th[t].pc # "idle", UNCHANGED <<cool, failed>>
  PROVE  /\ cool' \in 0 .. Cooldown /\ failed' \in 0 .. Cooldown
         /\ HasReplica => /\ cool' + failed' >= Cooldown
                          /\ th[t].pc = "dialMaster" => failed' = Cooldown
  BY Holder

\* An operation that returns nothing.
LEMMA NothingStep ==
  ASSUME IInv, NEW t \in Thread, th[t].pc # "idle", Returns(t, Nothing(th[t].op)),
         UNCHANGED <<network, cool, held, steady, failed>>
  PROVE  IInv'
  <1> DEFINE a == Nothing(th[t].op)
  <1>1. th[t].op \in Op
    BY Holder DEF LocalOK
  <1>2. a.op \in Op /\ a.from = "none" /\ Justified(a, Rests(a, held, ever))
    BY <1>1, NothingOK
  <1> HIDE DEF a
  <1>3. Returns(t, a)
    BY DEF a
  <1> QED
    BY <1>2, <1>3, SameBreaker, SameHistory, UnansweredExact, ReturnsStep

\* A step of the locals that moves the program counter only.
LEMMA MovedTo ==
  ASSUME NEW r \in Local, NEW pc \in Pc
  PROVE  LET q == [r EXCEPT !.pc = pc] IN
         /\ q \in Local /\ q.pc = pc /\ q.op = r.op /\ q.conn = r.conn
         /\ q.second = r.second
  BY DEF Local

-----------------------------------------------------------------------------
(* The mutex and connectToLDAP().                                          *)

\* Taking the mutex: what the operation may rest on begins with what the master
\* lists now, and the last answer is forgotten.
LEMMA LockStep ==
  ASSUME IInv, NEW t \in Thread, NEW op \in Op, Lock(t, op)
  PROVE  IInv'
  <1> DEFINE r == [th[t] EXCEPT !.pc = "connect", !.op = op]
  <1>1. /\ owner = NoThread /\ owner' = t /\ th' = [th EXCEPT ![t] = r]
        /\ answer' = NoAnswer /\ held' = listed["master"] /\ steady' = TRUE
        /\ UNCHANGED <<server, listed, changes, ever, cool, failed>>
    BY DEF Lock, network
  <1>2. /\ th \in [Thread -> Local] /\ listed \in [Server -> SUBSET Group]
        /\ \A g \in Thread : th[g].pc = "idle"
    BY <1>1, ThreadAssumption DEF IInv, TypeOK, Exclusive
  <1>3. r \in Local /\ r.pc = "connect" /\ r.op = op
    BY <1>2 DEF Local, Pc
  <1> HIDE DEF r
  <1>4. /\ th' \in [Thread -> Local]
        /\ \A g \in Thread : th'[g] = IF g = t THEN r ELSE th[g]
    BY <1>1, <1>2, <1>3
  <1>5. LocalOK(r)
    BY <1>3 DEF LocalOK, Online
  <1>6. \A g \in Thread : LocalOK(th'[g])
    BY <1>4, <1>5 DEF IInv
  <1>7. TypeOK'
    <2>1. \A g \in Thread : /\ th'[g].pc \in Pc /\ th'[g].op \in Op \cup {"none"}
                            /\ th'[g].conn \in Server \cup {"none"}
      BY <1>4 DEF Local
    <2>2. answer'.op \in Op \cup {"none"} /\ held' \in SUBSET Group
      BY <1>1, <1>2 DEF NoAnswer, Server
    <2> QED
      BY <1>1, <2>1, <2>2 DEF IInv, TypeOK, Pc
  <1>8. Exclusive'
    BY <1>1, <1>2, <1>3, <1>4 DEF Exclusive
  <1>9. Copies' /\ BreakerOK'
    BY <1>1, <1>2, <1>3, <1>4 DEF IInv, Copies, BreakerOK
  <1>10. Justified(answer, Rests(answer, held, ever))'
    <2>1. answer'.roles = {} /\ answer'.pairs = {}
      BY <1>1 DEF NoAnswer
    <2> QED
      BY <2>1 DEF Justified
  <1>11. SteadyOK'
    BY <1>1, <1>2, <1>3, <1>4 DEF SteadyOK
  <1>12. Exact(answer, steady, held)'
    BY <1>1 DEF Exact, NoAnswer
  <1> QED
    BY <1>4, <1>6, <1>7, <1>8, <1>9, <1>10, <1>11, <1>12 DEF IInv

\* The master is dialled only when the cooldown is over.
LEMMA ChooseEndpointStep ==
  ASSUME IInv, NEW t \in Thread, ChooseEndpoint(t)
  PROVE  IInv'
  <1> DEFINE pc == IF ~HasReplica \/ cool = 0 THEN "dialMaster" ELSE "dialReplica"
             r == [th[t] EXCEPT !.pc = pc]
  <1>1. th[t].pc = "connect" /\ Continues(t, r) /\ UNCHANGED <<network, cool, held, steady, failed>>
    BY DEF ChooseEndpoint
  <1>2. /\ LocalOK(th[t]) /\ cool \in 0 .. Cooldown /\ failed \in 0 .. Cooldown
        /\ HasReplica => cool + failed >= Cooldown
    BY <1>1, Holder
  <1>3. pc \in {"dialMaster", "dialReplica"} /\ pc \in Pc
    BY DEF Pc
  <1>4. HasReplica /\ pc = "dialMaster" => failed = Cooldown
    BY <1>2, CooldownAssumption
  <1> HIDE DEF pc
  <1>5. r \in Local /\ r.pc = pc /\ r.op = th[t].op
    BY <1>2, <1>3, MovedTo DEF LocalOK
  <1> HIDE DEF r
  <1>6. LocalOK(r)
    BY <1>1, <1>2, <1>3, <1>5 DEF LocalOK, Online
  <1> QED
    BY <1>1, <1>2, <1>3, <1>4, <1>5, <1>6, SameHistory, ContinuesStep

\* The locals once a server has answered.
LEMMA ConnectedOK ==
  ASSUME NEW r, LocalOK(r), r.pc # "idle", NEW s \in Server
  PROVE  /\ LocalOK(Connected(r, s)) /\ Connected(r, s).pc \in Online
         /\ Connected(r, s).pc \notin {"groups2", "groups3"}
  <1> DEFINE pc == CASE r.op \in {"searchUsers", "searchRoles"} -> "list"
                     [] r.second -> "groups1"
                     [] OTHER -> "find"
             q == Connected(r, s)
  <1>1. r \in Local /\ r.op \in Op /\ r.second \in BOOLEAN
    BY DEF LocalOK, Local
  <1>2. pc \in {"list", "groups1", "find"}
        /\ (pc = "find" => r.op \notin {"searchUsers", "searchRoles"})
    BY <1>1
  <1>3. q = [r EXCEPT !.conn = s, !.pc = pc]
    BY DEF Connected
  <1> HIDE DEF pc, q
  <1>4. q \in Local /\ q.pc = pc /\ q.conn = s /\ q.op = r.op
    BY <1>1, <1>2, <1>3 DEF Local, Pc
  <1>5. LocalOK(q) /\ q.pc \in Online /\ q.pc \notin {"groups2", "groups3"}
    BY <1>1, <1>2, <1>4 DEF LocalOK, Online, Pc
  <1> QED
    BY <1>5 DEF q

\* The master answers: reset().
LEMMA DialMasterStep ==
  ASSUME IInv, NEW t \in Thread, DialMaster(t)
  PROVE  IInv'
  <1> DEFINE r == Connected(th[t], "master")
  <1>1. /\ th[t].pc = "dialMaster" /\ Continues(t, r) /\ cool' = 0
        /\ UNCHANGED <<network, held, steady, failed>>
    BY DEF DialMaster
  <1>2. /\ LocalOK(th[t]) /\ failed \in 0 .. Cooldown
        /\ HasReplica => failed = Cooldown
    BY <1>1, Holder
  <1>3. LocalOK(r) /\ r.pc \in Online /\ r.pc \notin {"groups2", "groups3"}
    BY <1>1, <1>2, ConnectedOK DEF Server
  <1> HIDE DEF r
  <1>4. r.pc # "idle" /\ r.pc # "dialMaster"
    BY <1>3 DEF Online
  <1>5. cool' \in 0 .. Cooldown /\ (HasReplica => cool' + failed' >= Cooldown)
    BY <1>1, <1>2, CooldownAssumption
  <1> QED
    BY <1>1, <1>2, <1>3, <1>4, <1>5, SameHistory, ContinuesStep

\* The master does not answer: trip(), and on to the replica if there is one.
LEMMA DialMasterFailsStep ==
  ASSUME IInv, NEW t \in Thread, DialMasterFails(t)
  PROVE  IInv'
  <1>1. th[t].pc = "dialMaster" /\ failed' = 0 /\ UNCHANGED <<network, held, steady>>
    BY DEF DialMasterFails
  <1>2. LocalOK(th[t]) /\ cool \in 0 .. Cooldown /\ failed' \in 0 .. Cooldown
    BY <1>1, Holder, CooldownAssumption
  <1>3. CASE HasReplica
    <2> DEFINE r == [th[t] EXCEPT !.pc = "dialReplica"]
    <2>1. Continues(t, r) /\ cool' = Cooldown
      BY <1>3 DEF DialMasterFails, breakerTrips
    <2>2. r \in Local /\ r.pc = "dialReplica" /\ r.op = th[t].op
      BY <1>2, MovedTo DEF LocalOK, Pc
    <2> HIDE DEF r
    <2>3. LocalOK(r)
      BY <1>1, <1>2, <2>2 DEF LocalOK, Online
    <2>4. cool' \in 0 .. Cooldown /\ cool' + failed' >= Cooldown
      BY <1>1, <2>1, CooldownAssumption
    <2> QED
      BY <1>1, <1>2, <2>1, <2>2, <2>3, <2>4, SameHistory, ContinuesStep
  <1>4. CASE ~HasReplica
    <2> DEFINE a == Unconnected(th[t])
    <2>1. Returns(t, a) /\ cool' = cool
      BY <1>4 DEF DialMasterFails
    <2>2. a.op \in Op /\ a.from = "none" /\ Justified(a, Rests(a, held, ever))
      BY <1>1, <1>2, UnconnectedOK
    <2> HIDE DEF a
    <2> QED
      BY <1>1, <1>2, <1>4, <2>1, <2>2, SameHistory, UnansweredExact, ReturnsStep
  <1> QED
    BY <1>3, <1>4

\* The replica answers or does not; the breaker is not asked.
LEMMA DialReplicaStep ==
  ASSUME IInv, NEW t \in Thread, DialReplica(t) \/ DialReplicaFails(t)
  PROVE  IInv'
  <1>1. th[t].pc = "dialReplica" /\ UNCHANGED <<network, cool, held, steady, failed>>
    BY DEF DialReplica, DialReplicaFails
  <1>2. LocalOK(th[t])
    BY <1>1, Holder
  <1>3. CASE DialReplica(t)
    <2> DEFINE r == Connected(th[t], "replica")
    <2>1. Continues(t, r)
      BY <1>3 DEF DialReplica
    <2>2. LocalOK(r) /\ r.pc \in Online /\ r.pc \notin {"groups2", "groups3"}
      BY <1>1, <1>2, ConnectedOK DEF Server
    <2> HIDE DEF r
    <2>3. r.pc # "idle" /\ r.pc # "dialMaster"
      BY <2>2 DEF Online
    <2> QED
      BY <1>1, <2>1, <2>2, <2>3, SameBreaker, SameHistory, ContinuesStep
  <1>4. CASE DialReplicaFails(t)
    <2> DEFINE a == Unconnected(th[t])
    <2>1. Returns(t, a)
      BY <1>4 DEF DialReplicaFails
    <2>2. a.op \in Op /\ a.from = "none" /\ Justified(a, Rests(a, held, ever))
      BY <1>1, <1>2, UnconnectedOK
    <2> HIDE DEF a
    <2> QED
      BY <1>1, <2>1, <2>2, SameBreaker, SameHistory,
         UnansweredExact, ReturnsStep
  <1> QED
    BY <1>3, <1>4
-----------------------------------------------------------------------------
(* The calls on a connection.                                              *)

\* An operation that goes on from one call on its connection to another.
LEMMA OnwardStep ==
  ASSUME IInv, NEW t \in Thread, th[t].pc \in Online, NEW pc \in Online \ {"find"},
         pc \in {"tenants", "byTenant"} => ~SignsIn(th[t].op),
         Continues(t, [th[t] EXCEPT !.pc = pc]), UNCHANGED <<network, cool, held, failed>>,
         steady' \in BOOLEAN, steady' => steady,
         pc \in {"groups2", "groups3"} /\ steady' /\ th[t].conn = "master"
           => RoleGroups(held) = {}
  PROVE  IInv'
  <1> DEFINE r == [th[t] EXCEPT !.pc = pc]
  <1>1. th[t].pc # "idle" /\ pc \in Pc /\ pc \notin {"idle", "dialMaster"}
    BY DEF Online
  <1>2. LocalOK(th[t])
    BY <1>1, Holder
  <1>3. r \in Local /\ r.pc = pc /\ r.op = th[t].op /\ r.conn = th[t].conn
    BY <1>1, <1>2, MovedTo DEF LocalOK
  <1>4. Continues(t, r)
    OBVIOUS
  <1> HIDE DEF r
  <1>5. LocalOK(r)
    BY <1>1, <1>2, <1>3 DEF LocalOK
  <1> QED
    BY <1>1, <1>3, <1>4, <1>5, SameBreaker, ContinuesStep

\* The user's entry is found.
LEMMA FindUserStep ==
  ASSUME IInv, NEW t \in Thread, FindUser(t)
  PROVE  IInv'
  <1> DEFINE pc == CASE th[t].op = "authenticateUser"   -> "bind"
                     [] th[t].op = "getUserInfoByEmail" -> "groups1"
                     [] th[t].op = "getTenantsForUser"  -> "tenants"
                     [] th[t].op = "getRolesByTenant"   -> "byTenant"
  <1>1. /\ th[t].pc = "find" /\ Continues(t, [th[t] EXCEPT !.pc = pc])
        /\ UNCHANGED <<network, cool, held, steady, failed>>
    BY DEF FindUser
  <1>2. th[t].op \in {"authenticateUser", "getUserInfoByEmail", "getTenantsForUser",
                      "getRolesByTenant"}
    BY <1>1, Holder DEF LocalOK, Op
  <1>3. /\ pc \in {"bind", "groups1", "tenants", "byTenant"}
        /\ pc \in {"tenants", "byTenant"} => ~SignsIn(th[t].op)
    BY <1>2 DEF SignsIn
  <1> HIDE DEF pc
  <1>4. th[t].pc \in Online /\ pc \in Online \ {"find"}
    BY <1>1, <1>3 DEF Online, Pc
  <1> QED
    BY <1>1, <1>3, <1>4, SameHistory, OnwardStep

\* Every return without an answer.
LEMMA RefusedStep ==
  ASSUME IInv, NEW t \in Thread,
         RefuseUnscoped(t) \/ UserNotFound(t) \/ BindRefused(t) \/ ListNames(t)
  PROVE  IInv'
  <1>1. /\ th[t].pc # "idle" /\ Returns(t, Nothing(th[t].op))
        /\ UNCHANGED <<network, cool, held, steady, failed>>
    BY DEF RefuseUnscoped, UserNotFound, BindRefused, ListNames
  <1> QED
    BY <1>1, NothingStep

\* The password is right: back to connectToLDAP().
LEMMA BindUserStep ==
  ASSUME IInv, NEW t \in Thread, BindUser(t)
  PROVE  IInv'
  <1> DEFINE r == [th[t] EXCEPT !.pc = "connect", !.second = TRUE, !.conn = "none"]
  <1>1. th[t].pc = "bind" /\ Continues(t, r) /\ UNCHANGED <<network, cool, held, steady, failed>>
    BY DEF BindUser
  <1>2. LocalOK(th[t])
    BY <1>1, Holder
  <1>3. r \in Local /\ r.pc = "connect" /\ r.op = th[t].op
    BY <1>2 DEF LocalOK, Local, Pc
  <1> HIDE DEF r
  <1>4. LocalOK(r)
    BY <1>1, <1>2, <1>3 DEF LocalOK, Online
  <1> QED
    BY <1>1, <1>3, <1>4, SameBreaker, SameHistory, ContinuesStep

\* The groups of the server that answers are among those the answer rests on.
LEMMA RestsOnServer ==
  ASSUME IInv, NEW t \in Thread, th[t].pc \in Online, NEW a, a.from = th[t].conn
  PROVE  /\ th[t].conn \in Server /\ th[t].op \in Op /\ th[t].pc # "idle"
         /\ listed[th[t].conn] \subseteq Rests(a, held, ever)
  <1>1. th[t].pc # "idle"
    BY DEF Online
  <1>2. LocalOK(th[t]) /\ listed["master"] \subseteq held /\ listed["replica"] \subseteq ever
    BY <1>1, Holder
  <1> QED
    BY <1>1, <1>2 DEF LocalOK, Rests, Server

\* What a sign-in returns after a search.
LEMMA SignedInOK ==
  ASSUME IInv, NEW t \in Thread, th[t].pc \in Online,
         NEW found \in Findable(listed[th[t].conn])
  PROVE  LET a == SignedIn(th[t], found) IN
         /\ a.op = th[t].op /\ a.op \in Op /\ Justified(a, Rests(a, held, ever))
         /\ a.roles = extractRolesFromGroups(found) /\ a.from = th[t].conn
  <1> DEFINE a == SignedIn(th[t], found)
             L == listed[th[t].conn]
  <1>1. /\ a.op = th[t].op /\ a.roles = extractRolesFromGroups(found) /\ a.pairs = {}
        /\ a.from = th[t].conn
    BY DEF SignedIn, Nothing, NoAnswer
  <1> HIDE DEF a
  <1>2. th[t].op \in Op /\ L \subseteq Rests(a, held, ever)
    BY <1>1, RestsOnServer
  <1>3. Justified(a, L)
    BY <1>1, RolesFound DEF Justified
  <1>4. a.op \in Op /\ Justified(a, Rests(a, held, ever))
    BY <1>1, <1>2, <1>3, JustifiedMonotone
  <1> QED
    BY <1>1, <1>4 DEF a

\* One of the three searches, whether it finds anything, nothing, or fails.  The
\* first finds what the role groups are called; the others are reached, while
\* nothing fails or changes on the master, only if there is none.
LEMMA GroupSearchStep ==
  ASSUME IInv, NEW t \in Thread, NEW pc \in {"groups1", "groups2", "groups3"},
         NEW next \in {"groups2", "groups3", "none"},
         NEW found \in Findable(listed[th[t].conn]),
         \/ found = roleNames(RoleGroups(listed[th[t].conn]))
         \/ pc \in {"groups2", "groups3"},
         GroupSearch(t, pc, found, next)
  PROVE  IInv'
  <1> DEFINE L == listed[th[t].conn]
  <1>1. th[t].pc = pc /\ UNCHANGED <<network, cool, held, failed>>
    BY DEF GroupSearch
  <1>2. th[t].pc \in Online /\ th[t].pc # "idle" /\ steady \in BOOLEAN
    BY <1>1 DEF Online, Pc, IInv, TypeOK
  <1>3. PICK roles \in {found, {}} :
          /\ IF roles # {} \/ next = "none"
             THEN Returns(t, SignedIn(th[t], roles))
             ELSE Continues(t, [th[t] EXCEPT !.pc = next])
          /\ steady' = (steady /\ roles = found)
    BY DEF GroupSearch
  <1>4. steady' \in BOOLEAN /\ (steady' => steady) /\ (steady' => roles = found)
    BY <1>2, <1>3
  <1>5. roles \in Findable(L)
    BY <1>3 DEF Findable
  <1>6. steady' /\ th[t].conn = "master" => L = held /\ L \in SUBSET Group
    BY <1>2, <1>4, Holder DEF IInv, TypeOK
  <1>7. steady' /\ th[t].conn = "master" /\ pc # "groups1" => RoleGroups(held) = {}
    BY <1>1, <1>4 DEF IInv, SteadyOK
  <1>8. CASE roles # {} \/ next = "none"
    <2> DEFINE a == SignedIn(th[t], roles)
    <2>1. Returns(t, a)
      BY <1>3, <1>8
    <2>2. /\ a.op \in Op /\ Justified(a, Rests(a, held, ever))
          /\ a.roles = extractRolesFromGroups(roles) /\ a.from = th[t].conn
      BY <1>2, <1>5, SignedInOK
    <2> HIDE DEF a
    <2>3. Exact(a, steady', held)
      <3> SUFFICES ASSUME a.from = "master", steady', RoleGroups(held) # {}
                   PROVE  a.roles = StandFor(RoleGroups(held)) \ Deployment
        BY DEF Exact
      <3>1. L = held /\ L \in SUBSET Group /\ pc = "groups1"
        BY <1>6, <1>7, <2>2
      <3>2. roles = roleNames(RoleGroups(held))
        BY <1>4, <3>1
      <3>3. roles # {}
        BY <3>1, <3>2, NamedGroups
      <3> QED
        BY <2>2, <3>2, <3>3, Mapped
    <2> QED
      BY <1>1, <1>2, <1>4, <2>1, <2>2, <2>3, SameBreaker, ReturnsStep
  <1>9. CASE ~(roles # {} \/ next = "none")
    <2>1. Continues(t, [th[t] EXCEPT !.pc = next])
      BY <1>3, <1>9
    <2>2. next \in Online \ {"find"} /\ next \notin {"tenants", "byTenant"}
      BY <1>9 DEF Online, Pc
    <2>3. steady' /\ th[t].conn = "master" => RoleGroups(held) = {}
      <3> SUFFICES ASSUME steady', th[t].conn = "master", pc = "groups1"
                   PROVE  RoleGroups(held) = {}
        BY <1>7
      <3>1. L = held /\ L \in SUBSET Group
        BY <1>6
      <3>2. roleNames(RoleGroups(held)) = {}
        BY <1>4, <1>9, <3>1
      <3> QED
        BY <3>1, <3>2, NamedGroups
    <2> QED
      BY <1>1, <1>2, <1>4, <2>1, <2>2, <2>3, OnwardStep
  <1> QED
    BY <1>8, <1>9

\* The three searches of a sign-in; with an unusable base the first returns at once.
LEMMA SearchStep ==
  ASSUME IInv, NEW t \in Thread,
         SearchByClass(t) \/ SearchByMember(t) \/ SearchDefaultTenant(t)
  PROVE  IInv'
  <1> DEFINE L == listed[th[t].conn]
  <1>1. CASE SearchByClass(t) /\ roleSearchBase # NoBase
    <2>1. GroupSearch(t, "groups1", byClass(L), "groups2")
      BY <1>1 DEF SearchByClass
    <2>2. byClass(L) \in Findable(L) /\ byClass(L) = roleNames(RoleGroups(L))
      BY <1>1, FoundByClass DEF Findable
    <2> QED
      BY <2>1, <2>2, GroupSearchStep
  <1>2. CASE SearchByClass(t) /\ roleSearchBase = NoBase
    <2> DEFINE a == [Nothing(th[t].op) EXCEPT !.known = TRUE]
    <2>1. /\ th[t].pc = "groups1" /\ Returns(t, a)
          /\ UNCHANGED <<network, cool, held, steady, failed>>
      BY <1>2 DEF SearchByClass
    <2>2. a.op = th[t].op /\ a.roles = {} /\ a.pairs = {} /\ a.from = "none"
      BY DEF Nothing, NoAnswer
    <2> HIDE DEF a
    <2>3. th[t].op \in Op
      BY <2>1, Holder DEF LocalOK
    <2>4. Justified(a, Rests(a, held, ever))
      BY <2>2 DEF Justified
    <2> QED
      BY <2>1, <2>2, <2>3, <2>4, SameBreaker, SameHistory, UnansweredExact, ReturnsStep
  <1>3. CASE SearchByMember(t)
    <2>1. GroupSearch(t, "groups2", byMember(L), "groups3")
      BY <1>3 DEF SearchByMember
    <2>2. byMember(L) \in Findable(L)
      BY DEF Findable
    <2> QED
      BY <2>1, <2>2, GroupSearchStep
  <1>4. CASE SearchDefaultTenant(t)
    <2>1. GroupSearch(t, "groups3", byAnyAttribute(L), "none")
      BY <1>4 DEF SearchDefaultTenant
    <2>2. byAnyAttribute(L) \in Findable(L)
      BY DEF Findable
    <2> QED
      BY <2>1, <2>2, GroupSearchStep
  <1> QED
    BY <1>1, <1>2, <1>3, <1>4

\* getTenantsForUser(): no role is returned.
LEMMA ReadTenantsStep ==
  ASSUME IInv, NEW t \in Thread, ReadTenants(t)
  PROVE  IInv'
  <1>1. th[t].pc = "tenants" /\ UNCHANGED <<network, cool, held, steady, failed>>
    BY DEF ReadTenants
  <1>2. PICK found : Returns(t, [Nothing(th[t].op) EXCEPT !.known = TRUE, !.tenants = found,
                                                         !.from = th[t].conn])
    BY DEF ReadTenants
  <1> DEFINE a == [Nothing(th[t].op) EXCEPT !.known = TRUE, !.tenants = found,
                                            !.from = th[t].conn]
  <1>3. a.op = th[t].op /\ a.roles = {} /\ a.pairs = {}
    BY DEF Nothing, NoAnswer
  <1>4. Returns(t, a)
    BY <1>2
  <1> HIDE DEF a
  <1>5. th[t].op \in Op
    BY <1>1, Holder DEF LocalOK
  <1>6. Justified(a, Rests(a, held, ever))
    BY <1>3 DEF Justified
  <1>7. Exact(a, steady', held)
    BY <1>1, <1>3, Holder DEF LocalOK, Exact
  <1> QED
    BY <1>1, <1>3, <1>4, <1>5, <1>6, <1>7, SameBreaker, SameHistory, ReturnsStep

\* getRolesByTenant(): every pair has its group on the server that answered.
LEMMA ReadRolesByTenantStep ==
  ASSUME IInv, NEW t \in Thread, ReadRolesByTenant(t)
  PROVE  IInv'
  <1> DEFINE L == listed[th[t].conn]
  <1>1. th[t].pc = "byTenant" /\ UNCHANGED <<network, cool, held, steady, failed>>
    BY DEF ReadRolesByTenant
  <1>2. PICK found \in {rolesByTenant(L), {}} :
          Returns(t, [Nothing(th[t].op) EXCEPT !.known = TRUE, !.pairs = found,
                                               !.from = th[t].conn])
    BY DEF ReadRolesByTenant
  <1> DEFINE a == [Nothing(th[t].op) EXCEPT !.known = TRUE, !.pairs = found,
                                            !.from = th[t].conn]
  <1>3. a.op = th[t].op /\ a.roles = {} /\ a.pairs = found /\ a.from = th[t].conn
    BY DEF Nothing, NoAnswer
  <1>4. Returns(t, a)
    BY <1>2
  <1> HIDE DEF a
  <1>5. th[t].pc \in Online
    BY <1>1 DEF Online, Pc
  <1>6. th[t].op \in Op /\ L \subseteq Rests(a, held, ever)
    BY <1>3, <1>5, RestsOnServer
  <1>7. \A p \in found : \E g \in L : g.tenant = p[1] /\ g.cn = p[2] /\ g.attr = "member"
    BY <1>2, PairsFound
  <1>8. Justified(a, L)
    BY <1>3, <1>7 DEF Justified
  <1>9. Justified(a, Rests(a, held, ever))
    BY <1>6, <1>8, JustifiedMonotone
  <1>10. Exact(a, steady', held)
    BY <1>1, <1>3, Holder DEF LocalOK, Exact
  <1> QED
    BY <1>1, <1>3, <1>4, <1>6, <1>9, <1>10, SameBreaker, SameHistory, ReturnsStep
-----------------------------------------------------------------------------
(* The directory servers and the clock.                                    *)

\* The world moves on under a thread: locals and answer stay.
LEMMA WorldStep ==
  ASSUME IInv, UNCHANGED <<owner, th, answer>>,
         server' \in [Server -> {"up", "down", "hung"}],
         listed' \in [Server -> SUBSET Group], changes' \in 0 .. MaxChanges,
         ever' \in SUBSET Group, held' \in SUBSET Group,
         ever \subseteq ever', held \subseteq held', steady' \in BOOLEAN,
         owner = NoThread => UNCHANGED <<held, steady>>, SteadyOK',
         cool' \in 0 .. Cooldown, failed' \in 0 .. Cooldown, Copies', BreakerOK'
  PROVE  IInv'
  <1>1. TypeOK' /\ Exclusive'
    BY DEF IInv, TypeOK, Exclusive
  <1>2. Rests(answer, held, ever) \subseteq Rests(answer', held', ever')
    BY DEF Rests
  <1>3. Justified(answer', Rests(answer', held', ever'))
    BY <1>2, JustifiedMonotone DEF IInv
  <1>4. Exact(answer', steady', held')
    <2>1. CASE owner = NoThread
      BY <2>1 DEF IInv
    <2>2. CASE owner # NoThread
      BY <2>2 DEF IInv, Exclusive, Exact, NoAnswer
    <2> QED
      BY <2>1, <2>2
  <1>5. Justified(answer, Rests(answer, held, ever))' /\ Exact(answer, steady, held)'
    BY <1>3, <1>4, PrimedJustified
  <1> QED
    BY <1>1, <1>5 DEF IInv

\* A server dies, hangs or recovers.
LEMMA ServerChangesStep ==
  ASSUME IInv, NEW s \in Server, NEW st \in {"up", "down", "hung"}, ServerChanges(s, st)
  PROVE  IInv'
  <1>1. UNCHANGED <<listed, changes, cool, owner, th, answer, ever, held, steady, failed>>
    BY DEF ServerChanges
  <1>2. server' \in [Server -> {"up", "down", "hung"}]
    BY DEF ServerChanges, IInv, TypeOK
  <1>3. Copies' /\ BreakerOK' /\ SteadyOK'
    BY <1>1 DEF IInv, Copies, BreakerOK, SteadyOK, RoleGroups
  <1> QED
    BY <1>1, <1>2, <1>3, WorldStep DEF IInv, TypeOK

\* An operation under way is charged with what the master lists meanwhile.
LEMMA ChangeMembershipStep ==
  ASSUME IInv, NEW g \in Group, ChangeMembership(g)
  PROVE  IInv'
  <1> DEFINE G == IF g \in listed["master"] THEN listed["master"] \ {g}
                                            ELSE listed["master"] \cup {g}
  <1>1. /\ changes < MaxChanges /\ changes' = changes + 1
        /\ listed' = [listed EXCEPT !["master"] = G] /\ ever' = ever \cup G
        /\ held' = IF owner = NoThread THEN held ELSE held \cup G
        /\ steady' = (steady /\ owner = NoThread)
        /\ UNCHANGED <<server, cool, owner, th, answer, failed>>
    BY DEF ChangeMembership
  <1>2. /\ listed \in [Server -> SUBSET Group] /\ ever \in SUBSET Group
        /\ held \in SUBSET Group /\ changes \in 0 .. MaxChanges
        /\ server \in [Server -> {"up", "down", "hung"}]
        /\ cool \in 0 .. Cooldown /\ failed \in 0 .. Cooldown /\ steady \in BOOLEAN
    BY DEF IInv, TypeOK
  <1>3. G \in SUBSET Group
    BY <1>2 DEF Server
  <1> HIDE DEF G
  <1>4. /\ listed' \in [Server -> SUBSET Group]
        /\ listed'["master"] = G /\ listed'["replica"] = listed["replica"]
    BY <1>1, <1>2, <1>3 DEF Server
  <1>5. changes' \in 0 .. MaxChanges
    BY <1>1, <1>2, ChangesAssumption
  <1>6. /\ ever' \in SUBSET Group /\ held' \in SUBSET Group
        /\ ever \subseteq ever' /\ held \subseteq held'
    BY <1>1, <1>2, <1>3
  <1>7. Copies'
    BY <1>1, <1>4 DEF IInv, Copies, Server
  <1>8. BreakerOK'
    BY <1>1 DEF IInv, BreakerOK
  <1>9. steady' \in BOOLEAN /\ (owner = NoThread => UNCHANGED <<held, steady>>)
    BY <1>1, <1>2
  <1>10. SteadyOK'
    <2>1. CASE owner = NoThread
      BY <1>1, <1>9, <2>1 DEF IInv, SteadyOK, RoleGroups
    <2>2. CASE owner # NoThread
      BY <1>1, <2>2 DEF SteadyOK
    <2> QED
      BY <2>1, <2>2
  <1> QED
    BY <1>1, <1>2, <1>4, <1>5, <1>6, <1>7, <1>8, <1>9, <1>10, WorldStep

\* The replica catches up.
LEMMA ReplicateStep ==
  ASSUME IInv, Replicate
  PROVE  IInv'
  <1>1. /\ listed' = [listed EXCEPT !["replica"] = listed["master"]]
        /\ UNCHANGED <<server, changes, cool, owner, th, answer, ever, held, steady, failed>>
    BY DEF Replicate
  <1>2. listed \in [Server -> SUBSET Group]
    BY DEF IInv, TypeOK
  <1>3. /\ listed' \in [Server -> SUBSET Group]
        /\ \A s \in Server : listed'[s] = listed[s] \/ listed'[s] = listed["master"]
        /\ listed'["master"] = listed["master"] /\ "master" \in Server
    BY <1>1, <1>2 DEF Server
  <1>4. Copies'
    BY <1>1, <1>3 DEF IInv, Copies
  <1>5. BreakerOK' /\ SteadyOK'
    BY <1>1, <1>3 DEF IInv, BreakerOK, SteadyOK, RoleGroups
  <1> QED
    BY <1>1, <1>3, <1>4, <1>5, WorldStep DEF IInv, TypeOK

\* A second passes: the cooldown shrinks no faster than the last failure ages.
LEMMA TickStep ==
  ASSUME IInv, Tick
  PROVE  IInv'
  <1>1. /\ cool' = IF cool > 0 THEN cool - 1 ELSE 0
        /\ failed' = IF failed < Cooldown THEN failed + 1 ELSE Cooldown
        /\ UNCHANGED <<server, listed, changes, ever, owner, th, answer, held, steady>>
    BY DEF Tick, network
  <1>2. cool \in 0 .. Cooldown /\ failed \in 0 .. Cooldown /\ Cooldown \in Nat
    BY CooldownAssumption DEF IInv, TypeOK
  <1>3. /\ cool' \in 0 .. Cooldown /\ failed' \in 0 .. Cooldown
        /\ failed = Cooldown => failed' = Cooldown
        /\ cool + failed >= Cooldown => cool' + failed' >= Cooldown
    BY <1>1, <1>2
  <1>4. BreakerOK' /\ Copies' /\ SteadyOK'
    BY <1>1, <1>3 DEF IInv, BreakerOK, Copies, SteadyOK, RoleGroups
  <1> QED
    BY <1>1, <1>3, <1>4, WorldStep DEF IInv, TypeOK

-----------------------------------------------------------------------------
(* The specification.                                                      *)

\* Nothing listed that has not been, nobody in the critical section.
LEMMA InitIInv == Init => IInv
  <1> SUFFICES ASSUME Init PROVE IInv
    OBVIOUS
  <1>1. /\ owner = NoThread /\ th = [t \in Thread |-> Idle] /\ answer = NoAnswer
        /\ cool = 0 /\ failed = Cooldown /\ held = {} /\ steady = TRUE
    BY DEF Init
  <1>2. /\ listed \in [Server -> SUBSET Group] /\ ever \in SUBSET Group
        /\ \A s \in Server : listed[s] \subseteq ever
    BY DEF Init
  <1>3. Idle \in Local /\ Idle.pc = "idle" /\ LocalOK(Idle)
    BY DEF Idle, Local, LocalOK, Online, Pc
  <1>4. th \in [Thread -> Local] /\ \A t \in Thread : th[t] = Idle
    BY <1>1, <1>3
  <1>5. TypeOK
    <2>1. \A t \in Thread : /\ th[t].pc \in Pc /\ th[t].op \in Op \cup {"none"}
                            /\ th[t].conn \in Server \cup {"none"}
      BY <1>4 DEF Local
    <2>2. server \in [Server -> {"up", "down", "hung"}] /\ answer.op = "none"
      BY <1>1 DEF Init, NoAnswer
    <2>3. changes \in 0 .. MaxChanges /\ cool \in 0 .. Cooldown /\ failed \in 0 .. Cooldown
      BY <1>1, ChangesAssumption, CooldownAssumption DEF Init
    <2> QED
      BY <1>1, <1>2, <2>1, <2>2, <2>3 DEF TypeOK, Pc
  <1>6. Exclusive /\ Copies
    BY <1>1, <1>2, <1>3, <1>4, ThreadAssumption DEF Exclusive, Copies
  <1>7. BreakerOK
    BY <1>1, <1>3, <1>4, CooldownAssumption DEF BreakerOK
  <1>8. Justified(answer, Rests(answer, held, ever))
    <2>1. answer.roles = {} /\ answer.pairs = {}
      BY <1>1 DEF NoAnswer
    <2> QED
      BY <2>1 DEF Justified
  <1>9. SteadyOK /\ Exact(answer, steady, held)
    BY <1>1, <1>3, <1>4 DEF SteadyOK, Exact, NoAnswer
  <1> QED
    BY <1>3, <1>4, <1>5, <1>6, <1>7, <1>8, <1>9 DEF IInv

\* One step per action.
LEMMA NextIInv == IInv /\ [Next]_vars => IInv'
  <1> SUFFICES ASSUME IInv, [Next]_vars PROVE IInv'
    OBVIOUS
  <1>1. ASSUME NEW t \in Thread, Step(t) PROVE IInv'
    BY <1>1, RefusedStep, ChooseEndpointStep, DialMasterStep, DialMasterFailsStep,
       DialReplicaStep, FindUserStep, BindUserStep, SearchStep, ReadTenantsStep,
       ReadRolesByTenantStep DEF Step
  <1>2. CASE UNCHANGED vars
    <2>1. /\ Justified(answer, Rests(answer, held, ever))'
          /\ Exact(answer, steady, held)'
      BY <1>2, PrimedJustified DEF vars, IInv
    <2>2. SteadyOK'
      BY <1>2 DEF vars, IInv, SteadyOK, RoleGroups
    <2> QED
      BY <1>2, <2>1, <2>2 DEF vars, IInv, TypeOK, Exclusive, Copies, BreakerOK
  <1> QED
    BY <1>1, <1>2, LockStep, ServerChangesStep, ChangeMembershipStep, ReplicateStep,
       TickStep DEF Next

(* One operation at a time holds ldap_mutex_, the breaker's cooldown outlasts *)
(* the master's last failure, and what an operation returned rests on groups  *)
(* that listed the user.                                                      *)
THEOREM Inductive == Spec => []IInv
  BY InitIInv, NextIInv, PTL DEF Spec

(* The state of LDAPAuthenticator and its CircuitBreaker keeps its type.      *)
THEOREM TypeCorrect == Spec => []TypeOK
  <1>1. IInv => TypeOK
    BY DEF IInv
  <1> QED
    BY <1>1, Inductive, PTL

(* Sign-ins: a role is the default one or comes from a group that the three   *)
(* searches may reach, in the tenants' subtree and nowhere else, although     *)
(* servers fail, lag and are written to between the calls.                    *)
THEOREM Earned == Spec => []RolesEarned
  <1>1. IInv => RolesEarned
    BY DEF IInv, Justified, Rests, RolesEarned, Backing
  <1> QED
    BY <1>1, Inductive, PTL

(* extractRolesFromGroups() on a directory that neither fails nor changes     *)
(* meanwhile: the names of the user's role groups, what they stand for, and   *)
(* nothing else.                                                              *)
THEOREM ExactRoles == Spec => []SignInExact
  <1>1. IInv => SignInExact
    BY DEF IInv, Exact, SignInExact, SteadySignIn, SignsIn
  <1> QED
    BY <1>1, Inductive, PTL

(* getRolesByTenant(): a role appears only under a tenant whose own group of  *)
(* that name lists the user as a member.                                      *)
THEOREM UnderTheirTenant == Spec => []RolesUnderTheirTenant
  <1>1. IInv => RolesUnderTheirTenant
    BY DEF IInv, Justified, Rests, RolesUnderTheirTenant, Backing
  <1> QED
    BY <1>1, Inductive, PTL

\* Only ChooseEndpoint dials the master.
LEMMA OnlyChoiceDials ==
  ASSUME IInv, Next, NEW t \in Thread, th[t].pc = "connect", th'[t].pc = "dialMaster"
  PROVE  ChooseEndpoint(t)
  <1>1. th \in [Thread -> Local] /\ owner = t /\ owner # NoThread /\ th' # th
    BY Holder DEF IInv
  <1>2. \E g \in Thread : Step(g)
    BY <1>1 DEF Next, Lock, ServerChanges, ChangeMembership, Replicate, Tick
  <1>3. PICK g \in Thread : Step(g)
    BY <1>2
  <1>4. th[g].pc # "idle"
    BY <1>3 DEF Step, RefuseUnscoped, ChooseEndpoint, DialMaster, DialMasterFails,
       DialReplica, DialReplicaFails, FindUser, UserNotFound, BindUser, BindRefused,
       SearchByClass, SearchByMember, SearchDefaultTenant, GroupSearch, ReadTenants,
       ReadRolesByTenant, ListNames
  <1>5. g = t
    BY <1>1, <1>4 DEF IInv, Exclusive
  <1>6. ChooseEndpoint(t) \/ RefuseUnscoped(t)
    BY <1>3, <1>5 DEF Step, DialMaster, DialMasterFails,
       DialReplica, DialReplicaFails, FindUser, UserNotFound, BindUser, BindRefused,
       SearchByClass, SearchByMember, SearchDefaultTenant, GroupSearch, ReadTenants,
       ReadRolesByTenant, ListNames
  <1>7. ~RefuseUnscoped(t)
    BY <1>1 DEF RefuseUnscoped, Returns, Idle
  <1> QED
    BY <1>6, <1>7

(* CircuitBreaker: with a replica configured, no operation connects to the    *)
(* master within the cooldown after a connect to it failed, the second        *)
(* connection of the same sign-in included.                                   *)
THEOREM MasterSpared == Spec => ProbesSpaced
  <1> DEFINE A == \A t \in Thread :
                    HasReplica /\ th[t].pc = "connect" /\ th'[t].pc = "dialMaster"
                      => failed = Cooldown
  <1>1. IInv /\ [Next]_vars => [A]_vars
    <2> SUFFICES ASSUME IInv, Next, NEW t \in Thread, HasReplica,
                        th[t].pc = "connect", th'[t].pc = "dialMaster"
                 PROVE  failed = Cooldown
      BY DEF vars
    <2>1. ChooseEndpoint(t)
      BY OnlyChoiceDials
    <2>2. th \in [Thread -> Local] /\ failed \in 0 .. Cooldown /\ cool \in 0 .. Cooldown
          /\ cool + failed >= Cooldown
      BY DEF IInv, TypeOK, BreakerOK
    <2>3. cool = 0
      BY <2>1, <2>2 DEF ChooseEndpoint, Continues, Local
    <2> QED
      BY <2>2, <2>3, CooldownAssumption
  <1> QED
    BY <1>1, Inductive, PTL DEF Spec, ProbesSpaced
-----------------------------------------------------------------------------
(* The two doors.                                                          *)

\* The ordinary groups of one tenant: both searches read their names.
LEMMA OrdinaryGroups ==
  ASSUME NEW G, NEW tenant, tenant # NoTenant,
         \A g \in G : Ordinary(g) /\ g.tenant = tenant
  PROVE  LET C == {g.cn : g \in G} IN
         /\ RoleGroups(G) = G /\ roleNames(G) = C
         /\ {p[2] : p \in {q \in rolesByTenant(G) : q[1] = tenant}} = C
         /\ \A n \in C : ~isDeploymentRole(n)
  <1> DEFINE C == {g.cn : g \in G}
             P == {<<g.tenant, g.cn>> : g \in G}
  <1>1. \A g \in G : /\ TenantBase \in g.under /\ g.class = "groupOfNames"
                     /\ g.attr = "member" /\ g.names = {g.cn} /\ Lower[g.cn] = g.cn
                     /\ ~isDeploymentRole(g.cn) /\ g.tenant = tenant
    BY DEF Ordinary, RoleGroups
  <1>2. RoleGroups(G) = G
    BY <1>1 DEF RoleGroups
  <1>3. roleNames(G) = C
    BY <1>1 DEF roleNames
  <1>4. rolesByTenant(G) = P
    <2>1. {x \in Under(G, TenantBase) : /\ x.class = "groupOfNames" /\ x.attr = "member"
                                        /\ x.tenant # NoTenant} = G
      BY <1>1 DEF Under
    <2> QED
      BY <2>1 DEF rolesByTenant
  <1>5. {q \in P : q[1] = tenant} = P
    <2>1. \A q \in P : q[1] = tenant
      BY <1>1
    <2> HIDE DEF P
    <2> QED
      BY <2>1
  <1>6. {p[2] : p \in P} = C
    <2>1. \A g \in G : <<g.tenant, g.cn>> \in P /\ <<g.tenant, g.cn>>[2] = g.cn
      OBVIOUS
    <2>2. \A p \in P : \E g \in G : p[2] = g.cn
      OBVIOUS
    <2> HIDE DEF P
    <2>3. ASSUME NEW g \in G PROVE g.cn \in {p[2] : p \in P}
      BY <2>1
    <2>4. ASSUME NEW p \in P PROVE p[2] \in {g.cn : g \in G}
      BY <2>2
    <2> QED
      BY <2>3, <2>4
  <1>7. \A n \in C : ~isDeploymentRole(n)
    BY <1>1
  <1> HIDE DEF P
  <1> QED
    BY <1>2, <1>3, <1>4, <1>5, <1>6, <1>7

\* The mapping at sign-in and the mapping at the call to the core agree on names
\* outside the deployment namespace.
LEMMA MappingsAgree ==
  ASSUME NEW C, \A n \in C : ~isDeploymentRole(n)
  PROVE  effectiveRoles(extractRolesFromGroups(C)) \ {"users"} = effectiveRoles(C) \ {"users"}
  <1> DEFINE R == extractRolesFromGroups(C)
  <1>1. \A r : r \in R <=> r \in mapGroups(C) /\ ~isDeploymentRole(r)
    BY DEF extractRolesFromGroups, stripDeploymentRoles
  <1> HIDE DEF R
  <1>2. \A r : r \in effectiveRoles(C) <=>
                 \/ r \in C
                 \/ r = "tenant_admin" /\ "administrators" \in C
                 \/ r = "erasure_admin" /\ "erasure_admins" \in C
    BY DEF effectiveRoles
  <1>3. \A r : r \in effectiveRoles(R) <=>
                 \/ r \in R
                 \/ r = "tenant_admin" /\ "administrators" \in R
                 \/ r = "erasure_admin" /\ "erasure_admins" \in R
    BY DEF effectiveRoles
  <1>4. \A r : r # "users" =>
          (r \in mapGroups(C) <=> \/ r \in C
                                  \/ r = "tenant_admin" /\ "administrators" \in C
                                  \/ r = "erasure_admin" /\ "erasure_admins" \in C)
    BY DEF mapGroups
  <1>5. /\ "administrators" \in R <=> "administrators" \in C
        /\ "erasure_admins" \in R <=> "erasure_admins" \in C
    BY <1>1, <1>4
  <1>6. \A r : r # "users" => (r \in effectiveRoles(R) <=> r \in effectiveRoles(C))
    BY <1>1, <1>2, <1>3, <1>4, <1>5
  <1> QED
    BY <1>6 DEF R

(* effectiveRoles(): whatever the directory holds and whatever happened       *)
(* before, a user whose groups are all ordinary groups of one tenant is       *)
(* answered the same identity at the password door as a token of that tenant  *)
(* carries.                                                                   *)
THEOREM SameIdentity == Spec => []DoorsAgree
  <1>1. IInv => DoorsAgree
    <2> SUFFICES ASSUME IInv, NEW tenant \in {g.tenant : g \in Group} \ {NoTenant},
                        SteadySignIn("authenticateUser"),
                        \A g \in held : Ordinary(g) /\ g.tenant = tenant
                 PROVE
        LET bearer == {p[2] : p \in {q \in rolesByTenant(held) : q[1] = tenant}}
        IN  effectiveRoles(answer.roles) \ {"users"} = effectiveRoles(bearer) \ {"users"}
      BY DEF DoorsAgree
    <2> DEFINE C == {g.cn : g \in held}
    <2>1. /\ RoleGroups(held) = held /\ roleNames(held) = C
          /\ {p[2] : p \in {q \in rolesByTenant(held) : q[1] = tenant}} = C
          /\ \A n \in C : ~isDeploymentRole(n)
      BY OrdinaryGroups
    <2>2. held = {} => C = {}
      OBVIOUS
    <2>3. held # {} => C # {}
      OBVIOUS
    <2> HIDE DEF C
    <2>4. CASE held = {}
      <3>1. answer.roles \subseteq {"users"}
        <4>1. answer.roles \subseteq {"users"} \cup StandFor(SearchedGroups(held))
          BY DEF IInv, Justified, Rests, SteadySignIn
        <4>2. SearchedGroups(held) = {}
          BY <2>4 DEF SearchedGroups
        <4>3. StandFor({}) = {}
          BY DEF StandFor, roleNames
        <4> QED
          BY <4>1, <4>2, <4>3
      <3>2. effectiveRoles(answer.roles) \subseteq {"users"} /\ effectiveRoles(C) = {}
        BY <2>2, <2>4, <3>1 DEF effectiveRoles
      <3> QED
        BY <2>1, <3>2
    <2>5. CASE held # {}
      <3>1. answer.roles = StandFor(held) \ Deployment
        BY <2>1, <2>5 DEF IInv, Exact, SteadySignIn, SignsIn
      <3>2. answer.roles = extractRolesFromGroups(C)
        BY <2>1, <2>3, <2>5, <3>1, Mapped
      <3>3. effectiveRoles(extractRolesFromGroups(C)) \ {"users"}
              = effectiveRoles(C) \ {"users"}
        BY <2>1, MappingsAgree
      <3> QED
        BY <2>1, <3>2, <3>3
    <2> QED
      BY <2>4, <2>5
  <1> QED
    BY <1>1, Inductive, PTL
================================================================================
