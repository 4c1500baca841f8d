--------------------------- MODULE OrganizationScope ---------------------------
(***************************************************************************)
(* The enterprise hierarchy and the reach of identities in it:             *)
(* organizations, plants and areas, the bindings of users to subtrees and  *)
(* of devices to areas (backend/app/api/organizations.py, the tables of    *)
(* security/org_models.py), and the resolution of a caller's reach         *)
(* (security/scope_policy.py).                                             *)
(*                                                                         *)
(* A request that checks a row and inserts one that refers to it is one    *)
(* step, as the foreign key holds both together.  Bindings have no foreign *)
(* key: their replacement is a validation, a DELETE that removes the rows  *)
(* of its snapshot, and the inserts with the commit.  A caller's reach is  *)
(* resolved with several queries, each of which sees what is committed     *)
(* then.  Names are left out, and so are the requests that only rename.    *)
(***************************************************************************)
EXTENDS Integers, FiniteSets

CONSTANTS
  Orgs, Plants, Areas, Devices, Principals,
  Wildcards,      \* the users that hold the RBAC wildcard
  Requests,       \* replacements of bindings in flight at a time
  Unused, Gone,   \* a row that has not been created, one that has been deleted
  NoArea

ASSUME WildcardAssumption == Wildcards \subseteq Principals
ASSUME NullAssumption ==
  /\ Unused \notin Orgs \cup Plants /\ Gone \notin Orgs \cup Plants /\ Unused # Gone
  /\ NoArea \notin Areas

VARIABLES
  organization,   \* organizations: "live", or Unused, or Gone
  plant,          \* plants: its organization, or Unused, or Gone
  area,           \* areas: its plant, or Unused, or Gone
  device_scope,   \* device_scopes: device -> its area, or NoArea
  user_scope,     \* user_scopes: user -> set of <<level, id>>
  request,        \* replacements of bindings in flight
  resolution      \* the resolution of a caller's reach in flight

hierarchy == << organization, plant, area, device_scope >>
scope_vars == << organization, plant, area, device_scope, user_scope, request, resolution >>

LiveOrgs   == { o \in Orgs : organization[o] = "live" }
LivePlants == { p \in Plants : plant[p] \in Orgs }
LiveAreas  == { a \in Areas : area[a] \in Plants }

Bindings == ({"ORGANIZATION"} \X Orgs) \cup ({"PLANT"} \X Plants) \cup ({"AREA"} \X Areas)

NoReplacement == [pc |-> "idle", user |-> "none", bindings |-> {}, doomed |-> {}]
NoResolution  == [pc |-> "idle", user |-> "none", bindings |-> {}, plants |-> {}, areas |-> {}]

ScopeInit ==
  /\ organization = [o \in Orgs |-> Unused]
  /\ plant = [p \in Plants |-> Unused]
  /\ area = [a \in Areas |-> Unused]
  /\ device_scope = [d \in Devices |-> NoArea]
  /\ user_scope = [u \in Principals |-> {}]
  /\ request = [r \in Requests |-> NoReplacement]
  /\ resolution = NoResolution

-----------------------------------------------------------------------------
(* The hierarchy                                                            *)

create_organization(o) ==
  /\ organization[o] = Unused
  /\ organization' = [organization EXCEPT ![o] = "live"]
  /\ UNCHANGED << plant, area, device_scope, user_scope, request, resolution >>

create_plant(p, o) ==
  /\ o \in LiveOrgs
  /\ plant[p] = Unused
  /\ plant' = [plant EXCEPT ![p] = o]
  /\ UNCHANGED << organization, area, device_scope, user_scope, request, resolution >>

create_area(a, p) ==
  /\ p \in LivePlants
  /\ area[a] = Unused
  /\ area' = [area EXCEPT ![a] = p]
  /\ UNCHANGED << organization, plant, device_scope, user_scope, request, resolution >>

\* Mutant: areas go without the devices that are associated with them.
DropAreas_keeping_devices(gone) ==
  /\ area' = [a \in Areas |-> IF a \in gone THEN Gone ELSE area[a]]
  /\ UNCHANGED device_scope

\* ON DELETE CASCADE: areas take the associations of devices with them.
DropAreas(gone) ==
  /\ area' = [a \in Areas |-> IF a \in gone THEN Gone ELSE area[a]]
  /\ device_scope' = [d \in Devices |-> IF device_scope[d] \in gone THEN NoArea
                                        ELSE device_scope[d]]

\* ON DELETE CASCADE: plants take their areas with them.
DropPlants(gone) ==
  /\ plant' = [p \in Plants |-> IF p \in gone THEN Gone ELSE plant[p]]
  /\ DropAreas({ a \in LiveAreas : area[a] \in gone })

delete_organization(o) ==
  /\ o \in LiveOrgs
  /\ organization' = [organization EXCEPT ![o] = Gone]
  /\ DropPlants({ p \in LivePlants : plant[p] = o })
  /\ UNCHANGED << user_scope, request, resolution >>

delete_plant(p) ==
  /\ p \in LivePlants
  /\ DropPlants({p})
  /\ UNCHANGED << organization, user_scope, request, resolution >>

delete_area(a) ==
  /\ a \in LiveAreas
  /\ DropAreas({a})
  /\ UNCHANGED << organization, plant, user_scope, request, resolution >>

\* A device has one area; NoArea clears the association.
set_device_scope(d, a) ==
  /\ a \in LiveAreas \cup {NoArea}
  /\ device_scope' = [device_scope EXCEPT ![d] = a]
  /\ UNCHANGED << organization, plant, area, user_scope, request, resolution >>

-----------------------------------------------------------------------------
(* Bindings                                                                 *)

\* The pair names a row that is there.
_validate_binding_target(b) ==
  \/ b[1] = "ORGANIZATION" /\ b[2] \in LiveOrgs
  \/ b[1] = "PLANT" /\ b[2] \in LivePlants
  \/ b[1] = "AREA" /\ b[2] \in LiveAreas

set_user_scopes(r, u, bindings) ==
  /\ request[r].pc = "idle"
  /\ \A b \in bindings : _validate_binding_target(b)
  /\ request' = [request EXCEPT ![r] = [pc |-> "validated", user |-> u, bindings |-> bindings,
                                        doomed |-> {}]]
  /\ UNCHANGED << hierarchy, user_scope, resolution >>

\* The DELETE takes its snapshot: these rows go when the request commits.
ScopesDeleted(r) ==
  /\ request[r].pc = "validated"
  /\ request' = [request EXCEPT ![r].pc = "deleted", ![r].doomed = user_scope[request[r].user]]
  /\ UNCHANGED << hierarchy, user_scope, resolution >>

\* Rows that were committed since the snapshot stay, and the primary key refuses to
\* insert one of them again.  A row that is inserted anew is not in the snapshot of
\* another request, though one like it was.
ScopesCommitted(r) ==
  LET k == request[r] IN
  /\ k.pc = "deleted"
  /\ (user_scope[k.user] \ k.doomed) \cap k.bindings = {}
  /\ user_scope' = [user_scope EXCEPT ![k.user] = (@ \ k.doomed) \cup k.bindings]
  /\ request' = [q \in Requests |->
       IF q = r THEN NoReplacement
       ELSE IF request[q].user = k.user
            THEN [request[q] EXCEPT !.doomed = @ \ k.bindings] ELSE request[q]]
  /\ UNCHANGED << hierarchy, resolution >>

\* The request fails, or its process does.
ScopesRolledBack(r) ==
  /\ request[r].pc # "idle"
  /\ request' = [request EXCEPT ![r] = NoReplacement]
  /\ UNCHANGED << hierarchy, user_scope, resolution >>

-----------------------------------------------------------------------------
(* Reach                                                                    *)

Ids(bindings, level) == { b[2] : b \in { c \in bindings : c[1] = level } }

PlantsOf(orgs)   == { p \in LivePlants : plant[p] \in orgs }
AreasOf(plants)  == { a \in LiveAreas : area[a] \in plants }
DevicesOf(areas) == { d \in Devices : device_scope[d] \in areas }

\* Mutant: a binding to an organization stops at its plants.
ReachedAreas_flat(bindings, org_plants) ==
  Ids(bindings, "AREA") \cup AreasOf(Ids(bindings, "PLANT"))

\* The areas that bindings reach: bound ones, those of bound plants, and those of the
\* plants of bound organizations.
ReachedAreas(bindings, org_plants) ==
  Ids(bindings, "AREA") \cup AreasOf(Ids(bindings, "PLANT") \cup org_plants)

\* resolve_device_access, one query after another: the bindings, ...
ResolveBindings(u) ==
  /\ resolution.pc = "idle"
  /\ u \notin Wildcards
  /\ user_scope[u] # {}
  /\ resolution' = [NoResolution EXCEPT !.pc = "bound", !.user = u, !.bindings = user_scope[u]]
  /\ UNCHANGED << hierarchy, user_scope, request >>

\* ... the areas of plants, ...
ResolveAreas ==
  /\ resolution.pc = "bound"
  /\ resolution' = [resolution EXCEPT !.pc = "areas", !.areas = ReachedAreas(resolution.bindings, {})]
  /\ UNCHANGED << hierarchy, user_scope, request >>

\* ... the plants of organizations, ...
ResolvePlants ==
  /\ resolution.pc = "areas"
  /\ resolution' = [resolution EXCEPT !.pc = "plants",
                                      !.plants = PlantsOf(Ids(resolution.bindings, "ORGANIZATION"))]
  /\ UNCHANGED << hierarchy, user_scope, request >>

\* ... the areas of those ...
ResolveOrgAreas ==
  /\ resolution.pc = "plants"
  /\ resolution' = [resolution EXCEPT !.pc = "resolved", !.areas = @ \cup AreasOf(resolution.plants)]
  /\ UNCHANGED << hierarchy, user_scope, request >>

\* ... and the devices, of which the request goes on with one that is in reach.
Admitted(d) == resolution.pc = "resolved" /\ d \in DevicesOf(resolution.areas)

ensure_device_in_scope(d) ==
  /\ Admitted(d)
  /\ resolution' = NoResolution
  /\ UNCHANGED << hierarchy, user_scope, request >>

\* 403 SCOPE_DENIED.
ScopeDenied ==
  /\ resolution.pc = "resolved"
  /\ resolution' = NoResolution
  /\ UNCHANGED << hierarchy, user_scope, request >>

\* resolve_device_access of a caller that holds the wildcard, has no bindings, or is
\* not disturbed by other requests.
resolve_device_access(u) ==
  IF u \in Wildcards THEN Devices
  ELSE DevicesOf(ReachedAreas(user_scope[u], PlantsOf(Ids(user_scope[u], "ORGANIZATION"))))

\* resolve_organization_access: ancestors of what is bound, areas first, and then the
\* descendants of all that has been collected.
resolve_organization_access(u) ==
  LET bound   == user_scope[u]
      areas   == Ids(bound, "AREA")
      plants  == Ids(bound, "PLANT") \cup { area[a] : a \in areas \cap LiveAreas }
      orgs    == Ids(bound, "ORGANIZATION") \cup { plant[p] : p \in plants \cap LivePlants }
      plants2 == plants \cup PlantsOf(orgs)
  IN  [orgs |-> orgs, plants |-> plants2, areas |-> areas \cup AreasOf(plants2)]

-----------------------------------------------------------------------------
HierarchyStep ==
  \/ \E o \in Orgs : create_organization(o) \/ delete_organization(o)
  \/ \E p \in Plants : delete_plant(p) \/ \E o \in Orgs : create_plant(p, o)
  \/ \E a \in Areas : delete_area(a) \/ \E p \in Plants : create_area(a, p)
  \/ \E d \in Devices, a \in Areas \cup {NoArea} : set_device_scope(d, a)

ScopeNext ==
  \/ HierarchyStep
  \/ \E r \in Requests :
       \/ \E u \in Principals, bindings \in SUBSET Bindings :
            Cardinality(bindings) <= 1 /\ set_user_scopes(r, u, bindings)
       \/ ScopesDeleted(r) \/ ScopesCommitted(r) \/ ScopesRolledBack(r)
  \/ \E u \in Principals : ResolveBindings(u)
  \/ ResolveAreas \/ ResolvePlants \/ ResolveOrgAreas \/ ScopeDenied
  \/ \E d \in Devices : ensure_device_in_scope(d)

ScopeSpec == ScopeInit /\ [][ScopeNext]_scope_vars

-----------------------------------------------------------------------------
(* Properties                                                               *)

\* Rows refer to rows or to nothing.
ScopeTypeOK ==
  /\ organization \in [Orgs -> {"live", Unused, Gone}]
  /\ plant \in [Plants -> Orgs \cup {Unused, Gone}]
  /\ area \in [Areas -> Plants \cup {Unused, Gone}]
  /\ device_scope \in [Devices -> Areas \cup {NoArea}]
  /\ user_scope \in [Principals -> SUBSET Bindings]
  /\ request \in [Requests -> [ pc : { "idle", "validated", "deleted" }, user : Principals \cup {"none"},
                                bindings : SUBSET Bindings, doomed : SUBSET Bindings ]]
  /\ resolution \in [ pc : { "idle", "bound", "areas", "plants", "resolved" }, user : Principals \cup {"none"},
                      bindings : SUBSET Bindings, plants : SUBSET Plants, areas : SUBSET Areas ]

\* Whatever is deleted takes what hangs from it along: the hierarchy is a forest whose
\* leaves are devices.
NoOrphans ==
  /\ ScopeTypeOK
  /\ \A p \in LivePlants : plant[p] \in LiveOrgs
  /\ \A a \in LiveAreas : area[a] \in LivePlants
  /\ \A d \in Devices : device_scope[d] # NoArea => device_scope[d] \in LiveAreas

\* The nodes above a device, from its area to its organization.
Above(d) ==
  LET a == device_scope[d] IN
  IF a \in LiveAreas /\ area[a] \in LivePlants
  THEN { <<"AREA", a>>, <<"PLANT", area[a]>>, <<"ORGANIZATION", plant[area[a]]>> }
  ELSE {}

\* A request that is let through acts on a device that is, at that moment, below a node
\* the caller was bound to when its bindings were read, though devices move, subtrees are
\* deleted and bindings replaced between the queries (scope_policy.py:160-183).
AdmittedBelowBinding ==
  \A d \in Devices : Admitted(d) => Above(d) \cap resolution.bindings # {}

\* The hierarchy stays a forest (org_models.py, ON DELETE CASCADE), and
\* a caller reaches exactly the devices below a node it is bound to, looked at from the
\* device upwards, and sees every node on the way to them (scope_policy.py, both
\* resolutions); a binding to what has been deleted reaches nothing.
ReachIsSubtree ==
  NoOrphans /\
  \A u \in Principals \ Wildcards :
    LET reached == resolve_device_access(u)
        seen    == resolve_organization_access(u)
    IN  /\ reached = { d \in Devices : Above(d) \cap user_scope[u] # {} }
        /\ \A d \in reached : /\ device_scope[d] \in seen.areas
                              /\ area[device_scope[d]] \in seen.plants
                              /\ plant[area[device_scope[d]]] \in seen.orgs
=============================================================================
