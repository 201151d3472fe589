---------------------------- MODULE WorkspaceProofs ----------------------------
(***************************************************************************)
(* Theorems about components that share no variable, of any size: each     *)
(* part states the invariant that makes the property of its component      *)
(* inductive.                                                              *)
(***************************************************************************)
EXTENDS Organizations, PaperExperiments, ExecutionQuotes, Associations, Assistants, Catalog,
        EventEvidence, Alerts, FiniteSetTheorems, SequenceTheorems, TLAPS

----------------------------------------------------------------------------
(* Organizations keep an active owner.  ActiveOwnerRemains is not          *)
(* inductive: what a disabling found must still hold when it takes effect. *)
(* It does because of the locks it holds, which is what the strengthening  *)
(* says.                                                                   *)

OwnersTyped ==
    /\ account \in [User -> {"NONE", "ACTIVE", "INACTIVE"}]
    /\ roles \in [Org -> [User -> Role \union {"NONE"}]]
    /\ disabling \in [User -> [stage : {"NONE", "LOCKING", "CLEARED"}, locked : SUBSET Org]]

\* The row of an organization is locked once.
LocksAreExclusive ==
    \A u, v \in User, o \in Org :
        o \in disabling[u].locked /\ o \in disabling[v].locked => u = v

\* Only an active account is being disabled.
DisablingIsOfActive == \A u \in User : disabling[u].stage # "NONE" => account[u] = "ACTIVE"

\* A disabling that passed its check holds every organization of the account, and each
\* has another active owner.
ClearedHolds ==
    \A u \in User : disabling[u].stage = "CLEARED" =>
        \A o \in OrgsOf(u) : o \in disabling[u].locked /\ \E v \in Owners(o) : v # u

OwnersInv ==
    /\ OwnersTyped /\ LocksAreExclusive /\ DisablingIsOfActive /\ ClearedHolds
    /\ ActiveOwnerRemains

----------------------------------------------------------------------------

LEMMA OwnersInitially == OrganizationsInit => OwnersInv
<1> SUFFICES ASSUME OrganizationsInit PROVE OwnersInv
  OBVIOUS
<1>1. PICK members \in [User -> Role \union {"NONE"}] :
        /\ members = NoMembers \/ \E u \in User : members[u] = "OWNER" /\ account[u] = "ACTIVE"
        /\ roles = [o \in Org |-> IF o = Shared THEN members ELSE NoMembers]
  BY DEF OrganizationsInit
<1>2. NoMembers \in [User -> Role \union {"NONE"}]
  BY DEF NoMembers
<1>3. OwnersTyped
  BY <1>1, <1>2 DEF OrganizationsInit, OwnersTyped, NotDisabling
<1>4. LocksAreExclusive /\ DisablingIsOfActive /\ ClearedHolds
  BY DEF OrganizationsInit, NotDisabling, LocksAreExclusive, DisablingIsOfActive, ClearedHolds
<1>5. ActiveOwnerRemains
  BY <1>1 DEF ActiveOwnerRemains, Exists, Member, Owners, NoMembers
<1>6. QED
  BY <1>3, <1>4, <1>5 DEF OwnersInv

\* A new organization belongs to its active creator; nobody else joins one.
LEMMA FoundInv ==
    ASSUME OwnersInv, NEW u \in User, NEW o \in Org, ~Exists(o),
           disabling[u].stage = "NONE", UNCHANGED disabling,
           roles' = [roles EXCEPT ![o][u] = "OWNER"],
           account' = [account EXCEPT ![u] = "ACTIVE"]
    PROVE  OwnersInv'
<1>1. OwnersTyped'
  BY DEF OwnersInv, OwnersTyped, Role
<1>2. roles'[o][u] = "OWNER" /\ account'[u] = "ACTIVE"
  BY DEF OwnersInv, OwnersTyped
<1>3. \A v \in User, p \in Org : v # u \/ p # o => roles'[p][v] = roles[p][v]
  BY DEF OwnersInv, OwnersTyped
<1>4. \A v \in User : account'[v] = account[v] \/ (v = u /\ account'[v] = "ACTIVE")
  BY DEF OwnersInv, OwnersTyped
<1>5. \A p \in Org : Owners(p) \subseteq Owners(p)'
  BY <1>2, <1>3, <1>4 DEF Owners
<1>6. ClearedHolds'
  <2> SUFFICES ASSUME NEW v \in User, disabling[v].stage = "CLEARED", NEW p \in OrgsOf(v)'
               PROVE  p \in disabling[v].locked /\ \E w \in Owners(p)' : w # v
    BY DEF ClearedHolds
  <2>1. v # u
    OBVIOUS
  <2>2. p \in OrgsOf(v)
    BY <1>3, <2>1 DEF OrgsOf, Member
  <2>3. p \in disabling[v].locked /\ \E w \in Owners(p) : w # v
    BY <2>2 DEF OwnersInv, ClearedHolds
  <2>4. QED
    BY <1>5, <2>2, <2>3 DEF OrgsOf
<1>7. ActiveOwnerRemains'
  <2> SUFFICES ASSUME NEW p \in Org, Exists(p)' PROVE Owners(p)' # {}
    BY DEF ActiveOwnerRemains
  <2>1. CASE p = o
    BY <1>2, <2>1 DEF Owners
  <2>2. CASE p # o
    <3>1. Exists(p)
      BY <1>3, <2>2 DEF Exists, Member
    <3>2. QED
      BY <1>5, <3>1 DEF OwnersInv, ActiveOwnerRemains
  <2>3. QED
    BY <2>1, <2>2
<1>8. LocksAreExclusive' /\ DisablingIsOfActive'
  BY <1>4 DEF OwnersInv, LocksAreExclusive, DisablingIsOfActive
<1>9. QED
  BY <1>1, <1>6, <1>7, <1>8 DEF OwnersInv

\* A write of a membership behind the lock that leaves another active owner, or makes
\* an active one.
LEMMA RoleInv ==
    ASSUME OwnersInv, NEW o \in Org, NEW target \in User, NEW role \in Role \union {"NONE"},
           OrgUnlocked(o), Member(o, target),
           role # "OWNER" => LastOwnerProtected(o, target),
           role = "OWNER" => account[target] = "ACTIVE",
           roles' = [roles EXCEPT ![o][target] = role], UNCHANGED <<account, disabling>>
    PROVE  OwnersInv'
<1>1. OwnersTyped'
  BY DEF OwnersInv, OwnersTyped
<1>2. roles'[o][target] = role
  BY DEF OwnersInv, OwnersTyped
<1>3. \A v \in User, p \in Org : v # target \/ p # o => roles'[p][v] = roles[p][v]
  BY DEF OwnersInv, OwnersTyped
<1>4. \A p \in Org \ {o} : Owners(p)' = Owners(p)
  BY <1>3 DEF Owners
<1>5. \A v \in User, p \in Org : p \in OrgsOf(v)' => p \in OrgsOf(v)
  BY <1>3 DEF OrgsOf, Member
<1>6. Owners(o)' # {}
  <2>1. CASE role = "OWNER"
    BY <1>2, <2>1 DEF Owners
  <2>2. CASE role # "OWNER"
    <3>1. \E v \in Owners(o) : v # target
      <4>1. CASE roles[o][target] = "OWNER"
        BY <2>2, <4>1 DEF LastOwnerProtected, AnotherOwner
      <4>2. CASE roles[o][target] # "OWNER"
        <5>1. Owners(o) # {}
          BY DEF OwnersInv, ActiveOwnerRemains, Exists
        <5>2. QED
          BY <4>2, <5>1 DEF Owners
      <4>3. QED
        BY <4>1, <4>2
    <3>2. QED
      BY <1>3, <3>1 DEF Owners
  <2>3. QED
    BY <2>1, <2>2
<1>7. ClearedHolds'
  <2> SUFFICES ASSUME NEW v \in User, disabling[v].stage = "CLEARED", NEW p \in OrgsOf(v)'
               PROVE  p \in disabling[v].locked /\ \E w \in Owners(p)' : w # v
    BY DEF ClearedHolds
  <2>1. p \in Org /\ p \in OrgsOf(v)
    BY <1>5 DEF OrgsOf
  <2>2. p \in disabling[v].locked /\ \E w \in Owners(p) : w # v
    BY <2>1 DEF OwnersInv, ClearedHolds
  <2>3. p # o
    BY <2>2 DEF OrgUnlocked
  <2>4. QED
    BY <1>4, <2>1, <2>2, <2>3
<1>8. ActiveOwnerRemains'
  <2> SUFFICES ASSUME NEW p \in Org, Exists(p)' PROVE Owners(p)' # {}
    BY DEF ActiveOwnerRemains
  <2>1. CASE p # o
    <3>1. Exists(p)
      BY <1>3, <2>1 DEF Exists, Member
    <3>2. QED
      BY <1>4, <2>1, <3>1 DEF OwnersInv, ActiveOwnerRemains
  <2>2. QED
    BY <1>6, <2>1
<1>9. LocksAreExclusive' /\ DisablingIsOfActive'
  BY DEF OwnersInv, LocksAreExclusive, DisablingIsOfActive
<1>10. QED
  BY <1>1, <1>7, <1>8, <1>9 DEF OwnersInv

\* The check of a disabling leaves it with another active owner wherever it is a member.
LEMMA CheckInv == ASSUME OwnersInv, NEW u \in User, CheckOwners(u) PROVE OwnersInv'
<1> DEFINE lonely == \E o \in OrgsOf(u) : Owners(o) = {u}
<1>1. /\ disabling[u].stage = "LOCKING" /\ OrgsOf(u) \subseteq disabling[u].locked
      /\ UNCHANGED <<account, roles>>
  BY DEF CheckOwners
<1>2. disabling'[u] = IF lonely THEN NotDisabling
                      ELSE [stage |-> "CLEARED", locked |-> disabling[u].locked]
  BY DEF CheckOwners, OwnersInv, OwnersTyped
<1>3. \A v \in User \ {u} : disabling'[v] = disabling[v]
  BY DEF CheckOwners, OwnersInv, OwnersTyped
<1>4. OwnersTyped'
  <2>1. disabling[u].locked \subseteq Org
    BY DEF OwnersInv, OwnersTyped
  <2>2. QED
    BY <1>1, <2>1 DEF CheckOwners, OwnersInv, OwnersTyped, NotDisabling
<1>5. \A v \in User : disabling'[v].locked \subseteq disabling[v].locked
  BY <1>2, <1>3 DEF NotDisabling
<1>6. LocksAreExclusive'
  BY <1>5 DEF OwnersInv, LocksAreExclusive
<1>7. DisablingIsOfActive'
  BY <1>1, <1>2, <1>3 DEF OwnersInv, DisablingIsOfActive, NotDisabling
<1>8. ClearedHolds'
  <2> SUFFICES ASSUME NEW v \in User, disabling'[v].stage = "CLEARED", NEW o \in OrgsOf(v)'
               PROVE  o \in disabling'[v].locked /\ \E w \in Owners(o)' : w # v
    BY DEF ClearedHolds
  <2>1. o \in OrgsOf(v) /\ o \in Org /\ Owners(o)' = Owners(o)
    BY <1>1 DEF OrgsOf, Member, Owners
  <2>2. CASE v = u
    <3>1. ~lonely /\ disabling'[u].locked = disabling[u].locked
      BY <1>2, <2>2 DEF NotDisabling
    <3>2. o \in disabling'[u].locked /\ Owners(o) # {u}
      BY <1>1, <2>1, <2>2, <3>1
    <3>3. Owners(o) # {}
      BY <2>1 DEF OwnersInv, ActiveOwnerRemains, Exists, OrgsOf
    <3>4. QED
      BY <2>1, <2>2, <3>2, <3>3
  <2>3. CASE v # u
    BY <1>3, <2>1, <2>3 DEF OwnersInv, ClearedHolds
  <2>4. QED
    BY <2>2, <2>3
<1>9. ActiveOwnerRemains'
  BY <1>1 DEF OwnersInv, ActiveOwnerRemains, Exists, Member, Owners
<1>10. QED
  BY <1>4, <1>6, <1>7, <1>8, <1>9 DEF OwnersInv

\* An account that is disabled was not needed as an owner, and nobody else's disabling
\* relied on it: that would hold the same organization.
LEMMA DisableInv == ASSUME OwnersInv, NEW u \in User, Disable(u) PROVE OwnersInv'
<1>1. disabling[u].stage = "CLEARED" /\ UNCHANGED roles
  BY DEF Disable
<1>2. OwnersTyped'
  BY DEF Disable, OwnersInv, OwnersTyped, NotDisabling
<1>3. /\ disabling'[u] = NotDisabling
      /\ \A v \in User \ {u} : disabling'[v] = disabling[v] /\ account'[v] = account[v]
  BY DEF Disable, OwnersInv, OwnersTyped
<1>4. \A o \in Org : Owners(o) \ {u} \subseteq Owners(o)'
  BY <1>1, <1>3 DEF Owners
<1>5. LocksAreExclusive' /\ DisablingIsOfActive'
  BY <1>3 DEF OwnersInv, LocksAreExclusive, DisablingIsOfActive, NotDisabling
<1>6. ClearedHolds'
  <2> SUFFICES ASSUME NEW v \in User, disabling'[v].stage = "CLEARED", NEW o \in OrgsOf(v)'
               PROVE  o \in disabling'[v].locked /\ \E w \in Owners(o)' : w # v
    BY DEF ClearedHolds
  <2>1. v # u /\ disabling'[v] = disabling[v]
    BY <1>3 DEF NotDisabling
  <2>2. o \in OrgsOf(v) /\ o \in Org
    BY <1>1 DEF OrgsOf, Member
  <2>3. o \in disabling[v].locked /\ \E w \in Owners(o) : w # v
    BY <2>1, <2>2 DEF OwnersInv, ClearedHolds
  <2>4. ~Member(o, u)
    <3>1. o \notin disabling[u].locked
      BY <2>1, <2>2, <2>3 DEF OwnersInv, LocksAreExclusive
    <3>2. QED
      BY <1>1, <2>2, <3>1 DEF OwnersInv, ClearedHolds, OrgsOf
  <2>5. u \notin Owners(o)
    BY <2>4 DEF Owners, Member
  <2>6. QED
    BY <1>4, <2>1, <2>2, <2>3, <2>5
<1>7. ActiveOwnerRemains'
  <2> SUFFICES ASSUME NEW o \in Org, Exists(o)' PROVE Owners(o)' # {}
    BY DEF ActiveOwnerRemains
  <2>1. Exists(o)
    BY <1>1 DEF Exists, Member
  <2>2. CASE Member(o, u)
    <3>1. \E w \in Owners(o) : w # u
      BY <1>1, <2>2 DEF OwnersInv, ClearedHolds, OrgsOf
    <3>2. QED
      BY <1>4, <3>1
  <2>3. CASE ~Member(o, u)
    <3>1. u \notin Owners(o) /\ Owners(o) # {}
      BY <2>1, <2>3 DEF OwnersInv, ActiveOwnerRemains, Owners, Member
    <3>2. QED
      BY <1>4, <3>1
  <2>4. QED
    BY <2>2, <2>3
<1>8. QED
  BY <1>2, <1>5, <1>6, <1>7 DEF OwnersInv

\* A disabling that begins or takes a free lock changes nothing else.
LEMMA LockingInv ==
    ASSUME OwnersInv, NEW u \in User, NEW locked \in SUBSET Org,
           account[u] = "ACTIVE", disabling[u].stage # "CLEARED",
           \A o \in locked \ disabling[u].locked : OrgUnlocked(o),
           disabling' = [disabling EXCEPT ![u] = [stage |-> "LOCKING", locked |-> locked]],
           UNCHANGED <<account, roles>>
    PROVE  OwnersInv'
<1>1. OwnersTyped'
  BY DEF OwnersInv, OwnersTyped
<1>2. /\ disabling'[u] = [stage |-> "LOCKING", locked |-> locked]
      /\ \A v \in User \ {u} : disabling'[v] = disabling[v]
  BY DEF OwnersInv, OwnersTyped
<1>3. \A v \in User \ {u} : disabling[v].locked \intersect locked = {}
  BY DEF OwnersInv, LocksAreExclusive, OrgUnlocked
<1>4. LocksAreExclusive'
  BY <1>2, <1>3 DEF OwnersInv, LocksAreExclusive
<1>5. DisablingIsOfActive'
  BY <1>2 DEF OwnersInv, DisablingIsOfActive
<1>6. ClearedHolds'
  BY <1>2 DEF OwnersInv, ClearedHolds, OrgsOf, Owners, Member
<1>7. ActiveOwnerRemains'
  BY DEF OwnersInv, ActiveOwnerRemains, Exists, Member, Owners
<1>8. QED
  BY <1>1, <1>4, <1>5, <1>6, <1>7 DEF OwnersInv

\* Enabling an account only adds owners.
LEMMA EnableInv == ASSUME OwnersInv, NEW u \in User, Enable(u) PROVE OwnersInv'
<1>1. UNCHANGED <<roles, disabling>> /\ \A v \in User : account[v] = "ACTIVE" => account'[v] = "ACTIVE"
  BY DEF Enable, OwnersInv, OwnersTyped
<1>2. \A o \in Org : Owners(o) \subseteq Owners(o)'
  BY <1>1 DEF Owners
<1>3. OwnersTyped'
  BY DEF Enable, OwnersInv, OwnersTyped
<1>4. LocksAreExclusive' /\ DisablingIsOfActive'
  BY <1>1 DEF OwnersInv, LocksAreExclusive, DisablingIsOfActive
<1>5. ClearedHolds'
  <2> SUFFICES ASSUME NEW v \in User, disabling[v].stage = "CLEARED", NEW o \in OrgsOf(v)
               PROVE  o \in disabling[v].locked /\ \E w \in Owners(o)' : w # v
    BY <1>1 DEF ClearedHolds, OrgsOf, Member
  <2>1. QED
    BY <1>2 DEF OwnersInv, ClearedHolds, OrgsOf
<1>6. ActiveOwnerRemains'
  BY <1>1, <1>2 DEF OwnersInv, ActiveOwnerRemains, Exists, Member
<1>7. QED
  BY <1>3, <1>4, <1>5, <1>6 DEF OwnersInv

LEMMA OwnersSame == ASSUME OwnersInv, UNCHANGED <<account, roles, disabling>> PROVE OwnersInv'
  BY DEF OwnersInv, OwnersTyped, LocksAreExclusive, DisablingIsOfActive, ClearedHolds, ActiveOwnerRemains,
         OrgsOf, Owners, Exists, Member

LEMMA OwnersStep == OwnersInv /\ [OrganizationsNext]_orgVars => OwnersInv'
<1> SUFFICES ASSUME OwnersInv, [OrganizationsNext]_orgVars PROVE OwnersInv'
  OBVIOUS
<1>1. CASE UNCHANGED orgVars
  BY <1>1, OwnersSame DEF orgVars
<1>2. ASSUME NEW u \in User, NEW o \in Org, CreateOrganization(u, o) PROVE OwnersInv'
  <2>1. account' = [account EXCEPT ![u] = "ACTIVE"] /\ disabling[u].stage = "NONE"
    BY <1>2 DEF CreateOrganization, UserUnlocked, Disabling, NotDisabling, OwnersInv, OwnersTyped
  <2>2. QED
    BY <1>2, <2>1, FoundInv DEF CreateOrganization
<1>3. ASSUME NEW u \in User, NEW o \in Org, Register(u, o) PROVE OwnersInv'
  <2>1. disabling[u].stage = "NONE"
    BY <1>3 DEF Register, OwnersInv, OwnersTyped, DisablingIsOfActive
  <2>2. QED
    BY <1>3, <2>1, FoundInv DEF Register
<1>4. ASSUME NEW u \in User, NEW o \in Org, NEW target \in User, NEW role \in Role,
             ChangeMemberRole(u, o, target, role)
      PROVE  OwnersInv'
  BY <1>4, RoleInv DEF ChangeMemberRole, Acts
<1>5. ASSUME NEW u \in User, NEW o \in Org, NEW target \in User, RemoveMember(u, o, target)
      PROVE  OwnersInv'
  BY <1>5, RoleInv DEF RemoveMember, Acts
<1>6. ASSUME NEW u \in User, NEW o \in Org, LockOrganization(u, o) PROVE OwnersInv'
  <2> DEFINE locked == disabling[u].locked \union {o}
  <2>1. disabling' = [disabling EXCEPT ![u] = [stage |-> "LOCKING", locked |-> locked]]
    <3>1. disabling[u] \in [stage : {"NONE", "LOCKING", "CLEARED"}, locked : SUBSET Org]
      BY DEF OwnersInv, OwnersTyped
    <3>2. [disabling[u] EXCEPT !.locked = locked] = [stage |-> "LOCKING", locked |-> locked]
      <4>1. disabling[u].stage = "LOCKING"
        BY <1>6 DEF LockOrganization
      <4> HIDE DEF locked
      <4>2. QED
        BY <3>1, <4>1
    <3>3. disabling' = [disabling EXCEPT ![u] = [disabling[u] EXCEPT !.locked = locked]]
      BY <1>6 DEF LockOrganization
    <3>4. QED
      BY <3>2, <3>3
  <2>2. locked \in SUBSET Org
    BY DEF OwnersInv, OwnersTyped
  <2>3. account[u] = "ACTIVE" /\ disabling[u].stage # "CLEARED"
    BY <1>6 DEF LockOrganization, OwnersInv, DisablingIsOfActive
  <2>4. (\A p \in locked \ disabling[u].locked : OrgUnlocked(p)) /\ UNCHANGED <<account, roles>>
    BY <1>6 DEF LockOrganization
  <2> HIDE DEF locked
  <2>5. QED
    BY <2>1, <2>2, <2>3, <2>4, LockingInv
<1>7. ASSUME NEW u \in User, BeginDisabling(u) PROVE OwnersInv'
  <2>1. disabling[u] = NotDisabling
    BY <1>7 DEF BeginDisabling, UserUnlocked, Disabling
  <2>2. disabling' = [disabling EXCEPT ![u] = [stage |-> "LOCKING", locked |-> {}]]
    <3>1. [disabling[u] EXCEPT !.stage = "LOCKING"] = [stage |-> "LOCKING", locked |-> {}]
      BY <2>1 DEF NotDisabling
    <3>2. disabling' = [disabling EXCEPT ![u] = [disabling[u] EXCEPT !.stage = "LOCKING"]]
      BY <1>7 DEF BeginDisabling
    <3>3. QED
      BY <3>1, <3>2
  <2>3. /\ account[u] = "ACTIVE" /\ disabling[u].stage # "CLEARED"
        /\ UNCHANGED <<account, roles>>
    BY <1>7, <2>1 DEF BeginDisabling, NotDisabling
  <2>4. {} \in SUBSET Org /\ \A o \in {} \ disabling[u].locked : OrgUnlocked(o)
    OBVIOUS
  <2>5. QED
    BY <2>2, <2>3, <2>4, LockingInv
<1>8. ASSUME NEW u \in User, Authenticate(u) \/ Refuse(u) PROVE OwnersInv'
  BY <1>8, OwnersSame DEF Authenticate, Refuse
<1>9. QED
  BY <1>1, <1>2, <1>3, <1>4, <1>5, <1>6, <1>7, <1>8, CheckInv, DisableInv, EnableInv
     DEF OrganizationsNext

\* Whatever owners do to each other and whichever accounts are disabled meanwhile, an
\* organization has an owner who can sign in, for any number of both.
THEOREM OwnerRemains == OrganizationsSpec => []ActiveOwnerRemains
<1>1. OwnersInv => ActiveOwnerRemains
  BY DEF OwnersInv
<1>2. QED
  BY <1>1, OwnersInitially, OwnersStep, PTL DEF OrganizationsSpec

----------------------------------------------------------------------------
(* The experiments of the organizations fit the one collector, and an      *)
(* organization runs one experiment.  The strengthening says that one      *)
(* request is between its check and its writes, and that what it checked   *)
(* still holds: meanwhile experiments only watch less.                     *)


ExperimentRow ==
    [version : {"v1", "v2", "v3", ""}, markets : SUBSET Tradable, running : BOOLEAN,
     held : BOOLEAN, pending : BOOLEAN]

ExperimentsTyped ==
    /\ experiments \in [Organization -> Seq(ExperimentRow)]
    /\ \A o \in Organization : Previous(o) <= MaxExperiments
    /\ request \in [Organization -> ExperimentRequest \union {NoRequest}]

Watches(row) == row.running \/ row.held

RequestsAreSerialized ==
    \A o, p \in Organization : request[o] # NoRequest /\ request[p] # NoRequest => o = p

RequestsFit ==
    \A o \in Organization : request[o] # NoRequest =>
        IF request[o].kind = "create"
        THEN Previous(o) < MaxExperiments /\ Fits(request[o].markets)
        ELSE Previous(o) > 0 /\ Fits(experiments[o][Previous(o)].markets)

ExperimentsInv == ExperimentsTyped /\ RequestsAreSerialized /\ RequestsFit /\ ExperimentsOK

----------------------------------------------------------------------------

\* The rows there are.
LEMMA ExistingRows ==
    ASSUME ExperimentsTyped
    PROVE  /\ \A r \in Existing : /\ r = <<r[1], r[2]>> /\ r[1] \in Organization
                                  /\ r[2] \in 1..Previous(r[1]) /\ Experiment(r) \in ExperimentRow
           /\ \A o \in Organization : \A i \in 1..Previous(o) :
                <<o, i>> \in Existing /\ experiments[o][i] \in ExperimentRow
           /\ \A o \in Organization : Previous(o) \in Nat
<1>1. \A o \in Organization : Previous(o) \in Nat /\ Previous(o) <= MaxExperiments
                                /\ experiments[o] \in Seq(ExperimentRow)
  BY DEF ExperimentsTyped, Previous
<1>2. \A o \in Organization : \A i \in 1..Previous(o) : experiments[o][i] \in ExperimentRow
  BY <1>1 DEF Previous
<1>3. \A r \in Existing : /\ r = <<r[1], r[2]>> /\ r[1] \in Organization
                          /\ r[2] \in 1..Previous(r[1])
  BY <1>1, ExperimentsAssumption DEF Existing, Rows, Previous
<1>4. \A o \in Organization : \A i \in 1..Previous(o) : <<o, i>> \in Existing
  BY <1>1, ExperimentsAssumption DEF Existing, Rows, Previous
<1>5. QED
  BY <1>1, <1>2, <1>3, <1>4 DEF Experiment

\* What is watched, in terms of the rows.
LEMMA WatchedMarkets ==
    ASSUME ExperimentsTyped
    PROVE  /\ ExecutionMarkets \subseteq Tradable
           /\ \A m : m \in ExecutionMarkets <=>
                \E o \in Organization : \E i \in 1..Previous(o) :
                    Watches(experiments[o][i]) /\ m \in experiments[o][i].markets
<1>1. \A m : m \in ExecutionMarkets <=>
        \E r \in Existing : Watches(Experiment(r)) /\ m \in Experiment(r).markets
  BY DEF ExecutionMarkets, Watches
<1>2. \A m : m \in ExecutionMarkets <=>
        \E o \in Organization : \E i \in 1..Previous(o) :
            Watches(experiments[o][i]) /\ m \in experiments[o][i].markets
  BY <1>1, ExistingRows DEF Experiment
<1>3. \A o \in Organization : \A i \in 1..Previous(o) : experiments[o][i].markets \subseteq Tradable
  BY ExistingRows DEF ExperimentRow
<1>4. QED
  BY <1>2, <1>3

\* A smaller set fits where a larger one did.
LEMMA SmallerFits ==
    ASSUME NEW S \in SUBSET Tradable, NEW T \in SUBSET S, Cardinality(S) <= Capacity
    PROVE  Cardinality(T) \in Nat /\ Cardinality(T) <= Capacity
<1>1. IsFiniteSet(S) /\ IsFiniteSet(T)
  BY ExperimentsAssumption, FS_Subset
<1>2. Cardinality(T) <= Cardinality(S) /\ Cardinality(T) \in Nat /\ Cardinality(S) \in Nat
  BY <1>1, FS_Subset, FS_CardinalityType
<1>3. QED
  BY <1>2, ExperimentsAssumption

\* Only the latest experiments run or trade, in terms of the rows.
LatestRun(rows) ==
    \A i \in 1..Len(rows) :
        rows[i].running \/ rows[i].pending => i = Len(rows) /\ rows[i].running

LEMMA LatestRuns ==
    ASSUME ExperimentsTyped
    PROVE  OnlyTheLatestRuns <=> \A o \in Organization : LatestRun(experiments[o])
<1>1. OnlyTheLatestRuns <=>
        \A o \in Organization : \A i \in 1..Previous(o) :
            experiments[o][i].running \/ experiments[o][i].pending =>
                i = Previous(o) /\ experiments[o][i].running
  BY ExistingRows DEF OnlyTheLatestRuns, Experiment
<1>2. QED
  BY <1>1 DEF LatestRun, Previous

\* Both, as one formula that also speaks of the next state.
WatchedByRows ==
    \A m : m \in ExecutionMarkets <=>
        \E o \in Organization : \E i \in 1..Previous(o) :
            Watches(experiments[o][i]) /\ m \in experiments[o][i].markets
RunByRows == OnlyTheLatestRuns <=> \A o \in Organization : LatestRun(experiments[o])

LEMMA ByRows == ExperimentsTyped => WatchedByRows /\ RunByRows
  BY WatchedMarkets, LatestRuns DEF WatchedByRows, RunByRows

LEMMA NextByRows == ExperimentsTyped' => WatchedByRows' /\ RunByRows'
  BY ByRows, PTL

----------------------------------------------------------------------------

LEMMA ExperimentsInitially == ExperimentsInit => ExperimentsInv
<1> SUFFICES ASSUME ExperimentsInit PROVE ExperimentsInv
  OBVIOUS
<1>1. /\ experiments = [o \in Organization |-> <<>>]
      /\ request = [o \in Organization |-> NoRequest] /\ ~blocked
  BY DEF ExperimentsInit
<1>2. \A o \in Organization : experiments[o] = <<>> /\ Previous(o) = 0
  BY <1>1 DEF Previous
<1>3. ExperimentsTyped
  BY <1>1, <1>2, ExperimentsAssumption DEF ExperimentsTyped
<1>4. OnlyTheLatestRuns
  <2>1. \A o \in Organization : LatestRun(experiments[o])
    BY <1>2 DEF LatestRun
  <2>2. QED
    BY <1>3, <2>1, LatestRuns
<1>5. ExecutionMarkets = {}
  BY <1>2, <1>3, WatchedMarkets
<1>6. UniverseFits
  BY <1>1, <1>5, FS_EmptySet, ExperimentsAssumption DEF UniverseFits
<1>7. RequestsAreSerialized /\ RequestsFit
  BY <1>1 DEF RequestsAreSerialized, RequestsFit
<1>8. QED
  BY <1>3, <1>4, <1>6, <1>7 DEF ExperimentsInv, ExperimentsOK

\* A request that passes its checks while no other is between its check and its writes.
LEMMA BeginInv ==
    ASSUME ExperimentsInv, NEW o \in Organization, NEW new \in ExperimentRequest, PlanUnlocked(o),
           request' = [request EXCEPT ![o] = new], UNCHANGED <<experiments, blocked>>,
           IF new.kind = "create"
           THEN Previous(o) < MaxExperiments /\ Fits(new.markets)
           ELSE Previous(o) > 0 /\ Fits(experiments[o][Previous(o)].markets)
    PROVE  ExperimentsInv'
<1>1. /\ request'[o] = new
      /\ \A p \in Organization \ {o} : request'[p] = NoRequest
  BY DEF PlanUnlocked, ExperimentsInv, ExperimentsTyped
<1>2. ExperimentsTyped' /\ OnlyTheLatestRuns' /\ UniverseFits'
  <2>1. ExperimentsTyped'
    BY DEF ExperimentsInv, ExperimentsTyped, Previous
  <2>2. ExecutionMarkets' = ExecutionMarkets
    BY DEF ExecutionMarkets, Existing, Experiment
  <2>3. QED
    BY <2>1, <2>2 DEF ExperimentsInv, ExperimentsOK, UniverseFits, OnlyTheLatestRuns, Existing, Experiment,
                      Previous
<1>3. RequestsAreSerialized'
  BY <1>1 DEF RequestsAreSerialized
<1>4. RequestsFit'
  <2>1. ExecutionMarkets' = ExecutionMarkets
    BY DEF ExecutionMarkets, Existing, Experiment
  <2>2. QED
    BY <1>1, <2>1 DEF RequestsFit, Fits, Previous
<1>5. QED
  BY <1>2, <1>3, <1>4 DEF ExperimentsInv, ExperimentsOK

\* A change of one row that watches no more than before and keeps its markets.
LEMMA RowInv ==
    ASSUME ExperimentsInv, NEW o \in Organization, NEW i \in 1..Previous(o), NEW row \in ExperimentRow,
           row.markets = experiments[o][i].markets,
           Watches(row) => Watches(experiments[o][i]),
           row.running \/ row.pending => i = Previous(o) /\ row.running,
           experiments' = [experiments EXCEPT ![o][i] = row], UNCHANGED <<request, blocked>>
    PROVE  ExperimentsInv'
<1>1. ExperimentsTyped /\ experiments[o] \in Seq(ExperimentRow) /\ i \in 1..Len(experiments[o])
  BY DEF ExperimentsInv, ExperimentsTyped, Previous
<1>2. /\ experiments'[o] = [experiments[o] EXCEPT ![i] = row]
      /\ \A p \in Organization \ {o} : experiments'[p] = experiments[p]
  BY <1>1 DEF ExperimentsTyped
<1>3. /\ experiments'[o] \in Seq(ExperimentRow) /\ Len(experiments'[o]) = Len(experiments[o])
      /\ experiments'[o][i] = row
      /\ \A j \in 1..Len(experiments[o]) : j # i => experiments'[o][j] = experiments[o][j]
  BY <1>1, <1>2
<1>4. \A p \in Organization : Previous(p)' = Previous(p)
  BY <1>2, <1>3 DEF Previous
<1>5. ExperimentsTyped'
  BY <1>1, <1>2, <1>3, <1>4 DEF ExperimentsTyped
<1>6. \A p \in Organization : \A j \in 1..Previous(p) :
        /\ experiments'[p][j].markets = experiments[p][j].markets
        /\ Watches(experiments'[p][j]) => Watches(experiments[p][j])
  BY <1>2, <1>3 DEF Previous
<1>7. ExecutionMarkets' \subseteq ExecutionMarkets
  <2>1. \A m : m \in ExecutionMarkets' <=>
          \E p \in Organization : \E j \in 1..Previous(p)' :
              Watches(experiments'[p][j]) /\ m \in experiments'[p][j].markets
    BY <1>5, NextByRows DEF WatchedByRows, Previous, Watches
  <2>2. QED
    BY <1>1, <1>4, <1>6, <2>1, WatchedMarkets
<1>8. ExecutionMarkets \subseteq Tradable
  BY <1>1, WatchedMarkets
<1>9. UniverseFits'
  BY <1>7, <1>8, SmallerFits DEF ExperimentsInv, ExperimentsOK, UniverseFits
<1>10. \A markets \in SUBSET Tradable : Fits(markets) => Fits(markets)'
  BY <1>7, <1>8, SmallerFits DEF Fits
<1>11. RequestsFit'
  <2> SUFFICES ASSUME NEW p \in Organization, request[p] # NoRequest
               PROVE  IF request[p].kind = "create"
                      THEN Previous(p)' < MaxExperiments /\ Fits(request[p].markets)'
                      ELSE /\ Previous(p)' > 0
                           /\ Fits(experiments[p][Previous(p)].markets)'
    BY DEF RequestsFit
  <2>1. request[p].kind = "create" => request[p].markets \in SUBSET Tradable
    BY <1>1 DEF ExperimentsTyped, ExperimentRequest
  <2>2. ASSUME Previous(p) > 0
        PROVE  /\ experiments[p][Previous(p)].markets \in SUBSET Tradable
               /\ experiments'[p][Previous(p)].markets = experiments[p][Previous(p)].markets
    <3>1. Previous(p) \in 1..Previous(p)
      BY <1>1, <2>2, ExistingRows
    <3>2. experiments[p][Previous(p)] \in ExperimentRow
      BY <1>1, <3>1, ExistingRows
    <3>3. QED
      BY <1>6, <3>1, <3>2 DEF ExperimentRow
  <2>3. Previous(p)' = Previous(p)
    BY <1>4
  <2>4. QED
    BY <1>10, <2>1, <2>2, <2>3 DEF ExperimentsInv, RequestsFit
<1>12. OnlyTheLatestRuns'
  <2>1. \A p \in Organization : LatestRun(experiments'[p])
    <3>1. \A p \in Organization : LatestRun(experiments[p])
      BY <1>1, LatestRuns DEF ExperimentsInv, ExperimentsOK
    <3>2. QED
      BY <1>1, <1>2, <1>3, <3>1 DEF LatestRun, Previous
  <2>2. ExperimentsTyped' => (OnlyTheLatestRuns' <=> \A p \in Organization : LatestRun(experiments'[p]))
    BY NextByRows DEF RunByRows, LatestRun
  <2>3. QED
    BY <1>5, <2>1, <2>2
<1>13. QED
  BY <1>5, <1>9, <1>11, <1>12 DEF ExperimentsInv, ExperimentsOK, RequestsAreSerialized

\* A paused row keeps its markets and positions.
LEMMA PausedRow ==
    \A row \in ExperimentRow : /\ Paused(row) \in ExperimentRow /\ Paused(row).markets = row.markets
                     /\ Paused(row).held = row.held
                     /\ ~Paused(row).running /\ ~Paused(row).pending
  BY DEF Paused, ExperimentRow

\* What passed its checks is written: the new experiment replaces a paused one.
LEMMA CreateInv ==
    ASSUME ExperimentsInv, NEW o \in Organization, request[o] # NoRequest, request[o].kind = "create",
           CommitRequest(o)
    PROVE  ExperimentsInv'
<1> DEFINE rows == experiments[o]
           new == [version |-> request[o].version, markets |-> request[o].markets,
                   running |-> TRUE, held |-> FALSE, pending |-> FALSE]
           after == Append(Stopped(rows), new)
<1>1. /\ ExperimentsTyped /\ rows \in Seq(ExperimentRow) /\ Len(rows) \in Nat /\ Len(rows) < MaxExperiments
      /\ request[o] \in ExperimentRequest /\ Fits(request[o].markets) /\ Previous(o) = Len(rows)
  BY DEF ExperimentsInv, ExperimentsTyped, RequestsFit, Previous
<1>2. /\ request' = [request EXCEPT ![o] = NoRequest] /\ blocked' = blocked
      /\ experiments' = [experiments EXCEPT ![o] = after]
  BY DEF CommitRequest
<1>3. new \in ExperimentRow /\ new.markets = request[o].markets /\ new.running
  BY <1>1 DEF ExperimentRow, ExperimentRequest
<1>4. /\ Stopped(rows) \in Seq(ExperimentRow) /\ Len(Stopped(rows)) = Len(rows)
      /\ \A i \in 1..Len(rows) :
           /\ Stopped(rows)[i] = IF i = Len(rows) THEN Paused(rows[i]) ELSE rows[i]
           /\ Stopped(rows)[i] \in ExperimentRow
  <2>1. \A i \in 1..Len(rows) : rows[i] \in ExperimentRow /\ Paused(rows[i]) \in ExperimentRow
    <3>1. \A i \in 1..Len(rows) : rows[i] \in ExperimentRow
      BY <1>1
    <3>2. QED
      BY <3>1, PausedRow
  <2>2. DOMAIN rows = 1..Len(rows)
    BY <1>1
  <2> HIDE DEF rows
  <2>3. Stopped(rows) = [i \in 1..Len(rows) |-> IF i = Len(rows) THEN Paused(rows[i]) ELSE rows[i]]
    BY <2>2 DEF Stopped
  <2>4. QED
    BY <1>1, <2>1, <2>3
<1> HIDE DEF rows, new
<1>5. /\ after \in Seq(ExperimentRow) /\ Len(after) = Len(rows) + 1 /\ after[Len(rows) + 1] = new
      /\ \A i \in 1..Len(rows) : after[i] = Stopped(rows)[i]
  BY <1>1, <1>3, <1>4
<1> HIDE DEF after
<1>6. /\ experiments'[o] = after /\ request'[o] = NoRequest
      /\ \A p \in Organization \ {o} : experiments'[p] = experiments[p] /\ request'[p] = request[p]
  BY <1>1, <1>2 DEF ExperimentsTyped
<1>7. ExperimentsTyped'
  <2>1. ASSUME NEW p \in Organization
        PROVE  experiments'[p] \in Seq(ExperimentRow) /\ Len(experiments'[p]) <= MaxExperiments
    <3>1. CASE p = o
      BY <1>1, <1>5, <1>6, <3>1, ExperimentsAssumption
    <3>2. CASE p # o
      BY <1>1, <1>6, <3>2 DEF ExperimentsTyped, Previous
    <3>3. QED
      BY <3>1, <3>2
  <2>2. experiments' \in [Organization -> Seq(ExperimentRow)]
    BY <1>1, <1>2, <2>1 DEF ExperimentsTyped
  <2>3. request' \in [Organization -> ExperimentRequest \union {NoRequest}]
    BY <1>1, <1>2 DEF ExperimentsTyped
  <2>4. QED
    BY <2>1, <2>2, <2>3 DEF ExperimentsTyped, Previous
<1>8. \A p \in Organization : request'[p] = NoRequest
  BY <1>6 DEF ExperimentsInv, RequestsAreSerialized
<1>9. ExecutionMarkets' \subseteq ExecutionMarkets \union request[o].markets
  <2>1. SUFFICES ASSUME NEW p \in Organization, NEW i \in 1..Len(experiments'[p]),
                        Watches(experiments'[p][i]), NEW m \in experiments'[p][i].markets
                 PROVE  m \in ExecutionMarkets \union request[o].markets
    BY <1>7, NextByRows DEF WatchedByRows, Previous, Watches
  <2>2. CASE p # o
    BY <1>1, <1>6, <2>1, <2>2, WatchedMarkets DEF Previous
  <2>3. CASE p = o /\ i = Len(rows) + 1
    BY <1>3, <1>5, <1>6, <2>3
  <2>4. CASE p = o /\ i \in 1..Len(rows)
    <3>1. experiments'[p][i] = IF i = Len(rows) THEN Paused(rows[i]) ELSE rows[i]
      BY <1>4, <1>5, <1>6, <2>4
    <3>2. rows[i] \in ExperimentRow
      BY <1>1, <2>4
    <3>3. Watches(rows[i]) /\ m \in rows[i].markets
      BY <2>1, <3>1, <3>2 DEF Paused, Watches, ExperimentRow
    <3>4. QED
      BY <1>1, <2>4, <3>3, WatchedMarkets DEF rows
  <2>5. QED
    BY <1>1, <1>5, <1>6, <2>1, <2>2, <2>3, <2>4
<1>10. UniverseFits'
  <2>1. ExecutionMarkets \union request[o].markets \in SUBSET Tradable
    BY <1>1, WatchedMarkets DEF ExperimentRequest
  <2>2. QED
    BY <1>1, <1>2, <1>9, <2>1, SmallerFits DEF ExperimentsInv, ExperimentsOK, UniverseFits, Fits
<1>11. OnlyTheLatestRuns'
  <2>1. \A p \in Organization : LatestRun(experiments[p])
    BY <1>1, LatestRuns DEF ExperimentsInv, ExperimentsOK
  <2>2. LatestRun(after)
    <3>1. \A i \in 1..Len(rows) : ~after[i].running /\ ~after[i].pending
      <4> SUFFICES ASSUME NEW i \in 1..Len(rows) PROVE ~after[i].running /\ ~after[i].pending
        OBVIOUS
      <4>1. CASE i = Len(rows)
        <5>1. after[i] = Paused(rows[i]) /\ rows[i] \in ExperimentRow
          BY <1>1, <1>4, <1>5, <4>1
        <5>2. QED
          BY <5>1 DEF Paused, ExperimentRow
      <4>2. CASE i # Len(rows)
        BY <1>4, <1>5, <2>1, <4>2 DEF LatestRun, rows
      <4>3. QED
        BY <4>1, <4>2
    <3>2. QED
      BY <1>1, <1>3, <1>5, <3>1 DEF LatestRun
  <2>3. \A p \in Organization : LatestRun(experiments'[p])
    BY <1>6, <2>1, <2>2
  <2>4. QED
    BY <1>7, <2>3, NextByRows DEF RunByRows, LatestRun
<1>12. RequestsAreSerialized' /\ RequestsFit'
  BY <1>8 DEF RequestsAreSerialized, RequestsFit
<1>13. QED
  BY <1>7, <1>10, <1>11, <1>12 DEF ExperimentsInv, ExperimentsOK

\* The latest experiment resumes.
LEMMA StartInv ==
    ASSUME ExperimentsInv, NEW o \in Organization, request[o] # NoRequest, request[o].kind # "create",
           CommitRequest(o)
    PROVE  ExperimentsInv'
<1> DEFINE rows == experiments[o]
           n == Len(rows)
           resumed == [rows[n] EXCEPT !.running = TRUE]
           after == [rows EXCEPT ![n] = resumed]
<1>1. /\ ExperimentsTyped /\ rows \in Seq(ExperimentRow) /\ n \in Nat /\ n > 0 /\ rows[n] \in ExperimentRow
      /\ Fits(rows[n].markets) /\ Previous(o) = n
  BY DEF ExperimentsInv, ExperimentsTyped, RequestsFit, Previous
<1>2. /\ request' = [request EXCEPT ![o] = NoRequest] /\ blocked' = blocked
      /\ experiments' = [experiments EXCEPT ![o] = after]
  BY DEF CommitRequest
<1>3. resumed \in ExperimentRow /\ resumed.markets = rows[n].markets /\ resumed.running
  BY <1>1 DEF ExperimentRow
<1> HIDE DEF resumed
<1>4. /\ after \in Seq(ExperimentRow) /\ Len(after) = n /\ after[n] = resumed
      /\ \A i \in 1..n : i # n => after[i] = rows[i]
  BY <1>1, <1>3
<1> HIDE DEF after
<1>5. /\ experiments'[o] = after /\ request'[o] = NoRequest
      /\ \A p \in Organization \ {o} : experiments'[p] = experiments[p] /\ request'[p] = request[p]
  BY <1>1, <1>2 DEF ExperimentsTyped
<1> HIDE DEF rows, n
<1>6. ExperimentsTyped'
  BY <1>1, <1>2, <1>4, <1>5 DEF ExperimentsTyped, Previous, n, rows
<1>7. \A p \in Organization : request'[p] = NoRequest
  BY <1>5 DEF ExperimentsInv, RequestsAreSerialized
<1>8. ExecutionMarkets' \subseteq ExecutionMarkets \union rows[n].markets
  <2>1. SUFFICES ASSUME NEW p \in Organization, NEW i \in 1..Len(experiments'[p]),
                        Watches(experiments'[p][i]), NEW m \in experiments'[p][i].markets
                 PROVE  m \in ExecutionMarkets \union rows[n].markets
    BY <1>6, NextByRows DEF WatchedByRows, Previous, Watches
  <2>2. CASE p # o
    BY <1>1, <1>5, <2>1, <2>2, WatchedMarkets DEF Previous
  <2>3. CASE p = o /\ i = n
    BY <1>3, <1>4, <1>5, <2>3
  <2>4. CASE p = o /\ i # n
    <3>1. experiments'[p][i] = experiments[p][i] /\ i \in 1..Previous(p)
      BY <1>1, <1>4, <1>5, <2>4 DEF rows
    <3>2. QED
      BY <1>1, <2>1, <3>1, WatchedMarkets
  <2>5. QED
    BY <2>2, <2>3, <2>4
<1>9. UniverseFits'
  <2>1. ExecutionMarkets \union rows[n].markets \in SUBSET Tradable
    BY <1>1, WatchedMarkets DEF ExperimentRow
  <2>2. QED
    BY <1>1, <1>2, <1>8, <2>1, SmallerFits DEF ExperimentsInv, ExperimentsOK, UniverseFits, Fits
<1>10. OnlyTheLatestRuns'
  <2>1. \A p \in Organization : LatestRun(experiments[p])
    BY <1>1, LatestRuns DEF ExperimentsInv, ExperimentsOK
  <2>2. LatestRun(after)
    BY <1>1, <1>3, <1>4, <2>1 DEF LatestRun, rows, n
  <2>3. \A p \in Organization : LatestRun(experiments'[p])
    BY <1>5, <2>1, <2>2
  <2>4. QED
    BY <1>6, <2>3, NextByRows DEF RunByRows, LatestRun
<1>11. RequestsAreSerialized' /\ RequestsFit'
  BY <1>7 DEF RequestsAreSerialized, RequestsFit
<1>12. QED
  BY <1>6, <1>9, <1>10, <1>11 DEF ExperimentsInv, ExperimentsOK

\* The paper worker and a pause change one row.
LEMMA RowStepInv ==
    ASSUME ExperimentsInv, NEW r \in Existing,
           Pause(r) \/ Order(r) \/ Settle(r) \/ \E held \in BOOLEAN : Execute(r, held)
    PROVE  ExperimentsInv'
<1> DEFINE row == Experiment(r)
<1>1. /\ r[1] \in Organization /\ r[2] \in 1..Previous(r[1]) /\ row \in ExperimentRow
      /\ row = experiments[r[1]][r[2]]
  BY ExistingRows DEF ExperimentsInv, Experiment
<1>2. row.running \/ row.pending => r[2] = Previous(r[1]) /\ row.running
  BY DEF ExperimentsInv, ExperimentsOK, OnlyTheLatestRuns
<1> HIDE DEF row
<1>3. CASE Pause(r)
  <2>1. experiments' = [experiments EXCEPT ![r[1]][r[2]] = Paused(row)]
    BY <1>1, <1>3 DEF Pause
  <2>2. /\ Paused(row) \in ExperimentRow /\ Paused(row).markets = row.markets
        /\ Paused(row).held = row.held /\ ~Paused(row).running /\ ~Paused(row).pending
    BY <1>1 DEF Paused, ExperimentRow
  <2>3. UNCHANGED <<request, blocked>>
    BY <1>3 DEF Pause
  <2>4. QED
    BY <1>1, <2>1, <2>2, <2>3, RowInv DEF Watches
<1>4. CASE Order(r)
  <2> DEFINE new == [row EXCEPT !.pending = TRUE]
  <2>1. experiments' = [experiments EXCEPT ![r[1]][r[2]] = new]
    BY <1>1, <1>4 DEF Order
  <2>2. row.running /\ UNCHANGED <<request, blocked>>
    BY <1>4 DEF Order, row
  <2>3. new \in ExperimentRow /\ new.markets = row.markets /\ new.running = row.running /\ new.held = row.held
    BY <1>1 DEF ExperimentRow
  <2> HIDE DEF new
  <2>4. QED
    BY <1>1, <1>2, <2>1, <2>2, <2>3, RowInv DEF Watches
<1>5. CASE Settle(r)
  <2> DEFINE new == [row EXCEPT !.held = FALSE]
  <2>1. experiments' = [experiments EXCEPT ![r[1]][r[2]] = new]
    BY <1>1, <1>5 DEF Settle
  <2>2. UNCHANGED <<request, blocked>>
    BY <1>5 DEF Settle
  <2>3. /\ new \in ExperimentRow /\ new.markets = row.markets /\ new.running = row.running /\ ~new.held
        /\ new.pending = row.pending
    BY <1>1 DEF ExperimentRow
  <2> HIDE DEF new
  <2>4. QED
    BY <1>1, <1>2, <2>1, <2>2, <2>3, RowInv DEF Watches
<1>6. CASE \E held \in BOOLEAN : Execute(r, held)
  <2> PICK held \in BOOLEAN : Execute(r, held)
    BY <1>6
  <2> DEFINE new == [row EXCEPT !.pending = FALSE, !.held = held]
  <2>1. experiments' = [experiments EXCEPT ![r[1]][r[2]] = new]
    BY <1>1 DEF Execute
  <2>2. row.running /\ UNCHANGED <<request, blocked>>
    BY DEF Execute, row
  <2>3. new \in ExperimentRow /\ new.markets = row.markets /\ new.running = row.running
    BY <1>1 DEF ExperimentRow
  <2> HIDE DEF new
  <2>4. QED
    BY <1>1, <1>2, <2>1, <2>2, <2>3, RowInv DEF Watches
<1>7. QED
  BY <1>3, <1>4, <1>5, <1>6, Zenon

\* Nothing but the published universe changes.
LEMMA ExperimentsSame == ASSUME ExperimentsInv, UNCHANGED <<experiments, request, blocked>> PROVE ExperimentsInv'
<1>1. ExecutionMarkets' = ExecutionMarkets
  BY DEF ExecutionMarkets, Existing, Experiment
<1>2. UniverseFits' /\ OnlyTheLatestRuns'
  BY <1>1 DEF ExperimentsInv, ExperimentsOK, UniverseFits, OnlyTheLatestRuns, Existing, Experiment, Previous
<1>3. ExperimentsTyped' /\ RequestsAreSerialized'
  BY DEF ExperimentsInv, ExperimentsTyped, RequestsAreSerialized, Previous
<1>4. RequestsFit'
  BY <1>1 DEF ExperimentsInv, RequestsFit, Previous, Fits
<1>5. QED
  BY <1>2, <1>3, <1>4 DEF ExperimentsInv, ExperimentsOK

LEMMA ExperimentsStep == ExperimentsInv /\ [ExperimentsNext]_experimentVars => ExperimentsInv'
<1> SUFFICES ASSUME ExperimentsInv, [ExperimentsNext]_experimentVars PROVE ExperimentsInv'
  OBVIOUS
<1>1. CASE UNCHANGED experimentVars
  BY <1>1, ExperimentsSame DEF experimentVars
<1>2. ASSUME NEW o \in Organization, NEW version \in {"v1", "v2", "v3"},
             NEW markets \in SUBSET Tradable, BeginCreate(o, version, markets)
      PROVE  ExperimentsInv'
  <2> DEFINE new == [kind |-> "create", version |-> version, markets |-> markets]
  <2>1. new \in ExperimentRequest /\ new.kind = "create" /\ new.markets = markets
    BY DEF ExperimentRequest
  <2>2. /\ PlanUnlocked(o) /\ request' = [request EXCEPT ![o] = new]
        /\ UNCHANGED <<experiments, blocked>> /\ Previous(o) < MaxExperiments /\ Fits(markets)
    BY <1>2 DEF BeginCreate, MayCreate
  <2> HIDE DEF new
  <2>3. QED
    BY <2>1, <2>2, BeginInv
<1>3. ASSUME NEW o \in Organization, BeginUpgrade(o) PROVE ExperimentsInv'
  <2> DEFINE markets == experiments[o][Previous(o)].markets
             new == [kind |-> "create", version |-> "v2", markets |-> markets]
  <2>1. Previous(o) \in 1..Previous(o) /\ Previous(o) < MaxExperiments
    BY <1>3, ExistingRows, ExperimentsAssumption DEF BeginUpgrade, ExperimentsInv
  <2>2. markets \in SUBSET Tradable
    BY <2>1, ExistingRows DEF ExperimentsInv, ExperimentRow
  <2>3. /\ PlanUnlocked(o) /\ request' = [request EXCEPT ![o] = new]
        /\ UNCHANGED <<experiments, blocked>> /\ Fits(markets)
    BY <1>3 DEF BeginUpgrade
  <2> HIDE DEF markets
  <2>4. new \in ExperimentRequest /\ new.kind = "create" /\ new.markets = markets
    BY <2>2 DEF ExperimentRequest
  <2> HIDE DEF new
  <2>5. QED
    BY <2>1, <2>3, <2>4, BeginInv
<1>4. ASSUME NEW o \in Organization, BeginStart(o) PROVE ExperimentsInv'
  <2> DEFINE new == [kind |-> "start", version |-> "", markets |-> {}]
  <2>1. new \in ExperimentRequest /\ new.kind # "create"
    BY DEF ExperimentRequest
  <2>2. /\ PlanUnlocked(o) /\ request' = [request EXCEPT ![o] = new]
        /\ UNCHANGED <<experiments, blocked>> /\ Previous(o) > 0
        /\ Fits(experiments[o][Previous(o)].markets)
    BY <1>4 DEF BeginStart
  <2> HIDE DEF new
  <2>3. QED
    BY <2>1, <2>2, BeginInv
<1>5. ASSUME NEW o \in Organization, CommitRequest(o) PROVE ExperimentsInv'
  BY <1>5, CreateInv, StartInv DEF CommitRequest
<1>6. CASE PublishUniverse
  <2>1. Cardinality(ExecutionMarkets) \in Nat /\ ExecutionMarkets \in SUBSET Tradable
    BY WatchedMarkets, SmallerFits DEF ExperimentsInv, ExperimentsOK, UniverseFits
  <2>2. ~(Cardinality(ExecutionMarkets) > Capacity)
    BY <2>1, ExperimentsAssumption DEF ExperimentsInv, ExperimentsOK, UniverseFits
  <2>3. ~blocked'
    BY <1>6, <2>2, Zenon DEF PublishUniverse
  <2>4. UNCHANGED <<experiments, request>>
    BY <1>6 DEF PublishUniverse
  <2>5. ExecutionMarkets' = ExecutionMarkets
    BY <2>4 DEF ExecutionMarkets, Existing, Experiment
  <2>6. UniverseFits'
    BY <2>3, <2>5 DEF UniverseFits, ExperimentsInv, ExperimentsOK
  <2>7. QED
    BY <2>4, <2>5, <2>6 DEF ExperimentsInv, ExperimentsTyped, RequestsAreSerialized, RequestsFit, ExperimentsOK,
       OnlyTheLatestRuns, Existing, Experiment, Previous, Fits
<1>7. CASE UniverseExpires
  BY <1>7, ExperimentsSame DEF UniverseExpires
<1>8. QED
  BY <1>1, <1>2, <1>3, <1>4, <1>5, <1>6, <1>7, RowStepInv DEF ExperimentsNext

\* However organizations create, upgrade, resume and pause experiments at once, their
\* markets fit the collector and an organization runs its latest only, for any numbers.
THEOREM ExperimentsStayOK == ExperimentsSpec => []ExperimentsOK
<1>1. ExperimentsInv => ExperimentsOK
  BY DEF ExperimentsInv
<1>2. QED
  BY <1>1, ExperimentsInitially, ExperimentsStep, PTL DEF ExperimentsSpec

----------------------------------------------------------------------------
(* A quote that was saved is not lost and tells what was so.  The          *)
(* strengthening says what the cached metadata and the answers of the      *)
(* snapshot in work know of the exchange, how old they are when the cycle  *)
(* began, that the quotes of the memory are those of the file and of a     *)
(* save that failed, and that the file loses a quote only to the           *)
(* warehouse.                                                              *)

QuotesTyped ==
    /\ stage \in [Targeted -> {"active", "closed", "final"}]
    /\ endedAt \in [Targeted -> Nat]
    /\ seconds \in Nat
    /\ todo \subseteq Targeted /\ DOMAIN cached \subseteq Targeted

\* A cycle lasts CycleLife at most, and asks for a market of its own.
CycleIsShort ==
    /\ began \in Nat /\ began <= seconds
    /\ cycle # "idle" => seconds <= began + CycleLife
    /\ DOMAIN asked \subseteq todo
    /\ DOMAIN asked # {} => cycle = "snapshots"

\* What was read of a market is of the past; it is no longer open only if its
\* trading ended since a cycle before, and pays only if its outcome is final.
CacheIsTrue ==
    \A m \in DOMAIN cached :
        /\ cached[m].at \in Nat /\ cached[m].at <= seconds
        /\ cached[m].stage = "active" =>
             stage[m] = "active" \/ endedAt[m] + CycleLife >= cached[m].at
        /\ cached[m].payout => stage[m] = "final"

\* What a snapshot was answered was so in this cycle; the metadata it goes on with was
\* fresh when the cycle began, or is of the cycle.
AskedIsTrue ==
    \A m \in DOMAIN asked :
        /\ asked[m].awaits = "details" =>
             /\ asked[m].stage = "active" => stage[m] = "active" \/ endedAt[m] >= began
             /\ asked[m].stage = "final" => stage[m] = "final"
        /\ asked[m].awaits = "book" => m \in DOMAIN cached /\ began < cached[m].at + CacheLife

\* A saved quote that the file does not hold is in the warehouse, and the file is
\* never ahead of the memory but when a delivery was not saved.
JournalKeeps ==
    /\ taken \subseteq onDisk \union warehouse
    /\ onDisk \subseteq inMemory \union warehouse

TakenIsTrue ==
    \A quote \in taken :
      /\ quote.market \in Targeted
      /\ quote.metadata \in Nat /\ quote.metadata <= seconds

QuotesInv ==
    /\ QuotesTyped /\ CycleIsShort /\ CacheIsTrue /\ AskedIsTrue
    /\ JournalKeeps /\ TakenIsTrue /\ QuotesAreTrue

LEMMA QuotesInitially == QuotesInit => QuotesInv
  BY QuotesAssumption DEF QuotesInit, QuotesInv, QuotesTyped, CycleIsShort, CacheIsTrue, AskedIsTrue,
     JournalKeeps, TakenIsTrue, QuotesAreTrue, Nothing

\* The exchange and the clock move on: what is known stays true.
LEMMA WorldMoves ==
    ASSUME QuotesInv, stage' \in [Targeted -> {"active", "closed", "final"}],
           endedAt' \in [Targeted -> Nat], seconds' \in Nat, seconds <= seconds',
           cycle # "idle" => seconds' <= began + CycleLife,
           \A m \in Targeted :
             /\ stage[m] = "active" => stage'[m] = "active" \/ endedAt'[m] >= seconds
             /\ stage[m] # "active" => endedAt'[m] = endedAt[m] /\ stage'[m] # "active"
             /\ stage[m] = "final" => stage'[m] = "final",
           UNCHANGED cycleVars, UNCHANGED journal
    PROVE  QuotesInv'
<1> USE QuotesAssumption
<1>1. UNCHANGED <<todo, cycle, began, asked, cached, inMemory, onDisk, warehouse, taken>>
  BY DEF cycleVars, journal
<1>2. QuotesTyped' /\ CycleIsShort' /\ JournalKeeps' /\ TakenIsTrue'
  BY <1>1 DEF QuotesInv, QuotesTyped, CycleIsShort, JournalKeeps, TakenIsTrue
<1>3. ASSUME NEW m \in Targeted, NEW n \in Nat, n <= seconds,
             stage[m] = "active" \/ endedAt[m] + CycleLife >= n
      PROVE  stage'[m] = "active" \/ endedAt'[m] + CycleLife >= n
  <2>1. endedAt[m] \in Nat /\ endedAt'[m] \in Nat /\ seconds \in Nat /\ CycleLife \in Nat
    BY DEF QuotesInv, QuotesTyped
  <2>2. QED
    BY <1>3, <2>1
<1>4. CacheIsTrue'
  <2> SUFFICES ASSUME NEW m \in DOMAIN cached
               PROVE  /\ cached[m].at \in Nat /\ cached[m].at <= seconds'
                      /\ cached[m].stage = "active" =>
                           stage'[m] = "active" \/ endedAt'[m] + CycleLife >= cached[m].at
                      /\ cached[m].payout => stage'[m] = "final"
    BY <1>1 DEF CacheIsTrue
  <2>1. /\ m \in Targeted /\ cached[m].at \in Nat /\ cached[m].at <= seconds
        /\ cached[m].stage = "active" =>
             stage[m] = "active" \/ endedAt[m] + CycleLife >= cached[m].at
        /\ cached[m].payout => stage[m] = "final"
    BY DEF QuotesInv, QuotesTyped, CacheIsTrue
  <2>2. cached[m].at <= seconds'
    BY <2>1 DEF QuotesInv, QuotesTyped
  <2>3. QED
    BY <1>3, <2>1, <2>2
<1>5. AskedIsTrue'
  <2> SUFFICES ASSUME NEW m \in DOMAIN asked, asked[m].awaits = "details"
               PROVE  /\ asked[m].stage = "active" => stage'[m] = "active" \/ endedAt'[m] >= began
                      /\ asked[m].stage = "final" => stage'[m] = "final"
    BY <1>1 DEF QuotesInv, AskedIsTrue
  <2>1. m \in Targeted /\ began \in Nat /\ began <= seconds /\ seconds \in Nat
    BY DEF QuotesInv, QuotesTyped, CycleIsShort
  <2>2. /\ asked[m].stage = "active" => stage[m] = "active" \/ endedAt[m] >= began
        /\ asked[m].stage = "final" => stage[m] = "final"
    BY DEF QuotesInv, AskedIsTrue
  <2>3. endedAt[m] \in Nat /\ endedAt'[m] \in Nat
    BY <2>1 DEF QuotesInv, QuotesTyped
  <2>4. QED
    BY <2>1, <2>2, <2>3
<1>6. QuotesAreTrue'
  <2> SUFFICES ASSUME NEW quote \in taken
               PROVE  /\ quote.received - quote.metadata \in 0..(CacheLife + CycleLife - 1)
                      /\ quote.status = "OPEN" =>
                           \/ stage'[quote.market] = "active"
                           \/ endedAt'[quote.market] + CycleLife >= quote.metadata
                      /\ quote.status = "RESOLVED" => stage'[quote.market] = "final"
    BY <1>1 DEF QuotesAreTrue
  <2>1. quote.market \in Targeted /\ quote.metadata \in Nat /\ quote.metadata <= seconds
    BY DEF QuotesInv, TakenIsTrue
  <2>2. /\ quote.received - quote.metadata \in 0..(CacheLife + CycleLife - 1)
        /\ quote.status = "OPEN" =>
             \/ stage[quote.market] = "active"
             \/ endedAt[quote.market] + CycleLife >= quote.metadata
        /\ quote.status = "RESOLVED" => stage[quote.market] = "final"
    BY DEF QuotesInv, QuotesAreTrue
  <2>3. QED
    BY <1>3, <2>1, <2>2
<1>7. QED
  BY <1>2, <1>4, <1>5, <1>6 DEF QuotesInv

\* A step of the collector that takes no quote and reads no metadata.
LEMMA JournalMoves ==
    ASSUME QuotesInv, UNCHANGED unmovedWorld, UNCHANGED taken,
           todo' \subseteq Targeted,
           DOMAIN cached' \subseteq DOMAIN cached,
           \A m \in DOMAIN cached' : cached'[m] = cached[m],
           CycleIsShort', AskedIsTrue', JournalKeeps'
    PROVE  QuotesInv'
<1>1. UNCHANGED <<stage, endedAt, seconds>>
  BY DEF unmovedWorld
<1>2. QuotesTyped' /\ CacheIsTrue'
  BY <1>1 DEF QuotesInv, QuotesTyped, CacheIsTrue
<1>3. TakenIsTrue' /\ QuotesAreTrue'
  BY <1>1 DEF QuotesInv, TakenIsTrue, QuotesAreTrue
<1>4. QED
  BY <1>2, <1>3 DEF QuotesInv

\* A cycle that ends leaves nothing to say of it.
LEMMA CycleEnds ==
    ASSUME QuotesInv, EndCycle, UNCHANGED unmovedWorld
    PROVE  CycleIsShort' /\ AskedIsTrue' /\ todo' \subseteq Targeted
<1>1. cycle' = "idle" /\ began' = 0 /\ todo' = {} /\ DOMAIN asked' = {} /\ seconds' = seconds
  BY DEF EndCycle, Nothing, unmovedWorld
<1>2. QED
  BY <1>1 DEF QuotesInv, QuotesTyped, CycleIsShort, AskedIsTrue

LEMMA DeliverInv ==
    ASSUME QuotesInv, NEW sent \in SUBSET Targeted, NEW saved \in BOOLEAN,
           Deliver(sent, saved)
    PROVE  QuotesInv'
<1>1. UNCHANGED unmovedWorld /\ UNCHANGED taken /\ cycle \in {"deliver", "last"}
  BY DEF Deliver
<1>2. \/ EndCycle /\ UNCHANGED cached
      \/ /\ cycle' = "snapshots" /\ todo' = sent /\ UNCHANGED <<began, asked>>
         /\ cached' = [m \in DOMAIN cached \intersect sent |-> cached[m]]
  BY DEF Deliver, AfterDelivery
<1>3. /\ CycleIsShort' /\ AskedIsTrue'
      /\ todo' \subseteq Targeted
      /\ DOMAIN cached' \subseteq DOMAIN cached
      /\ \A m \in DOMAIN cached' : cached'[m] = cached[m]
  <2>1. CASE EndCycle /\ UNCHANGED cached
    BY <1>1, <2>1, CycleEnds
  <2>2. CASE /\ cycle' = "snapshots" /\ todo' = sent /\ UNCHANGED <<began, asked>>
             /\ cached' = [m \in DOMAIN cached \intersect sent |-> cached[m]]
    <3>1. DOMAIN asked' = {} /\ seconds' = seconds
      BY <1>1, <2>2 DEF QuotesInv, CycleIsShort, unmovedWorld
    <3>2. CycleIsShort' /\ AskedIsTrue'
      BY <1>1, <2>2, <3>1 DEF QuotesInv, CycleIsShort, AskedIsTrue
    <3>3. QED
      BY <2>2, <3>2
  <2>3. QED
    BY <1>2, <2>1, <2>2
<1>4. \/ UNCHANGED <<inMemory, warehouse>>
      \/ inMemory # {} /\ InsertAnswered(inMemory)
  BY DEF Deliver
<1>5. warehouse \subseteq warehouse' /\ (inMemory' = inMemory \/ (inMemory' = {} /\ inMemory \subseteq warehouse'))
  BY <1>4 DEF InsertAnswered
<1>6. onDisk' = onDisk \/ (onDisk' = {} /\ inMemory # {} /\ inMemory' = {})
  BY DEF Deliver
<1>7. JournalKeeps'
  BY <1>1, <1>5, <1>6 DEF QuotesInv, JournalKeeps
<1>8. QED
  BY <1>1, <1>3, <1>7, JournalMoves

LEMMA BeginSnapshotInv ==
    ASSUME QuotesInv, NEW m \in Targeted, BeginSnapshot(m)
    PROVE  QuotesInv'
<1> USE QuotesAssumption
<1>1. /\ UNCHANGED unmovedWorld /\ UNCHANGED journal /\ UNCHANGED <<todo, cycle, began, cached>>
      /\ cycle = "snapshots" /\ m \in todo
  BY DEF BeginSnapshot
<1>2. /\ DOMAIN asked' = {m} /\ asked'[m].awaits = IF Fresh(m) THEN "book" ELSE "market"
  BY DEF BeginSnapshot, Asks
<1>3. CycleIsShort'
  BY <1>1, <1>2 DEF QuotesInv, CycleIsShort, unmovedWorld
<1>4. AskedIsTrue'
  <2>1. asked'[m].awaits # "details"
    BY <1>2
  <2>2. ASSUME asked'[m].awaits = "book" PROVE m \in DOMAIN cached /\ began < cached[m].at + CacheLife
    <3>1. m \in DOMAIN cached /\ seconds - cached[m].at < CacheLife
      BY <1>2, <2>2 DEF Fresh
    <3>2. began \in Nat /\ began <= seconds /\ seconds \in Nat /\ cached[m].at \in Nat
      BY <3>1 DEF QuotesInv, QuotesTyped, CycleIsShort, CacheIsTrue
    <3> DEFINE n == cached[m].at
    <3>3. n \in Nat /\ seconds - n < CacheLife
      BY <3>1, <3>2
    <3> HIDE DEF n
    <3>4. began < n + CacheLife
      BY <3>2, <3>3
    <3>5. QED
      BY <3>1, <3>4 DEF n
  <2>3. QED
    BY <1>1, <1>2, <2>1, <2>2 DEF AskedIsTrue
<1>5. JournalKeeps' /\ todo' \subseteq Targeted /\ UNCHANGED <<cached, taken>>
  BY <1>1 DEF QuotesInv, QuotesTyped, JournalKeeps, journal
<1>6. QED
  BY <1>1, <1>3, <1>4, <1>5, JournalMoves

LEMMA MarketAnswersInv ==
    ASSUME QuotesInv, NEW m \in Targeted, MarketAnswers(m)
    PROVE  QuotesInv'
<1>1. /\ UNCHANGED unmovedWorld /\ UNCHANGED journal /\ UNCHANGED <<todo, cycle, began, cached>>
      /\ m \in DOMAIN asked
  BY DEF MarketAnswers, Awaits
<1>2. DOMAIN asked' = {m} /\ asked'[m].awaits = "details" /\ asked'[m].stage = stage[m]
  BY DEF MarketAnswers, Asks
<1>3. CycleIsShort'
  BY <1>1, <1>2 DEF QuotesInv, CycleIsShort, unmovedWorld
<1>4. AskedIsTrue'
  BY <1>1, <1>2 DEF AskedIsTrue, unmovedWorld
<1>5. JournalKeeps' /\ todo' \subseteq Targeted /\ UNCHANGED <<cached, taken>>
  BY <1>1 DEF QuotesInv, QuotesTyped, JournalKeeps, journal
<1>6. QED
  BY <1>1, <1>3, <1>4, <1>5, JournalMoves

LEMMA HoldMetadataInv ==
    ASSUME QuotesInv, NEW m \in Targeted, NEW answered \in BOOLEAN, HoldMetadata(m, answered)
    PROVE  QuotesInv'
<1> USE QuotesAssumption
<1>1. /\ UNCHANGED <<stage, endedAt, seconds, todo, cycle, began, inMemory, onDisk, warehouse, taken>>
      /\ m \in DOMAIN asked /\ asked[m].awaits = "details"
  BY DEF HoldMetadata, Awaits, unmovedWorld, journal
<1> DEFINE held == Metadata(asked[m].stage, answered)
<1>2. /\ DOMAIN cached' = DOMAIN cached \union {m}
      /\ \A k \in DOMAIN cached' : cached'[k] = IF k = m THEN held ELSE cached[k]
  BY DEF HoldMetadata
<1>3. DOMAIN asked' = {m} /\ asked'[m].awaits = "book"
  BY DEF HoldMetadata, Asks
<1>4. /\ held.at = seconds /\ held.stage = asked[m].stage
      /\ held.payout => asked[m].stage = "final"
  BY DEF Metadata
<1>5. /\ asked[m].stage = "active" => stage[m] = "active" \/ endedAt[m] >= began
      /\ asked[m].stage = "final" => stage[m] = "final"
  BY <1>1 DEF QuotesInv, AskedIsTrue
<1>6. /\ seconds \in Nat /\ began \in Nat /\ began <= seconds /\ seconds <= began + CycleLife
      /\ endedAt[m] \in Nat /\ CycleLife \in Nat /\ CacheLife \in Nat \ {0}
  BY <1>1 DEF QuotesInv, QuotesTyped, CycleIsShort
<1> HIDE DEF held
<1>7. held.stage = "active" => stage[m] = "active" \/ endedAt[m] + CycleLife >= held.at
  BY <1>4, <1>5, <1>6
<1>8. CacheIsTrue'
  BY <1>1, <1>2, <1>4, <1>5, <1>6, <1>7 DEF QuotesInv, CacheIsTrue
<1>9. AskedIsTrue'
  <2>1. cached'[m] = held /\ m \in DOMAIN cached'
    BY <1>2
  <2>2. began < seconds + CacheLife
    BY <1>6
  <2>3. QED
    BY <1>1, <1>3, <1>4, <2>1, <2>2 DEF AskedIsTrue
<1>10. /\ QuotesTyped' /\ CycleIsShort'
       /\ JournalKeeps' /\ TakenIsTrue' /\ QuotesAreTrue'
  BY <1>1, <1>2, <1>3 DEF QuotesInv, QuotesTyped, CycleIsShort, JournalKeeps, TakenIsTrue, QuotesAreTrue
<1>11. QED
  BY <1>8, <1>9, <1>10 DEF QuotesInv

LEMMA SnapshotInv ==
    ASSUME QuotesInv, NEW m \in Targeted, NEW saved \in BOOLEAN, Snapshot(m, saved)
    PROVE  QuotesInv'
<1> USE QuotesAssumption
<1> DEFINE quote == [id |-> CHOOSE n \in Unused : TRUE, market |-> m,
                     status |-> Status(cached[m]), metadata |-> cached[m].at,
                     received |-> seconds]
<1>1. UNCHANGED unmovedWorld /\ UNCHANGED <<stage, endedAt, seconds, cached, warehouse>>
  BY DEF Snapshot, unmovedWorld
<1>2. /\ inMemory' = inMemory \union {quote}
      /\ \/ /\ onDisk' = inMemory' /\ taken' = taken \union {quote}
            /\ todo' = todo \ {m} /\ asked' = Nothing /\ UNCHANGED <<cycle, began>>
         \/ EndCycle /\ UNCHANGED <<onDisk, taken>>
  BY DEF Snapshot
<1>3. /\ quote.market = m /\ quote.metadata = cached[m].at /\ quote.received = seconds
      /\ quote.status = "OPEN" => cached[m].stage = "active"
      /\ quote.status = "RESOLVED" => cached[m].payout
  BY DEF Status
<1>4. m \in DOMAIN asked /\ m \in DOMAIN cached /\ began < cached[m].at + CacheLife
  BY DEF Snapshot, Awaits, QuotesInv, AskedIsTrue
<1> HIDE DEF quote
<1>5. JournalKeeps'
  BY <1>1, <1>2 DEF QuotesInv, JournalKeeps
<1>6. /\ cached[m].at \in Nat /\ cached[m].at <= seconds /\ seconds \in Nat
      /\ cached[m].stage = "active" => stage[m] = "active" \/ endedAt[m] + CycleLife >= cached[m].at
      /\ cached[m].payout => stage[m] = "final"
      /\ began \in Nat /\ seconds <= began + CycleLife
  BY <1>4 DEF QuotesInv, QuotesTyped, CacheIsTrue, CycleIsShort
<1>7. /\ quote.market \in Targeted
      /\ quote.metadata \in Nat /\ quote.metadata <= seconds
      /\ quote.received - quote.metadata \in 0..(CacheLife + CycleLife - 1)
      /\ quote.status = "OPEN" =>
           stage[quote.market] = "active" \/ endedAt[quote.market] + CycleLife >= quote.metadata
      /\ quote.status = "RESOLVED" => stage[quote.market] = "final"
  <2> DEFINE n == cached[m].at
  <2>1. /\ n \in Nat /\ n <= seconds /\ seconds \in Nat /\ began < n + CacheLife
        /\ began \in Nat /\ seconds <= began + CycleLife /\ CycleLife \in Nat /\ CacheLife \in Nat
    BY <1>4, <1>6
  <2> HIDE DEF n
  <2>2. seconds - n \in 0..(CacheLife + CycleLife - 1)
    BY <2>1
  <2>3. QED
    BY <1>3, <1>6, <2>2 DEF n
<1>8. TakenIsTrue' /\ QuotesAreTrue'
  <2>1. taken' \subseteq taken \union {quote}
    BY <1>2
  <2>2. QED
    BY <1>1, <1>7, <2>1 DEF QuotesInv, TakenIsTrue, QuotesAreTrue
<1>9. CycleIsShort' /\ AskedIsTrue' /\ todo' \subseteq Targeted
  <2>1. CASE todo' = todo \ {m} /\ asked' = Nothing /\ UNCHANGED <<cycle, began>>
    <3>1. DOMAIN asked' = {}
      BY <2>1 DEF Nothing
    <3>2. QED
      BY <1>1, <2>1, <3>1 DEF QuotesInv, QuotesTyped, CycleIsShort, AskedIsTrue
  <2>2. QED
    BY <1>1, <1>2, <2>1, CycleEnds
<1>10. QuotesTyped' /\ CacheIsTrue'
  BY <1>1, <1>9 DEF QuotesInv, QuotesTyped, CacheIsTrue
<1>11. QED
  BY <1>5, <1>8, <1>9, <1>10 DEF QuotesInv

LEMMA QuotesStep == QuotesInv /\ [QuotesNext]_quoteVars => QuotesInv'
<1> SUFFICES ASSUME QuotesInv, [QuotesNext]_quoteVars PROVE QuotesInv'
  OBVIOUS
<1> USE QuotesAssumption
<1>1. CASE UNCHANGED quoteVars
  <2>1. UNCHANGED <<stage, endedAt, seconds, todo, cycle, began, asked, cached, inMemory, onDisk, warehouse, taken>>
    BY <1>1 DEF quoteVars
  <2>2. QED
    BY <2>1 DEF QuotesInv, QuotesTyped, CycleIsShort, CacheIsTrue, AskedIsTrue, JournalKeeps,
       TakenIsTrue, QuotesAreTrue
<1>2. CASE SecondPasses
  <2>1. /\ UNCHANGED <<stage, endedAt>> /\ UNCHANGED cycleVars /\ UNCHANGED journal
        /\ seconds' = seconds + 1 /\ (cycle # "idle" => seconds < began + CycleLife)
    BY <1>2 DEF SecondPasses
  <2>2. /\ seconds \in Nat /\ began \in Nat /\ CycleLife \in Nat
        /\ stage \in [Targeted -> {"active", "closed", "final"}] /\ endedAt \in [Targeted -> Nat]
    BY DEF QuotesInv, QuotesTyped, CycleIsShort
  <2>3. /\ seconds' \in Nat /\ seconds <= seconds'
        /\ cycle # "idle" => seconds' <= began + CycleLife
    BY <2>1, <2>2
  <2>4. QED
    BY <2>1, <2>2, <2>3, WorldMoves
<1>3. CASE Restart
  <2>1. /\ EndCycle /\ UNCHANGED unmovedWorld /\ UNCHANGED taken /\ DOMAIN cached' = {}
        /\ inMemory' = onDisk /\ UNCHANGED <<onDisk, warehouse>>
    BY <1>3 DEF Restart
  <2>2. JournalKeeps'
    BY <2>1 DEF QuotesInv, JournalKeeps
  <2>3. QED
    BY <2>1, <2>2, CycleEnds, JournalMoves
<1>4. ASSUME NEW m \in Targeted, Advance(m) PROVE QuotesInv'
  <2>1. UNCHANGED seconds /\ UNCHANGED cycleVars /\ UNCHANGED journal
    BY <1>4 DEF Advance
  <2>2. /\ stage' = [stage EXCEPT ![m] = IF stage[m] = "active" THEN "closed" ELSE "final"]
        /\ endedAt' = IF stage[m] = "active" THEN [endedAt EXCEPT ![m] = seconds] ELSE endedAt
    BY <1>4 DEF Advance
  <2>3. /\ stage \in [Targeted -> {"active", "closed", "final"}]
        /\ endedAt \in [Targeted -> Nat] /\ seconds \in Nat
        /\ cycle # "idle" => seconds <= began + CycleLife
    BY DEF QuotesInv, QuotesTyped, CycleIsShort
  <2>4. QED
    BY <2>1, <2>2, <2>3, WorldMoves
<1>5. ASSUME UNCHANGED unmovedWorld, UNCHANGED journal, UNCHANGED cached,
             CycleIsShort', AskedIsTrue', todo' \subseteq Targeted
      PROVE  QuotesInv'
  <2>1. JournalKeeps' /\ UNCHANGED taken
    BY <1>5 DEF QuotesInv, JournalKeeps, journal
  <2>2. QED
    BY <1>5, <2>1, JournalMoves
<1>6. ASSUME NEW m \in Targeted, Skip(m) PROVE QuotesInv'
  <2>1. /\ UNCHANGED unmovedWorld /\ UNCHANGED journal /\ UNCHANGED cached
        /\ UNCHANGED <<cycle, began>> /\ todo' = todo \ {m} /\ asked' = Nothing
    BY <1>6 DEF Skip
  <2>2. DOMAIN asked' = {} /\ seconds' = seconds
    BY <2>1 DEF Nothing, unmovedWorld
  <2>3. CycleIsShort' /\ AskedIsTrue' /\ todo' \subseteq Targeted
    BY <2>1, <2>2 DEF QuotesInv, QuotesTyped, CycleIsShort, AskedIsTrue
  <2>4. QED
    BY <1>5, <2>1, <2>3
<1>7. CASE Start \/ Finish
  <2>1. /\ UNCHANGED unmovedWorld /\ UNCHANGED journal /\ UNCHANGED <<todo, asked, cached>>
        /\ \/ cycle = "idle" /\ began' = seconds
           \/ cycle = "snapshots" /\ todo = {} /\ UNCHANGED began
    BY <1>7 DEF Start, Finish
  <2>2. DOMAIN asked' = {} /\ seconds' = seconds
    BY <2>1 DEF QuotesInv, CycleIsShort, unmovedWorld
  <2>3. CycleIsShort' /\ AskedIsTrue' /\ todo' \subseteq Targeted
    BY <2>1, <2>2 DEF QuotesInv, QuotesTyped, CycleIsShort, AskedIsTrue
  <2>4. QED
    BY <1>5, <2>1, <2>3
<1>8. CASE Interrupt
  <2>1. EndCycle /\ UNCHANGED cached /\ UNCHANGED unmovedWorld /\ UNCHANGED journal
    BY <1>8 DEF Interrupt
  <2>2. QED
    BY <1>5, <2>1, CycleEnds
<1>9. QED
  BY <1>1, <1>2, <1>3, <1>4, <1>6, <1>7, <1>8, DeliverInv, BeginSnapshotInv, MarketAnswersInv,
     HoldMetadataInv, SnapshotInv DEF QuotesNext

\* A quote that was saved is delivered or still in the file, whatever fails after it
\* (deliver and the spool of execution.rs).  However slowly the exchange answers and
\* whenever it closes a market, a quote tells what was so at most a cycle before its
\* metadata was stamped, and is received at most CacheLife and a cycle after (snapshot
\* and the cache).
THEOREM QuotesStayOK == QuotesSpec => []QuotesOK
<1>1. QuotesInv => QuotesAreNotLost
  BY DEF QuotesInv, JournalKeeps, QuotesAreNotLost
<1>2. QuotesInv => QuotesOK
  BY <1>1 DEF QuotesInv, QuotesOK
<1>3. QED
  BY <1>2, QuotesInitially, QuotesStep, PTL DEF QuotesSpec

----------------------------------------------------------------------------
(* Automatic links come first and reviews of a pair are of the rules in    *)
(* force.  The strengthening is what the locks of an open transaction      *)
(* protect until it commits.                                               *)

Link == [market : LinkedMarket, item : TopicItem, status : Decision \union {"TOPIC_ONLY"},
         method : {"macro-topic", "operator"}, at : Nat]
PairReview == [verdict : Verdict, rules : Nat \X Nat, imported : BOOLEAN]
Writing == [stage : {"FORM", "OPEN"}, locks : SUBSET (LinkedMarket \union {PairRow}),
            rows : SUBSET Link, reviews : Seq(PairReview)]

AssociationsTyped ==
    /\ links \subseteq Link
    /\ pairReviews \in Seq(PairReview)
    /\ ruleVersion \in [LinkedMarket -> Nat]
    /\ writing \in [Writer -> Writing \union {NoWriter}]
    /\ linkHour \in Nat

Opened(w) == ~Free(w) /\ writing[w].stage = "OPEN"

\* The row of a market or of the pair is locked once.
RowLocksAreExclusive ==
    \A v, w \in Writer :
        Opened(v) /\ Opened(w) /\ v # w => writing[v].locks \intersect writing[w].locks = {}

\* A link waits behind the lock of its market; an automatic one is still the first.
LinksWait ==
    \A w \in Writer : ~Free(w) => \A r \in writing[w].rows :
        /\ r.market \in writing[w].locks
        /\ r.method = "macro-topic" => writing[w].stage = "OPEN" /\ RowsOf(r.market, r.item) = {}

\* Not what the last review of the pair says.
SaysMore(review) ==
    pairReviews # <<>> =>
        [verdict |-> review.verdict, rules |-> review.rules] #
        [verdict |-> pairReviews[Len(pairReviews)].verdict,
         rules |-> pairReviews[Len(pairReviews)].rules]

\* A review waits behind the locks of the pair, alone and of the rules in force.
ReviewsWait ==
    \A w \in Writer : ~Free(w) /\ writing[w].reviews # <<>> =>
        /\ writing[w].stage = "OPEN" /\ PairLocks \subseteq writing[w].locks
        /\ Len(writing[w].reviews) = 1
        /\ writing[w].reviews[1].rules = Rules
        /\ writing[w].reviews[1].imported => SaysMore(writing[w].reviews[1])

AssociationsInv == AssociationsTyped /\ RowLocksAreExclusive /\ LinksWait /\ ReviewsWait

LEMMA AssociationsInitially == AssociationsInit => AssociationsInv
<1> SUFFICES ASSUME AssociationsInit PROVE AssociationsInv
  OBVIOUS
<1>1. AssociationsTyped
  BY DEF AssociationsInit, AssociationsTyped
<1>2. \A w \in Writer : Free(w)
  BY DEF AssociationsInit, Free
<1>3. QED
  BY <1>1, <1>2 DEF AssociationsInv, RowLocksAreExclusive, LinksWait, ReviewsWait, Opened

\* A writer that takes its locks: nobody else holds them.
LEMMA OpensInv ==
    ASSUME AssociationsInv, NEW w \in Writer,
           NEW locks \in SUBSET (LinkedMarket \union {PairRow}), NEW rows \in SUBSET Link,
           NEW reviews \in Seq(PairReview), Opens(w, locks, rows, reviews),
           \A r \in rows : r.market \in locks
                           /\ (r.method = "macro-topic" => RowsOf(r.market, r.item) = {}),
           reviews # <<>> =>
             /\ PairLocks \subseteq locks /\ Len(reviews) = 1 /\ reviews[1].rules = Rules
             /\ reviews[1].imported => SaysMore(reviews[1])
    PROVE  AssociationsInv'
<1> DEFINE row == [stage |-> "OPEN", locks |-> locks, rows |-> rows, reviews |-> reviews]
<1>1. /\ UNCHANGED <<links, pairReviews, ruleVersion, linkHour>>
      /\ writing' = [writing EXCEPT ![w] = row]
      /\ locks \intersect Held = {}
  BY DEF Opens
<1>2. row \in Writing
  BY DEF Writing
<1>3. /\ row.stage = "OPEN" /\ row.locks = locks /\ row.rows = rows /\ row.reviews = reviews
  OBVIOUS
<1> HIDE DEF row
<1>4. writing' \in [Writer -> Writing \union {NoWriter}]
        /\ writing'[w] = row /\ \A v \in Writer \ {w} : writing'[v] = writing[v]
  BY <1>1, <1>2 DEF AssociationsInv, AssociationsTyped
<1>5. AssociationsTyped'
  BY <1>1, <1>4 DEF AssociationsInv, AssociationsTyped
<1>6. \A v \in Writer : Opened(v) => writing[v].locks \intersect locks = {}
  BY <1>1 DEF Held, Opened
<1>7. \A v \in Writer \ {w} : (Opened(v)' <=> Opened(v)) /\ (Free(v)' <=> Free(v))
  BY <1>4 DEF Opened, Free
<1>8. RowLocksAreExclusive'
  BY <1>3, <1>4, <1>6, <1>7 DEF AssociationsInv, RowLocksAreExclusive
<1>9. \A m, i : RowsOf(m, i)' = RowsOf(m, i)
  BY <1>1 DEF RowsOf
<1>10. LinksWait'
  BY <1>3, <1>4, <1>7, <1>9 DEF AssociationsInv, LinksWait
<1>11. Rules' = Rules /\ \A x : SaysMore(x)' <=> SaysMore(x)
  BY <1>1 DEF Rules, SaysMore
<1>12. ReviewsWait'
  BY <1>3, <1>4, <1>7, <1>11 DEF AssociationsInv, ReviewsWait
<1>13. QED
  BY <1>5, <1>8, <1>10, <1>12 DEF AssociationsInv

\* A history with rows added.
LEMMA Joined ==
    ASSUME NEW S, NEW s \in Seq(S), NEW t \in Seq(S)
    PROVE  /\ s \o t \in Seq(S)
           /\ Len(t) = 1 => (s \o t)[Len(s \o t)] = t[1]
  OBVIOUS

\* A writer that ends, with or without its rows.
LEMMA EndsInv ==
    ASSUME AssociationsInv, NEW w \in Writer, ~Free(w),
           writing' = [writing EXCEPT ![w] = NoWriter],
           UNCHANGED <<ruleVersion, linkHour>>,
           \/ UNCHANGED <<links, pairReviews>>
           \/ /\ writing[w].stage = "OPEN" /\ links' = links \union writing[w].rows
              /\ pairReviews' = pairReviews \o writing[w].reviews
    PROVE  AssociationsInv'
<1>1. /\ writing[w] \in Writing /\ writing[w].rows \subseteq Link /\ writing[w].reviews \in Seq(PairReview)
      /\ pairReviews \in Seq(PairReview) /\ links \subseteq Link
  BY DEF AssociationsInv, AssociationsTyped, Free, Writing
<1>2. links' \subseteq Link /\ pairReviews' \in Seq(PairReview)
  <2>1. links' \subseteq Link
    BY <1>1
  <2> DEFINE more == writing[w].reviews
  <2>2. more \in Seq(PairReview) /\ (pairReviews' = pairReviews \/ pairReviews' = pairReviews \o more)
    BY <1>1
  <2> HIDE DEF more
  <2>3. pairReviews' \in Seq(PairReview)
    <3>1. pairReviews \o more \in Seq(PairReview)
      BY <1>1, <2>2, Joined
    <3>2. QED
      BY <1>1, <2>2, <3>1
  <2>4. QED
    BY <2>1, <2>3
<1>3. /\ writing' \in [Writer -> Writing \union {NoWriter}]
      /\ writing'[w] = NoWriter /\ \A v \in Writer \ {w} : writing'[v] = writing[v]
  BY DEF AssociationsInv, AssociationsTyped
<1>4. AssociationsTyped'
  BY <1>2, <1>3 DEF AssociationsInv, AssociationsTyped
<1>5. Free(w)' /\ \A v \in Writer \ {w} : (Opened(v)' <=> Opened(v)) /\ (Free(v)' <=> Free(v))
  BY <1>3 DEF Opened, Free
<1>6. RowLocksAreExclusive'
  BY <1>3, <1>5 DEF AssociationsInv, RowLocksAreExclusive, Opened
<1>7. ASSUME NEW v \in Writer \ {w}, ~Free(v), NEW r \in writing[v].rows, r.method = "macro-topic"
      PROVE  RowsOf(r.market, r.item)' = {}
  <2>1. Opened(v) /\ r.market \in writing[v].locks /\ RowsOf(r.market, r.item) = {}
    BY <1>7 DEF AssociationsInv, LinksWait, Opened
  <2>2. CASE links' = links
    BY <2>1, <2>2 DEF RowsOf
  <2>3. CASE writing[w].stage = "OPEN" /\ links' = links \union writing[w].rows
    <3>1. writing[v].locks \intersect writing[w].locks = {}
      BY <2>1, <2>3 DEF AssociationsInv, RowLocksAreExclusive, Opened
    <3>2. \A x \in writing[w].rows : x.market # r.market
      BY <2>1, <3>1 DEF AssociationsInv, LinksWait
    <3>3. QED
      BY <2>1, <2>3, <3>2 DEF RowsOf
  <2>4. QED
    BY <2>2, <2>3
<1>8. LinksWait'
  BY <1>3, <1>5, <1>7 DEF AssociationsInv, LinksWait
<1>9. ASSUME NEW v \in Writer \ {w}, ~Free(v), writing[v].reviews # <<>>
      PROVE  pairReviews' = pairReviews
  <2>1. Opened(v) /\ PairRow \in writing[v].locks
    BY <1>9 DEF AssociationsInv, ReviewsWait, Opened, PairLocks
  <2>2. CASE writing[w].stage = "OPEN" /\ pairReviews' = pairReviews \o writing[w].reviews
    <3>1. PairRow \notin writing[w].locks
      BY <2>1, <2>2 DEF AssociationsInv, RowLocksAreExclusive, Opened
    <3>2. writing[w].reviews = <<>>
      BY <3>1 DEF AssociationsInv, ReviewsWait, PairLocks
    <3>3. QED
      BY <1>1, <2>2, <3>2
  <2>3. QED
    BY <2>2
<1>10. Rules' = Rules
  BY DEF Rules
<1>11. ReviewsWait'
  BY <1>3, <1>5, <1>9, <1>10 DEF AssociationsInv, ReviewsWait, SaysMore
<1>12. QED
  BY <1>4, <1>6, <1>8, <1>11 DEF AssociationsInv


\* The shape of the rows: an operator's and an automatic one.
LEMMA RowTypes ==
    ASSUME AssociationsTyped, NEW m \in LinkedMarket, NEW i \in TopicItem
    PROVE  /\ Row(m, i, "TOPIC_ONLY", "macro-topic") \in Link
           /\ \A status \in Decision : Row(m, i, status, "operator") \in Link
  BY DEF AssociationsTyped, Row, Link

LEMMA AssociateInv ==
    ASSUME AssociationsInv, NEW w \in Writer, NEW m \in LinkedMarket, AssociateTopic(w, m)
    PROVE  AssociationsInv'
<1> DEFINE missing == {i \in TopicItem : RowsOf(m, i) = {}}
           rows == {Row(m, i, "TOPIC_ONLY", "macro-topic") : i \in missing}
<1>1. Opens(w, {m}, rows, <<>>)
  BY DEF AssociateTopic, TopicLocks
<1>2. \A i \in missing : Row(m, i, "TOPIC_ONLY", "macro-topic") \in Link
  BY RowTypes DEF AssociationsInv
<1>3. rows \in SUBSET Link
  BY <1>2
<1>4. \A r \in rows : r.market = m /\ r.item \in missing
  BY DEF Row
<1>5. \A r \in rows : r.market \in {m} /\ RowsOf(r.market, r.item) = {}
  BY <1>4
<1>6. {m} \in SUBSET (LinkedMarket \union {PairRow}) /\ <<>> \in Seq(PairReview)
  OBVIOUS
<1> HIDE DEF rows
<1>7. QED
  BY <1>1, <1>3, <1>5, <1>6, OpensInv

LEMMA SubmitInv ==
    ASSUME AssociationsInv, NEW w \in Writer, NEW m \in LinkedMarket, NEW i \in TopicItem,
           NEW status \in Decision, SubmitLink(w, m, i, status)
    PROVE  AssociationsInv'
<1> DEFINE link == Row(m, i, status, "operator")
           form == [stage |-> "FORM", locks |-> {m}, rows |-> {link}, reviews |-> <<>>]
<1>1. link \in Link /\ link.market = m /\ link.method = "operator"
  BY RowTypes DEF AssociationsInv, Row
<1>2. /\ UNCHANGED <<links, pairReviews, ruleVersion, linkHour>>
      /\ writing' = [writing EXCEPT ![w] = form]
  BY DEF SubmitLink
<1> HIDE DEF link
<1>3. form \in Writing /\ form.stage = "FORM" /\ form.locks = {m} /\ form.rows = {link} /\ form.reviews = <<>>
  BY <1>1 DEF Writing
<1> HIDE DEF form
<1>4. writing' \in [Writer -> Writing \union {NoWriter}]
        /\ writing'[w] = form /\ \A v \in Writer \ {w} : writing'[v] = writing[v]
  BY <1>2, <1>3 DEF AssociationsInv, AssociationsTyped
<1>5. ~Opened(w)' /\ \A v \in Writer \ {w} : (Opened(v)' <=> Opened(v)) /\ (Free(v)' <=> Free(v))
  BY <1>3, <1>4 DEF Opened, Free
<1>6. AssociationsTyped' /\ RowLocksAreExclusive'
  BY <1>2, <1>4, <1>5 DEF AssociationsInv, AssociationsTyped, RowLocksAreExclusive
<1>7. \A k, x : RowsOf(k, x)' = RowsOf(k, x)
  BY <1>2 DEF RowsOf
<1>8. LinksWait'
  BY <1>1, <1>3, <1>4, <1>5, <1>7 DEF AssociationsInv, LinksWait
<1>9. Rules' = Rules /\ \A x : SaysMore(x)' <=> SaysMore(x)
  BY <1>2 DEF Rules, SaysMore
<1>10. ReviewsWait'
  BY <1>3, <1>4, <1>5, <1>9 DEF AssociationsInv, ReviewsWait
<1>11. QED
  BY <1>6, <1>8, <1>10 DEF AssociationsInv

LEMMA LockLinkInv ==
    ASSUME AssociationsInv, NEW w \in Writer, LockLink(w)
    PROVE  AssociationsInv'
<1> DEFINE locks == writing[w].locks
           rows == writing[w].rows
<1>1. ~Free(w) /\ writing[w].stage = "FORM" /\ Opens(w, locks, rows, <<>>)
  BY DEF LockLink
<1>2. /\ locks \in SUBSET (LinkedMarket \union {PairRow})
      /\ rows \in SUBSET Link /\ <<>> \in Seq(PairReview)
  BY <1>1 DEF AssociationsInv, AssociationsTyped, Free, Writing
<1>3. \A r \in rows : r.market \in locks /\ r.method # "macro-topic"
  BY <1>1 DEF AssociationsInv, LinksWait
<1> HIDE DEF locks, rows
<1>4. QED
  BY <1>1, <1>2, <1>3, OpensInv

\* Both ways of reviewing the pair.
LEMMA ReviewInv ==
    ASSUME AssociationsInv, NEW w \in Writer, NEW verdict \in Verdict, NEW imported \in BOOLEAN,
           Opens(w, PairLocks, {}, <<[verdict |-> verdict, rules |-> Rules, imported |-> imported]>>),
           imported => SaysMore([verdict |-> verdict, rules |-> Rules, imported |-> TRUE])
    PROVE  AssociationsInv'
<1> DEFINE review == [verdict |-> verdict, rules |-> Rules, imported |-> imported]
<1>1. Rules \in Nat \X Nat /\ PairLocks \in SUBSET (LinkedMarket \union {PairRow})
  BY AssociationsAssumption DEF AssociationsInv, AssociationsTyped, Rules, PairLocks
<1>2. review \in PairReview /\ review.rules = Rules /\ review.imported = imported
  BY <1>1 DEF PairReview
<1>3. imported => SaysMore(review)
  BY DEF SaysMore
<1>4. Opens(w, PairLocks, {}, <<review>>)
  OBVIOUS
<1> HIDE DEF review
<1>5. <<review>> \in Seq(PairReview) /\ Len(<<review>>) = 1 /\ <<review>>[1] = review
        /\ {} \in SUBSET Link
  BY <1>2
<1>6. QED
  BY <1>1, <1>2, <1>3, <1>4, <1>5, OpensInv

LEMMA RulesInv ==
    ASSUME AssociationsInv, NEW m \in LinkedMarket, UpdateRules(m)
    PROVE  AssociationsInv'
<1>1. /\ UNCHANGED <<links, pairReviews, writing, linkHour>> /\ m \notin Held
      /\ ruleVersion' = [ruleVersion EXCEPT ![m] = ruleVersion[m] + 1]
  BY DEF UpdateRules
<1>2. AssociationsTyped' /\ RowLocksAreExclusive' /\ LinksWait'
  BY <1>1 DEF AssociationsInv, AssociationsTyped, RowLocksAreExclusive, LinksWait, Opened, Free, RowsOf
<1>3. ASSUME NEW w \in Writer, ~Free(w), writing[w].reviews # <<>> PROVE Rules' = Rules
  <2>1. {Left, Right} \subseteq Held
    BY <1>3 DEF AssociationsInv, ReviewsWait, Held, PairLocks
  <2>2. m # Left /\ m # Right
    BY <1>1, <2>1
  <2>3. QED
    BY <1>1, <2>2 DEF Rules, AssociationsInv, AssociationsTyped
<1>4. ReviewsWait'
  BY <1>1, <1>3 DEF AssociationsInv, ReviewsWait, SaysMore, Free
<1>5. QED
  BY <1>2, <1>4 DEF AssociationsInv

LEMMA AssociationsStep == AssociationsInv /\ [AssociationsNext]_assocVars => AssociationsInv'
<1> SUFFICES ASSUME AssociationsInv, [AssociationsNext]_assocVars PROVE AssociationsInv'
  OBVIOUS
<1>1. ASSUME NEW w \in Writer, NEW verdict \in Verdict, AppendReview(w, verdict) PROVE AssociationsInv'
  BY <1>1, ReviewInv DEF AppendReview
<1>2. ASSUME NEW w \in Writer, NEW verdict \in Verdict, NEW left, NEW right,
             ImportReview(w, verdict, <<left, right>>)
      PROVE  AssociationsInv'
  <2>1. SaysMore([verdict |-> verdict, rules |-> Rules, imported |-> TRUE])
    BY <1>2 DEF ImportReview, SaysMore, Unchanged
  <2>2. QED
    BY <1>2, <2>1, ReviewInv DEF ImportReview
<1>3. ASSUME NEW w \in Writer, CommitRows(w) \/ RollbackRows(w) PROVE AssociationsInv'
  BY <1>3, EndsInv DEF CommitRows, RollbackRows
<1>4. CASE LinkHourPasses \/ UNCHANGED assocVars
  <2>1. UNCHANGED <<links, pairReviews, ruleVersion, writing>> /\ linkHour' \in Nat
    BY <1>4 DEF LinkHourPasses, assocVars, AssociationsInv, AssociationsTyped
  <2>2. QED
    BY <2>1 DEF AssociationsInv, AssociationsTyped, RowLocksAreExclusive, LinksWait, ReviewsWait,
                SaysMore, Opened, Free, RowsOf, Rules
<1>5. QED
  BY <1>1, <1>2, <1>3, <1>4, AssociateInv, SubmitInv, LockLinkInv, RulesInv DEF AssociationsNext

\* New rows appear with a commit.
LEMMA CommitsAdd ==
    ASSUME [AssociationsNext]_assocVars
    PROVE  \/ links' = links /\ pairReviews' = pairReviews
           \/ \E w \in Writer : CommitRows(w)
  BY DEF AssociationsNext, assocVars, AssociateTopic, SubmitLink, LockLink, AppendReview, ImportReview,
         RollbackRows, UpdateRules, LinkHourPasses, Opens

\* An automatic link appears where the market and the item had none, and a review of
\* the pair with the rules in force, an imported one only where it says something else
\* (associate_topics, append_review, import_comparisons, behind the rows' locks).
THEOREM AssociationsStayOrdered == AssociationsSpec => AssociationsAreOrdered
<1>1. AssociationsInv /\ [AssociationsNext]_assocVars =>
        [\A r \in links' \ links : r.method = "macro-topic" => RowsOf(r.market, r.item) = {}]_assocVars
  <2> SUFFICES ASSUME AssociationsInv, [AssociationsNext]_assocVars, NEW r \in links' \ links,
                      r.method = "macro-topic"
               PROVE  RowsOf(r.market, r.item) = {}
    OBVIOUS
  <2>1. PICK w \in Writer : CommitRows(w)
    BY CommitsAdd
  <2>2. ~Free(w) /\ r \in writing[w].rows
    BY <2>1 DEF CommitRows
  <2>3. QED
    BY <2>2 DEF AssociationsInv, LinksWait
<1>2. AssociationsInv /\ [AssociationsNext]_assocVars =>
        [Len(pairReviews') > Len(pairReviews) =>
           LET added == pairReviews'[Len(pairReviews')]
           IN /\ added.rules = Rules
              /\ added.imported /\ pairReviews # <<>> =>
                   [verdict |-> added.verdict, rules |-> added.rules] #
                   [verdict |-> pairReviews[Len(pairReviews)].verdict,
                    rules |-> pairReviews[Len(pairReviews)].rules]]_assocVars
  <2> SUFFICES ASSUME AssociationsInv, [AssociationsNext]_assocVars,
                      Len(pairReviews') > Len(pairReviews)
               PROVE  /\ pairReviews'[Len(pairReviews')].rules = Rules
                      /\ pairReviews'[Len(pairReviews')].imported => SaysMore(pairReviews'[Len(pairReviews')])
    BY DEF SaysMore
  <2>1. pairReviews \in Seq(PairReview) /\ Len(pairReviews) \in Nat
    BY DEF AssociationsInv, AssociationsTyped
  <2>2. PICK w \in Writer : CommitRows(w)
    BY <2>1, CommitsAdd
  <2> DEFINE more == writing[w].reviews
  <2>3. ~Free(w) /\ more \in Seq(PairReview) /\ pairReviews' = pairReviews \o more
    BY <2>2 DEF CommitRows, AssociationsInv, AssociationsTyped, Free, Writing
  <2>4. more # <<>>
    <3> HIDE DEF more
    <3>1. QED
      BY <2>1, <2>3
  <2>5. Len(more) = 1 /\ more[1].rules = Rules /\ (more[1].imported => SaysMore(more[1]))
    BY <2>3, <2>4 DEF AssociationsInv, ReviewsWait
  <2>6. pairReviews'[Len(pairReviews')] = more[1]
    BY <2>1, <2>3, <2>5, Joined
  <2>7. QED
    BY <2>5, <2>6
<1>3. QED
  BY <1>1, <1>2, AssociationsInitially, AssociationsStep, PTL
  DEF AssociationsSpec, AssociationsAreOrdered, AutomaticLinkIsFirst, PairReviewsAreOfTheirRules

----------------------------------------------------------------------------
(* What is published or tried is what the page showed, and versions        *)
(* differ.  The strengthening says that a page whose revision is the saved *)
(* one shows the saved draft, and that nothing edits the default draft.    *)

AssistantName == Name \union {DefaultName}
Draft == [name : AssistantName, graph : Graph, revision : Nat]
Version == [name : AssistantName, graph : Graph, by : Editor]
ShownDraft == [assistant : Assistant, name : AssistantName, graph : Graph, revision : Nat]

AssistantsTyped ==
    /\ drafts \in [Assistant -> Draft]
    /\ versions \in [Assistant -> Seq(Version)]
    /\ page \in [Editor -> ShownDraft \union {NoForm}]
    /\ trials \in Seq([by : Editor, graph : Graph])

\* A page is of a draft there is, not newer than it, and of the same revision only if
\* it shows it.
PagesShowDrafts ==
    \A e \in Editor : page[e] # NoForm =>
        LET row == drafts[page[e].assistant]
        IN /\ 0 < page[e].revision /\ page[e].revision <= row.revision
           /\ page[e].revision = row.revision => page[e].name = row.name /\ page[e].graph = row.graph

\* The default draft is never saved.
DefaultIsKept ==
    /\ drafts[DefaultAssistant].name = DefaultName /\ drafts[DefaultAssistant].graph = DefaultGraph
    /\ drafts[DefaultAssistant].revision <= 1

AssistantsInv == AssistantsTyped /\ PagesShowDrafts /\ DefaultIsKept /\ VersionsAreDistinct

LEMMA AssistantsInitially == AssistantsInit => AssistantsInv
<1> SUFFICES ASSUME AssistantsInit PROVE AssistantsInv
  OBVIOUS
<1>1. NoDraft \in Draft
  BY AssistantsAssumption DEF NoDraft, Draft, AssistantName
<1>2. AssistantsTyped
  BY <1>1 DEF AssistantsInit, AssistantsTyped
<1>3. PagesShowDrafts /\ DefaultIsKept /\ VersionsAreDistinct
  BY AssistantsAssumption DEF AssistantsInit, NoDraft, PagesShowDrafts, DefaultIsKept, VersionsAreDistinct
<1>4. QED
  BY <1>2, <1>3 DEF AssistantsInv

\* The page of e is loaded from the draft it works on, which may be a new one.
LEMMA PageInv ==
    ASSUME AssistantsInv, NEW e \in Editor, NEW a \in Assistant, NEW row \in Draft,
           drafts' = [drafts EXCEPT ![a] = row], page' = [page EXCEPT ![e] = Page(a, row)],
           \/ row = drafts[a] /\ row.revision > 0
           \/ a # DefaultAssistant /\ row.revision > drafts[a].revision,
           UNCHANGED <<versions, trials>>
    PROVE  AssistantsInv'
<1>1. Page(a, row) \in ShownDraft /\ Page(a, row).assistant = a /\ Page(a, row).revision = row.revision
        /\ Page(a, row).name = row.name /\ Page(a, row).graph = row.graph
  BY DEF Page, ShownDraft, Draft
<1>2. /\ drafts \in [Assistant -> Draft] /\ page \in [Editor -> ShownDraft \union {NoForm}]
      /\ row.revision \in Nat /\ \A b \in Assistant : drafts[b].revision \in Nat
      /\ DefaultAssistant \in Assistant
  BY AssistantsAssumption DEF AssistantsInv, AssistantsTyped, Draft
<1>3. /\ drafts' \in [Assistant -> Draft] /\ drafts'[a] = row
      /\ \A b \in Assistant \ {a} : drafts'[b] = drafts[b]
      /\ page' \in [Editor -> ShownDraft \union {NoForm}] /\ page'[e] = Page(a, row)
      /\ \A d \in Editor \ {e} : page'[d] = page[d]
  BY <1>1, <1>2
<1>4. AssistantsTyped' /\ VersionsAreDistinct'
  BY <1>3 DEF AssistantsInv, AssistantsTyped, VersionsAreDistinct
<1>5. DefaultIsKept'
  BY <1>2, <1>3 DEF AssistantsInv, DefaultIsKept
<1>6. ASSUME NEW d \in Editor \ {e}, page[d] # NoForm
      PROVE  LET new == drafts'[page[d].assistant]
             IN /\ 0 < page[d].revision /\ page[d].revision <= new.revision
                /\ page[d].revision = new.revision =>
                     page[d].name = new.name /\ page[d].graph = new.graph
  <2> DEFINE b == page[d].assistant
             n == page[d].revision
  <2>1. page[d] \in ShownDraft /\ b \in Assistant /\ n \in Nat
    BY <1>2, <1>6 DEF ShownDraft
  <2>2. /\ 0 < n /\ n <= drafts[b].revision
        /\ n = drafts[b].revision => page[d].name = drafts[b].name /\ page[d].graph = drafts[b].graph
    BY <1>6 DEF AssistantsInv, PagesShowDrafts
  <2>3. drafts'[b] = drafts[b] \/ drafts'[b].revision > drafts[b].revision
    BY <1>3, <2>1
  <2>4. drafts[b].revision \in Nat /\ drafts'[b].revision \in Nat
    BY <1>2, <1>3, <2>1 DEF Draft
  <2> HIDE DEF b, n
  <2>5. /\ 0 < n /\ n <= drafts'[b].revision
        /\ n = drafts'[b].revision => page[d].name = drafts'[b].name /\ page[d].graph = drafts'[b].graph
    BY <2>1, <2>2, <2>3, <2>4
  <2>6. QED
    BY <2>5 DEF b, n
<1>7. PagesShowDrafts'
  <2>1. 0 < row.revision
    BY <1>2
  <2> SUFFICES ASSUME NEW d \in Editor, page'[d] # NoForm
               PROVE  LET new == drafts'[page'[d].assistant]
                      IN /\ 0 < page'[d].revision /\ page'[d].revision <= new.revision
                         /\ page'[d].revision = new.revision =>
                              page'[d].name = new.name /\ page'[d].graph = new.graph
    BY DEF PagesShowDrafts
  <2>2. CASE d = e
    BY <1>1, <1>2, <1>3, <2>1, <2>2
  <2>3. CASE d # e
    BY <1>3, <1>6, <2>3
  <2>4. QED
    BY <2>2, <2>3
<1>8. QED
  BY <1>4, <1>5, <1>7 DEF AssistantsInv

\* What a release adds.
LEMMA ReleaseAdds ==
    ASSUME AssistantsInv, NEW e \in Editor, NEW a \in Assistant, Release(e, a),
           drafts'[a].name = drafts[a].name, drafts'[a].graph = drafts[a].graph
    PROVE  LET new == [name |-> drafts[a].name, graph |-> drafts[a].graph, by |-> e]
           IN /\ versions' \in [Assistant -> Seq(Version)]
              /\ \/ versions' = versions
                 \/ versions' = [versions EXCEPT ![a] = Append(versions[a], new)]
              /\ VersionsAreDistinct'
<1> DEFINE old == versions[a]
           new == [name |-> drafts[a].name, graph |-> drafts[a].graph, by |-> e]
<1>1. versions \in [Assistant -> Seq(Version)] /\ drafts[a] \in Draft /\ old \in Seq(Version)
  BY DEF AssistantsInv, AssistantsTyped
<1>2. new \in Version /\ new.name = drafts[a].name /\ new.graph = drafts[a].graph
  BY <1>1 DEF Draft, Version
<1>3. new.graph \in ValidGraph
  BY <1>2 DEF Release
<1>4. CASE Released(a)
  BY <1>1, <1>4 DEF Release, AssistantsInv, VersionsAreDistinct
<1>5. CASE ~Released(a)
  <2>1. versions' = [versions EXCEPT ![a] = Append(old, new)]
    BY <1>5 DEF Release
  <2>2. old # <<>> => old[Len(old)].graph # new.graph \/ old[Len(old)].name # new.name
    BY <1>2, <1>5 DEF Released, Last
  <2>3. \A n \in 1..Len(old) :
           /\ old[n].graph \in ValidGraph
           /\ n > 1 => old[n].graph # old[n - 1].graph \/ old[n].name # old[n - 1].name
    BY DEF AssistantsInv, VersionsAreDistinct
  <2> DEFINE more == Append(old, new)
  <2> HIDE DEF old, new
  <2>4. more \in Seq(Version) /\ Len(more) = Len(old) + 1 /\ more[Len(old) + 1] = new
          /\ Len(old) \in Nat /\ \A n \in 1..Len(old) : more[n] = old[n]
    BY <1>1, <1>2
  <2> HIDE DEF more
  <2>5. \A n \in 1..Len(more) :
           /\ more[n].graph \in ValidGraph
           /\ n > 1 => more[n].graph # more[n - 1].graph \/ more[n].name # more[n - 1].name
    <3> SUFFICES ASSUME NEW n \in 1..Len(more)
                 PROVE  /\ more[n].graph \in ValidGraph
                        /\ n > 1 => more[n].graph # more[n - 1].graph \/ more[n].name # more[n - 1].name
      OBVIOUS
    <3>1. CASE n \in 1..Len(old)
      <4>1. more[n] = old[n] /\ (n > 1 => more[n - 1] = old[n - 1])
        BY <2>4, <3>1
      <4>2. QED
        BY <2>3, <3>1, <4>1
    <3>2. CASE n = Len(old) + 1
      <4>1. n - 1 = Len(old) /\ Len(old) \in Nat
        BY <2>4, <3>2
      <4>2. n > 1 => Len(old) \in 1..Len(old)
        BY <4>1
      <4>3. n > 1 => old # <<>> /\ more[n - 1] = old[Len(old)]
        <5>1. old = <<>> => Len(old) = 0
          BY <1>1
        <5>2. QED
          BY <2>4, <4>1, <4>2, <5>1
      <4>4. QED
        BY <1>3, <2>2, <2>4, <3>2, <4>3
    <3>3. QED
      BY <2>4, <3>1, <3>2
  <2>6. /\ versions' \in [Assistant -> Seq(Version)] /\ versions'[a] = more
        /\ \A b \in Assistant \ {a} : versions'[b] = versions[b]
    BY <1>1, <2>1, <2>4 DEF more
  <2>7. VersionsAreDistinct'
    <3> SUFFICES ASSUME NEW b \in Assistant, NEW n \in 1..Len(versions'[b])
                 PROVE  /\ versions'[b][n].graph \in ValidGraph
                        /\ n > 1 => \/ versions'[b][n].graph # versions'[b][n - 1].graph
                                    \/ versions'[b][n].name # versions'[b][n - 1].name
      BY DEF VersionsAreDistinct
    <3>1. CASE b = a
      BY <2>5, <2>6, <3>1
    <3>2. CASE b # a
      <4>1. versions'[b] = versions[b]
        BY <2>6, <3>2
      <4>2. QED
        BY <4>1 DEF AssistantsInv, VersionsAreDistinct
    <3>3. QED
      BY <3>1, <3>2
  <2>8. QED
    BY <2>1, <2>6, <2>7 DEF old, new
<1>6. QED
  BY <1>4, <1>5


\* A release leaves drafts and pages as they are, but for the first default draft.
LEMMA ReleaseInv ==
    ASSUME AssistantsInv, NEW e \in Editor, NEW a \in Assistant, Release(e, a),
           \/ UNCHANGED drafts
           \/ /\ ~DraftExists(DefaultAssistant)
              /\ drafts' = [drafts EXCEPT ![DefaultAssistant] = [drafts[DefaultAssistant] EXCEPT !.revision = 1]],
           UNCHANGED <<page, trials>>
    PROVE  /\ AssistantsInv'
           /\ LET new == [name |-> drafts[a].name, graph |-> drafts[a].graph, by |-> e]
              IN \/ versions' = versions
                 \/ versions' = [versions EXCEPT ![a] = Append(versions[a], new)]
<1> DEFINE first == [drafts[DefaultAssistant] EXCEPT !.revision = 1]
<1>1. drafts \in [Assistant -> Draft] /\ DefaultAssistant \in Assistant
        /\ drafts[DefaultAssistant] \in Draft
  BY AssistantsAssumption DEF AssistantsInv, AssistantsTyped
<1>2. /\ first \in Draft /\ first.revision = 1
      /\ first.name = drafts[DefaultAssistant].name /\ first.graph = drafts[DefaultAssistant].graph
  BY <1>1 DEF Draft
<1>3. UNCHANGED drafts \/ (drafts[DefaultAssistant].revision = 0 /\ drafts' = [drafts EXCEPT ![DefaultAssistant] = first])
  BY <1>1 DEF DraftExists, Draft
<1> HIDE DEF first
<1>4. /\ drafts' \in [Assistant -> Draft]
      /\ \A b \in Assistant : drafts'[b].name = drafts[b].name /\ drafts'[b].graph = drafts[b].graph
      /\ \A b \in Assistant : \/ drafts'[b].revision = drafts[b].revision
                              \/ drafts[b].revision = 0 /\ drafts'[b].revision = 1
  BY <1>1, <1>2, <1>3
<1>5. LET new == [name |-> drafts[a].name, graph |-> drafts[a].graph, by |-> e]
      IN /\ versions' \in [Assistant -> Seq(Version)]
         /\ \/ versions' = versions
            \/ versions' = [versions EXCEPT ![a] = Append(versions[a], new)]
         /\ VersionsAreDistinct'
  BY <1>4, ReleaseAdds
<1>6. AssistantsTyped'
  BY <1>4, <1>5 DEF AssistantsInv, AssistantsTyped
<1>7. PagesShowDrafts'
  <2> SUFFICES ASSUME NEW d \in Editor, page[d] # NoForm
               PROVE  LET new == drafts'[page[d].assistant]
                      IN /\ 0 < page[d].revision /\ page[d].revision <= new.revision
                         /\ page[d].revision = new.revision =>
                              page[d].name = new.name /\ page[d].graph = new.graph
    BY DEF PagesShowDrafts
  <2> DEFINE b == page[d].assistant
             n == page[d].revision
  <2>1. b \in Assistant /\ n \in Nat
    BY DEF AssistantsInv, AssistantsTyped, ShownDraft
  <2>2. /\ 0 < n /\ n <= drafts[b].revision
        /\ n = drafts[b].revision => page[d].name = drafts[b].name /\ page[d].graph = drafts[b].graph
    BY DEF AssistantsInv, PagesShowDrafts
  <2>3. drafts[b].revision # 0 => drafts'[b].revision = drafts[b].revision
    BY <1>4, <2>1
  <2>4. drafts'[b].revision = drafts[b].revision
    <3> HIDE DEF b, n
    <3>1. QED
      BY <2>1, <2>2, <2>3
  <2>5. QED
    BY <1>4, <2>1, <2>2, <2>4
<1>8. DefaultIsKept'
  BY <1>1, <1>4 DEF AssistantsInv, DefaultIsKept
<1>9. QED
  BY <1>5, <1>6, <1>7, <1>8 DEF AssistantsInv

\* Behind its lock a page shows the draft.
LEMMA LockedShows ==
    ASSUME AssistantsInv, NEW e \in Editor, LockedFor(e)
    PROVE  /\ page[e] \in ShownDraft /\ page[e].assistant \in Assistant
           /\ page[e].name = drafts[page[e].assistant].name
           /\ page[e].graph = drafts[page[e].assistant].graph
  BY DEF LockedFor, AssistantsInv, AssistantsTyped, PagesShowDrafts, ShownDraft

LEMMA LoadInv == ASSUME AssistantsInv, NEW e \in Editor, NEW a \in Assistant, Load(e, a)
                 PROVE  AssistantsInv'
<1>1. drafts[a] \in Draft /\ drafts[a].revision > 0 /\ drafts' = [drafts EXCEPT ![a] = drafts[a]]
  BY DEF Load, DraftExists, AssistantsInv, AssistantsTyped
<1>2. QED
  BY <1>1, PageInv DEF Load

LEMMA CreateDraftInv ==
    ASSUME AssistantsInv, NEW e \in Editor, NEW a \in Assistant, NEW name \in Name,
           NEW source \in {NoForm} \union Assistant, Create(e, a, name, source)
    PROVE  AssistantsInv'
<1> DEFINE row == [name |-> name, revision |-> 1,
                   graph |-> IF source = NoForm THEN DefaultGraph ELSE drafts[source].graph]
<1>1. /\ ~DraftExists(a) /\ a # DefaultAssistant /\ UNCHANGED <<versions, trials>>
      /\ drafts' = [drafts EXCEPT ![a] = row] /\ page' = [page EXCEPT ![e] = Page(a, row)]
  BY DEF Create
<1>2. row \in Draft /\ row.revision = 1
  <2>1. source # NoForm => drafts[source].graph \in Graph
    BY DEF AssistantsInv, AssistantsTyped, Draft
  <2>2. DefaultGraph \in Graph
    BY AssistantsAssumption
  <2>3. QED
    BY <2>1, <2>2 DEF Draft, AssistantName
<1>3. row.revision > drafts[a].revision
  BY <1>1 DEF DraftExists, AssistantsInv, AssistantsTyped, Draft
<1> HIDE DEF row
<1>4. QED
  BY <1>1, <1>2, <1>3, PageInv

LEMMA SaveInv ==
    ASSUME AssistantsInv, NEW e \in Editor, NEW name \in Name, NEW graph \in Graph,
           SaveDraft(e, name, graph)
    PROVE  AssistantsInv'
<1> DEFINE a == page[e].assistant
           row == [name |-> name, graph |-> graph, revision |-> drafts[a].revision + 1]
<1>1. a \in Assistant /\ drafts[a].revision \in Nat
  BY LockedShows DEF SaveDraft, AssistantsInv, AssistantsTyped, Draft
<1>2. /\ a # DefaultAssistant /\ UNCHANGED <<versions, trials>>
      /\ drafts' = [drafts EXCEPT ![a] = row] /\ page' = [page EXCEPT ![e] = Page(a, row)]
  BY DEF SaveDraft
<1>3. row \in Draft /\ row.revision > drafts[a].revision
  <2> HIDE DEF a
  <2>1. QED
    BY <1>1 DEF Draft, AssistantName
<1> HIDE DEF row, a
<1>4. QED
  BY <1>1, <1>2, <1>3, PageInv

LEMMA DefaultVersionReleases ==
    ASSUME AssistantsInv, NEW e \in Editor, DefaultVersion(e)
    PROVE  /\ DefaultAssistant \in Assistant /\ Release(e, DefaultAssistant)
           /\ UNCHANGED <<page, trials>>
           /\ \/ UNCHANGED drafts
              \/ /\ ~DraftExists(DefaultAssistant)
                 /\ drafts' = [drafts EXCEPT ![DefaultAssistant] =
                                 [drafts[DefaultAssistant] EXCEPT !.revision = 1]]
  BY AssistantsAssumption DEF DefaultVersion

LEMMA AssistantsStep == AssistantsInv /\ [AssistantsNext]_assistantVars => AssistantsInv'
<1> SUFFICES ASSUME AssistantsInv, [AssistantsNext]_assistantVars PROVE AssistantsInv'
  OBVIOUS
<1>1. ASSUME NEW e \in Editor, Publish(e) PROVE AssistantsInv'
  <2>1. page[e].assistant \in Assistant
    BY <1>1, LockedShows DEF Publish
  <2>2. QED
    BY <1>1, <2>1, ReleaseInv DEF Publish
<1>2. ASSUME NEW e \in Editor, DefaultVersion(e) PROVE AssistantsInv'
  BY <1>2, DefaultVersionReleases, ReleaseInv
<1>3. ASSUME NEW e \in Editor, Trial(e) PROVE AssistantsInv'
  <2>1. drafts[page[e].assistant].graph \in Graph
    BY <1>3, LockedShows DEF Trial, AssistantsInv, AssistantsTyped, Draft
  <2>2. trials' \in Seq([by : Editor, graph : Graph])
    BY <1>3, <2>1 DEF Trial, AssistantsInv, AssistantsTyped
  <2>3. QED
    BY <1>3, <2>2 DEF Trial, AssistantsInv, AssistantsTyped, PagesShowDrafts, DefaultIsKept, VersionsAreDistinct
<1>4. CASE UNCHANGED assistantVars
  BY <1>4 DEF assistantVars, AssistantsInv, AssistantsTyped, PagesShowDrafts, DefaultIsKept, VersionsAreDistinct
<1>5. QED
  BY <1>1, <1>2, <1>3, <1>4, LoadInv, CreateDraftInv, SaveInv DEF AssistantsNext

\* A version that appears is the draft of its assistant, and its publisher's page
\* shows it, if it shows that assistant.
LEMMA VersionIsShown ==
    ASSUME AssistantsInv, [AssistantsNext]_assistantVars, NEW a \in Assistant,
           Len(versions'[a]) > Len(versions[a])
    PROVE  LET v == Last(versions'[a])
           IN IF page[v.by] # NoForm /\ page[v.by].assistant = a
              THEN v.name = page[v.by].name /\ v.graph = page[v.by].graph
              ELSE a = DefaultAssistant /\ v.graph = DefaultGraph
<1>1. versions[a] \in Seq(Version) /\ Len(versions[a]) \in Nat
  BY DEF AssistantsInv, AssistantsTyped
<1>2. versions' # versions
  BY <1>1
<1>3. PICK e \in Editor : Publish(e) \/ DefaultVersion(e)
  BY <1>2 DEF AssistantsNext, assistantVars, Load, Create, SaveDraft, Trial
<1>4. ASSUME NEW b \in Assistant,
             LET new == [name |-> drafts[b].name, graph |-> drafts[b].graph, by |-> e]
             IN \/ versions' = versions
                \/ versions' = [versions EXCEPT ![b] = Append(versions[b], new)]
      PROVE  /\ b = a
             /\ LET v == Last(versions'[a])
                IN v.by = e /\ v.name = drafts[a].name /\ v.graph = drafts[a].graph
  <2> DEFINE new == [name |-> drafts[b].name, graph |-> drafts[b].graph, by |-> e]
  <2>1. versions' = [versions EXCEPT ![b] = Append(versions[b], new)]
    BY <1>2, <1>4
  <2>2. versions \in [Assistant -> Seq(Version)]
    BY DEF AssistantsInv, AssistantsTyped
  <2>3. b = a
    <3>1. b # a => versions'[a] = versions[a]
      BY <2>1, <2>2
    <3>2. QED
      BY <1>1, <3>1
  <2>4. versions'[a] = Append(versions[a], new)
    BY <2>1, <2>2, <2>3
  <2>5. new.by = e /\ new.name = drafts[a].name /\ new.graph = drafts[a].graph
    BY <2>3
  <2> HIDE DEF new
  <2>6. Last(versions'[a]) = new
    BY <1>1, <2>4 DEF Last
  <2>7. QED
    BY <2>3, <2>5, <2>6
<1>5. CASE Publish(e)
  <2>1. LockedFor(e) /\ UNCHANGED drafts /\ Release(e, page[e].assistant) /\ UNCHANGED <<page, trials>>
    BY <1>5 DEF Publish
  <2>2. /\ page[e].assistant \in Assistant /\ page[e] # NoForm
        /\ page[e].name = drafts[page[e].assistant].name
        /\ page[e].graph = drafts[page[e].assistant].graph
    BY <2>1, LockedShows DEF LockedFor
  <2>3. /\ page[e].assistant = a
        /\ LET v == Last(versions'[a])
           IN v.by = e /\ v.name = drafts[a].name /\ v.graph = drafts[a].graph
    BY <2>1, <2>2, <1>4, ReleaseInv
  <2>4. QED
    BY <2>2, <2>3
<1>6. CASE DefaultVersion(e)
  <2>1. /\ DefaultAssistant = a
        /\ LET v == Last(versions'[a])
           IN v.by = e /\ v.name = drafts[a].name /\ v.graph = drafts[a].graph
    BY <1>4, <1>6, DefaultVersionReleases, ReleaseInv
  <2>2. drafts[a].name = DefaultName /\ drafts[a].graph = DefaultGraph /\ drafts[a].revision <= 1
          /\ drafts[a].revision \in Nat
    BY <2>1 DEF AssistantsInv, DefaultIsKept, AssistantsTyped, Draft
  <2>3. ASSUME page[e] # NoForm, page[e].assistant = a
        PROVE  page[e].name = drafts[a].name /\ page[e].graph = drafts[a].graph
    <3>1. /\ 0 < page[e].revision /\ page[e].revision <= drafts[a].revision
          /\ page[e].revision = drafts[a].revision =>
               page[e].name = drafts[a].name /\ page[e].graph = drafts[a].graph
      BY <2>3 DEF AssistantsInv, PagesShowDrafts
    <3>2. page[e].revision \in Nat
      BY <2>3 DEF AssistantsInv, AssistantsTyped, ShownDraft
    <3>3. QED
      BY <2>2, <3>1, <3>2
  <2>4. QED
    BY <2>1, <2>2, <2>3
<1>7. QED
  BY <1>3, <1>5, <1>6

\* A trial is of the graph its editor's page shows.
LEMMA TrialIsShown ==
    ASSUME AssistantsInv, [AssistantsNext]_assistantVars, trials' # trials
    PROVE  Last(trials').graph = page[Last(trials').by].graph
<1>1. PICK e \in Editor : Trial(e)
  BY DEF AssistantsNext, assistantVars, Load, Create, SaveDraft, Publish, DefaultVersion
<1> DEFINE new == [by |-> e, graph |-> drafts[page[e].assistant].graph]
<1>2. trials' = Append(trials, new) /\ LockedFor(e) /\ trials \in Seq([by : Editor, graph : Graph])
  BY <1>1 DEF Trial, AssistantsInv, AssistantsTyped
<1>3. new.by = e /\ new.graph = page[e].graph
  BY <1>2, LockedShows
<1> HIDE DEF new
<1>4. Last(trials') = new
  BY <1>2 DEF Last
<1>5. QED
  BY <1>3, <1>4

\* Editors who save, publish and try at the same time get what they saw, and no
\* version repeats the one before (locked and release of assistants.py).
THEOREM VersionsStaySound == AssistantsSpec => VersionsAreSound
<1>1. AssistantsInv /\ [AssistantsNext]_assistantVars =>
        [/\ \A a \in Assistant : Len(versions'[a]) > Len(versions[a]) =>
              LET v == Last(versions'[a])
              IN IF page[v.by] # NoForm /\ page[v.by].assistant = a
                 THEN v.name = page[v.by].name /\ v.graph = page[v.by].graph
                 ELSE a = DefaultAssistant /\ v.graph = DefaultGraph
         /\ trials' # trials => Last(trials').graph = page[Last(trials').by].graph]_assistantVars
  BY VersionIsShown, TrialIsShown
<1>2. AssistantsInv => VersionsAreDistinct
  BY DEF AssistantsInv
<1>3. QED
  BY <1>1, <1>2, AssistantsInitially, AssistantsStep, PTL
  DEF AssistantsSpec, VersionsAreSound, PublishedAsShown


----------------------------------------------------------------------------
(* The market directory.  The pages of a collector form a log: those that  *)
(* ClickHouse has, and the pending one.  No failure, stop or repeated      *)
(* delivery changes an entry of it or takes one back, which is what makes  *)
(* the cursors, the directory and the progress of scans true.              *)

ScanCursor == [scan : Nat, cursor : Nat, finished : BOOLEAN]
CatalogJournal ==
    [id : Nat, pending : CatalogPage \union {NoPage}, scans : [Exchange -> ScanCursor]]

CatalogTyped ==
    /\ journals \in [Scanner -> CatalogJournal] /\ journalFiles \in [Scanner -> CatalogJournal]
    /\ DOMAIN pages = Scanner /\ positions \in [Scanner -> Nat] /\ DOMAIN scans = Exchange
    /\ now \in Nat /\ catalogFaults \in 0..CatalogFaults

\* Every page but a pending one is in ClickHouse, and that one may be.
PagesAreKept(c) ==
    LET j == journals[c] IN
    /\ DOMAIN pages[c] \in {1..j.id, 1..(j.id - 1)}
    /\ j.pending = NoPage => DOMAIN pages[c] = 1..j.id
    /\ j.pending # NoPage =>
         /\ j.id > 0 /\ j.pending.id = j.id
         /\ j.id \in DOMAIN pages[c] => pages[c][j.id] = j.pending

\* The file is the journal, or still has as pending the page delivered last.
FileIsKept(c) ==
    LET j == journals[c]
        file == journalFiles[c] IN
    /\ file.id = j.id /\ file.scans = j.scans
    /\ \/ file.pending = j.pending
       \/ j.pending = NoPage /\ j.id > 0 /\ file.pending = pages[c][j.id]

\* The page of collector c with number k.
Logged(c, k) ==
    IF journals[c].pending # NoPage /\ k = journals[c].id THEN journals[c].pending ELSE pages[c][k]

IsPage(sheet, e, scan, number) ==
    sheet.exchange = e /\ sheet.scan = scan /\ sheet.number = number

\* A page comes after the earlier pages of its scan.
LogIsSound(c) ==
    \A k \in 1..journals[c].id :
        LET sheet == Logged(c, k) IN
        /\ sheet \in CatalogPage /\ sheet.id = k /\ sheet.at \in 1..now
        /\ sheet.number \in 1..Len(Listing[sheet.exchange])
        /\ sheet.state = "complete" => sheet.number = Len(Listing[sheet.exchange])
        /\ \A n \in 1..(sheet.number - 1) : \E i \in 1..(k - 1) :
             IsPage(Logged(c, i), sheet.exchange, sheet.scan, n)

\* A cursor comes after pages of its scan.
CursorsAreSound(c) ==
    \A e \in Exchange :
        LET s == journals[c].scans[e] IN
        /\ s.finished \/ s.cursor < Len(Listing[e])
        /\ \A n \in 1..s.cursor : \E i \in 1..journals[c].id : IsPage(Logged(c, i), e, s.scan, n)

\* What was merged is in ClickHouse.
MergedAreKept(c) == 1..positions[c] \subseteq DOMAIN pages[c]

\* The progress of a scan was read from a page that was merged.
ProgressIsMerged ==
    \A e \in Exchange : scans[e].state = "complete" =>
        /\ scans[e].by \in Scanner
        /\ \E k \in 1..positions[scans[e].by] :
             LET sheet == pages[scans[e].by][k] IN
             sheet.exchange = e /\ sheet.scan = scans[e].scan /\ sheet.state = "complete"

\* The times of the merged pages that list m, and the row they make.
MergedTimes(m) ==
    {t \in 1..now : \E c \in Scanner : \E k \in 1..positions[c] :
       pages[c][k].at = t /\ m \in pages[c][k].items}
IsRowOf(row, times) ==
    /\ row \in [first : Nat, last : Nat]
    /\ IF times = {} THEN row = Unseen
       ELSE row.first \in times /\ row.last \in times /\ \A t \in times : row.first <= t /\ t <= row.last
RowsAreMerged == \A m \in Listed : IsRowOf(directory[m], MergedTimes(m))

CatalogInv ==
    /\ CatalogTyped
    /\ \A c \in Scanner : /\ PagesAreKept(c) /\ FileIsKept(c) /\ LogIsSound(c) /\ CursorsAreSound(c)
                          /\ MergedAreKept(c)
    /\ ProgressIsMerged /\ RowsAreMerged


LEMMA NewPageIs == \A j \in CatalogPage : j # NoPage
  BY CatalogAssumption

LEMMA CatalogInitially == CatalogInit => CatalogInv
<1> SUFFICES ASSUME CatalogInit PROVE CatalogInv
  OBVIOUS
<1> DEFINE j == [id |-> 0, pending |-> NoPage, scans |-> [e \in Exchange |-> NewScan]]
<1>1. NewScan \in ScanCursor /\ NewScan.cursor = 0 /\ NewScan.finished
  BY DEF NewScan, ScanCursor
<1>2. j \in CatalogJournal /\ j.id = 0 /\ j.pending = NoPage /\ \A e \in Exchange : j.scans[e] = NewScan
  BY <1>1 DEF CatalogJournal
<1>3. \A c \in Scanner : journals[c] = j /\ journalFiles[c] = j /\ pages[c] = <<>> /\ positions[c] = 0
  BY DEF CatalogInit
<1>4. CatalogTyped
  <2>1. journals \in [Scanner -> CatalogJournal] /\ journalFiles = journals
    BY <1>2 DEF CatalogInit
  <2>2. QED
    BY <2>1, CatalogAssumption DEF CatalogInit, CatalogTyped
<1> HIDE DEF j
<1>5. \A c \in Scanner : DOMAIN pages[c] = 1..0
  BY <1>3
<1>6. ASSUME NEW c \in Scanner
      PROVE  /\ PagesAreKept(c) /\ FileIsKept(c) /\ LogIsSound(c) /\ CursorsAreSound(c)
             /\ MergedAreKept(c)
  <2>1. PagesAreKept(c) /\ FileIsKept(c)
    BY <1>2, <1>3, <1>5 DEF PagesAreKept, FileIsKept
  <2>2. LogIsSound(c) /\ CursorsAreSound(c) /\ MergedAreKept(c)
    BY <1>1, <1>2, <1>3, <1>5 DEF LogIsSound, CursorsAreSound, MergedAreKept
  <2>3. QED
    BY <2>1, <2>2
<1>7. ProgressIsMerged
  BY DEF CatalogInit, NoScan, ProgressIsMerged
<1>8. \A m \in Listed : MergedTimes(m) = {} /\ directory[m] = Unseen
  BY <1>3 DEF CatalogInit, MergedTimes
<1>9. RowsAreMerged
  BY <1>8 DEF RowsAreMerged, IsRowOf, Unseen
<1>10. QED
  BY <1>4, <1>6, <1>7, <1>9 DEF CatalogInv

\* A step that reads no page leaves the log as it is; a cursor stays or goes back to the
\* beginning of a new scan.
LEMMA LogStays ==
    ASSUME CatalogInv, CatalogTyped', UNCHANGED <<positions, directory, scans, now>>,
           \A c \in Scanner :
             /\ journals'[c].id = journals[c].id /\ PagesAreKept(c)' /\ FileIsKept(c)'
             /\ \A k \in 1..journals[c].id : Logged(c, k)' = Logged(c, k)
             /\ \A k \in DOMAIN pages[c] : k \in DOMAIN pages'[c] /\ pages'[c][k] = pages[c][k]
             /\ \A e \in Exchange :
                  \/ journals'[c].scans[e] = journals[c].scans[e]
                  \/ journals'[c].scans[e].cursor = 0 /\ ~journals'[c].scans[e].finished
    PROVE  CatalogInv'
<1>1. \A c \in Scanner : \A k \in 1..positions[c] :
        k \in DOMAIN pages[c] /\ k \in DOMAIN pages'[c] /\ pages'[c][k] = pages[c][k]
  BY DEF CatalogInv, MergedAreKept
<1>2. ASSUME NEW c \in Scanner
      PROVE  LogIsSound(c)' /\ CursorsAreSound(c)' /\ MergedAreKept(c)'
  <2>1. LogIsSound(c)'
    <3>1. /\ LogIsSound(c) /\ journals'[c].id = journals[c].id /\ now' = now /\ journals[c].id \in Nat
          /\ \A k \in 1..journals[c].id : Logged(c, k)' = Logged(c, k)
      BY <1>2 DEF CatalogInv, CatalogTyped, CatalogJournal
    <3> DEFINE n == journals[c].id
    <3>2. \A k \in 1..n : \A i \in 1..(k - 1) : i \in 1..n
      BY <3>1
    <3>3. QED
      BY <3>1, <3>2 DEF LogIsSound
  <2>2. CursorsAreSound(c)'
    <3> SUFFICES ASSUME NEW e \in Exchange
                 PROVE  LET s == journals'[c].scans[e] IN
                        /\ s.finished \/ s.cursor < Len(Listing[e])
                        /\ \A n \in 1..s.cursor : \E i \in 1..journals'[c].id :
                             IsPage(Logged(c, i)', e, s.scan, n)
      BY DEF CursorsAreSound
    <3>1. CASE journals'[c].scans[e] = journals[c].scans[e]
      BY <1>2, <3>1 DEF CatalogInv, CursorsAreSound
    <3>2. CASE journals'[c].scans[e].cursor = 0 /\ ~journals'[c].scans[e].finished
      <4>1. 0 < Len(Listing[e])
        BY CatalogAssumption
      <4>2. QED
        BY <3>2, <4>1
    <3>3. QED
      BY <1>2, <3>1, <3>2
  <2>3. MergedAreKept(c)'
    BY <1>1, <1>2 DEF MergedAreKept
  <2>4. QED
    BY <2>1, <2>2, <2>3
<1>3. ProgressIsMerged'
  <2> SUFFICES ASSUME NEW e \in Exchange, scans[e].state = "complete"
               PROVE  /\ scans[e].by \in Scanner
                      /\ \E k \in 1..positions[scans[e].by] :
                           LET sheet == pages'[scans[e].by][k] IN
                           sheet.exchange = e /\ sheet.scan = scans[e].scan /\ sheet.state = "complete"
    BY DEF ProgressIsMerged
  <2>1. /\ scans[e].by \in Scanner
        /\ \E k \in 1..positions[scans[e].by] :
             LET sheet == pages[scans[e].by][k] IN
             sheet.exchange = e /\ sheet.scan = scans[e].scan /\ sheet.state = "complete"
    BY DEF CatalogInv, ProgressIsMerged
  <2>2. QED
    BY <1>1, <2>1
<1>4. \A m \in Listed : MergedTimes(m)' = MergedTimes(m)
  BY <1>1 DEF MergedTimes
<1>5. RowsAreMerged'
  BY <1>4 DEF CatalogInv, RowsAreMerged
<1>6. QED
  BY <1>2, <1>3, <1>5 DEF CatalogInv

\* The number of a page, the types of a journal and of what is pending.
LEMMA JournalTypes ==
    ASSUME CatalogInv, NEW c \in Scanner
    PROVE  /\ journals[c] \in CatalogJournal /\ journalFiles[c] \in CatalogJournal
           /\ journals[c].id \in Nat /\ positions[c] \in Nat
           /\ journals[c].pending # NoPage =>
                journals[c].pending \in CatalogPage /\ journals[c].pending.id = journals[c].id
           /\ PagesAreKept(c) /\ FileIsKept(c) /\ LogIsSound(c) /\ CursorsAreSound(c)
           /\ MergedAreKept(c)
  BY DEF CatalogInv, CatalogTyped, CatalogJournal, PagesAreKept

\* An insert of the pending page adds it to those in ClickHouse.
LEMMA InsertedPages ==
    ASSUME CatalogInv, NEW c \in Scanner, journals[c].pending # NoPage, pages' = Inserted(c)
    PROVE  /\ DOMAIN pages' = Scanner /\ DOMAIN pages'[c] = 1..journals[c].id
           /\ pages'[c][journals[c].id] = journals[c].pending
           /\ \A k \in DOMAIN pages[c] : k \in DOMAIN pages'[c] /\ pages'[c][k] = pages[c][k]
           /\ \A d \in Scanner \ {c} : pages'[d] = pages[d]
<1> DEFINE n == journals[c].id
           p == journals[c].pending
           row == [k \in DOMAIN pages[c] \cup {n} |-> IF k = n THEN p ELSE pages[c][k]]
<1>1. /\ n \in Nat /\ n > 0 /\ p.id = n /\ DOMAIN pages[c] \in {1..n, 1..(n - 1)}
      /\ n \in DOMAIN pages[c] => pages[c][n] = p
  BY JournalTypes DEF PagesAreKept
<1>2. DOMAIN pages = Scanner
  BY DEF CatalogInv, CatalogTyped
<1>3. pages' = [pages EXCEPT ![c] = row]
  BY <1>1 DEF Inserted
<1> HIDE DEF n, p
<1>4. DOMAIN row = 1..n /\ row[n] = p /\ \A k \in DOMAIN pages[c] : k \in DOMAIN row /\ row[k] = pages[c][k]
  BY <1>1
<1> HIDE DEF row
<1>5. DOMAIN pages' = Scanner /\ pages'[c] = row /\ \A d \in Scanner \ {c} : pages'[d] = pages[d]
  BY <1>2, <1>3
<1>6. QED
  BY <1>4, <1>5 DEF n, p

\* Steps of the collector that read no page, and its stops.
LEMMA CollectorKeeps ==
    ASSUME CatalogInv, NEW c \in Scanner, CatalogTyped',
           UNCHANGED <<positions, directory, scans, now>>,
           \/ pages' = pages
           \/ journals[c].pending # NoPage /\ pages' = Inserted(c),
           \A d \in Scanner \ {c} : journals'[d] = journals[d] /\ journalFiles'[d] = journalFiles[d],
           journals'[c].id = journals[c].id, FileIsKept(c)',
           \/ journals'[c].pending = journals[c].pending
           \/ journals'[c].pending = NoPage /\ pages' = Inserted(c)
           \/ journals[c].pending = NoPage /\ journals[c].id > 0
              /\ journals'[c].pending = pages[c][journals[c].id],
           \A e \in Exchange :
              \/ journals'[c].scans[e] = journals[c].scans[e]
              \/ journals'[c].scans[e].cursor = 0 /\ ~journals'[c].scans[e].finished
    PROVE  CatalogInv'
<1> DEFINE n == journals[c].id
           p == journals[c].pending
           q == journals'[c].pending
<1>1. n \in Nat /\ PagesAreKept(c) /\ (p # NoPage => p.id = n)
  BY JournalTypes
<1>2. \A d \in Scanner \ {c} : pages'[d] = pages[d]
  BY InsertedPages
<1>3. \A d \in Scanner \ {c} : PagesAreKept(d)' /\ FileIsKept(d)'
  BY <1>2, JournalTypes DEF PagesAreKept, FileIsKept
<1>4. \A k \in DOMAIN pages[c] : k \in DOMAIN pages'[c] /\ pages'[c][k] = pages[c][k]
  BY InsertedPages
<1>5. CASE q = p
  <2>1. CASE pages' = pages
    <3>1. PagesAreKept(c)' /\ \A k \in 1..n : Logged(c, k)' = Logged(c, k)
      BY <1>1, <1>5, <2>1 DEF PagesAreKept, Logged
    <3>2. QED
      BY <1>2, <1>3, <1>4, <3>1, LogStays DEF Logged
  <2>2. CASE p # NoPage /\ pages' = Inserted(c)
    <3>1. DOMAIN pages'[c] = 1..n /\ pages'[c][n] = p /\ n > 0
      BY <1>1, <2>2, InsertedPages DEF PagesAreKept
    <3>2. PagesAreKept(c)'
      BY <1>1, <1>5, <2>2, <3>1 DEF PagesAreKept
    <3>3. ASSUME NEW k \in 1..n PROVE Logged(c, k)' = Logged(c, k)
      <4>1. CASE k = n
        BY <1>5, <2>2, <4>1 DEF Logged
      <4>2. CASE k # n
        <5>1. k \in DOMAIN pages[c]
          BY <1>1, <4>2 DEF PagesAreKept
        <5>2. QED
          BY <1>4, <4>2, <5>1 DEF Logged
      <4>3. QED
        BY <4>1, <4>2
    <3>4. QED
      BY <1>2, <1>3, <1>4, <3>2, <3>3, LogStays DEF Logged
  <2>3. QED
    BY <2>1, <2>2
<1>6. CASE p # NoPage /\ q = NoPage /\ pages' = Inserted(c)
  <2>1. DOMAIN pages'[c] = 1..n /\ pages'[c][n] = p /\ n > 0
    BY <1>1, <1>6, InsertedPages DEF PagesAreKept
  <2>2. PagesAreKept(c)'
    BY <1>1, <1>6, <2>1 DEF PagesAreKept
  <2>3. ASSUME NEW k \in 1..n PROVE Logged(c, k)' = Logged(c, k)
    <3>1. CASE k = n
      BY <1>6, <2>1, <3>1 DEF Logged
    <3>2. CASE k # n
      <4>1. k \in DOMAIN pages[c]
        BY <1>1, <3>2 DEF PagesAreKept
      <4>2. QED
        BY <1>4, <1>6, <3>2, <4>1 DEF Logged
    <3>3. QED
      BY <3>1, <3>2
  <2>4. QED
    BY <1>2, <1>3, <1>4, <2>2, <2>3, LogStays DEF Logged
<1>7. CASE p = NoPage /\ q # NoPage
  <2>1. n > 0 /\ q = pages[c][n] /\ pages' = pages /\ DOMAIN pages[c] = 1..n
    BY <1>1, <1>7 DEF PagesAreKept
  <2>2. q.id = n
    <3>1. Logged(c, n) = q /\ n \in 1..n
      BY <1>1, <1>7, <2>1 DEF Logged
    <3>2. QED
      BY <3>1, JournalTypes DEF LogIsSound
  <2>3. PagesAreKept(c)' /\ \A k \in 1..n : Logged(c, k)' = Logged(c, k)
    BY <1>1, <1>7, <2>1, <2>2 DEF PagesAreKept, Logged
  <2>4. QED
    BY <1>2, <1>3, <1>4, <2>3, LogStays DEF Logged
<1>8. QED
  BY <1>5, <1>6, <1>7


\* What a save writes.
LEMMA JournalSaved ==
    ASSUME CatalogInv, NEW c \in Scanner, NEW mayFail \in BOOLEAN, SaveJournal(c, mayFail)
    PROVE  /\ catalogFaults' \in 0..CatalogFaults
           /\ journalFiles' = journalFiles \/ journalFiles' = [journalFiles EXCEPT ![c] = journals'[c]]
           /\ ~mayFail => journalFiles' = [journalFiles EXCEPT ![c] = journals'[c]]
<1>1. catalogFaults \in 0..CatalogFaults /\ CatalogFaults \in Nat
  BY CatalogAssumption DEF CatalogInv, CatalogTyped
<1>2. QED
  BY <1>1 DEF SaveJournal, Fault

\* The page that is read and the cursor after it.
LEMMA PageIsNext ==
    ASSUME CatalogInv, NEW c \in Scanner, NEW e \in Exchange
    PROVE  LET s == Begun(journals[c].scans[e])
               sheet == Parsed(c, e, s).page
               after == Parsed(c, e, s).scan
           IN /\ s \in ScanCursor /\ s.cursor < Len(Listing[e])
              /\ \A n \in 1..s.cursor : \E i \in 1..journals[c].id : IsPage(Logged(c, i), e, s.scan, n)
              /\ sheet \in CatalogPage /\ sheet.id = journals[c].id + 1 /\ sheet.at = now + 1
              /\ IsPage(sheet, e, s.scan, s.cursor + 1)
              /\ sheet.state = "complete" => s.cursor + 1 = Len(Listing[e])
              /\ after \in ScanCursor /\ after.scan = s.scan /\ after.cursor = s.cursor + 1
              /\ ~after.finished => s.cursor + 1 # Len(Listing[e])
<1> DEFINE old == journals[c].scans[e]
           s == Begun(old)
           k == s.cursor + 1
           complete == k = Len(Listing[e])
           finished == complete \/ k >= MaxPages
           sheet == [id |-> journals[c].id + 1, exchange |-> e, scan |-> s.scan, number |-> k,
                    at |-> now + 1, items |-> Listing[e][k],
                    state |-> IF complete THEN "complete" ELSE IF finished THEN "capped" ELSE "scanning"]
           after == [s EXCEPT !.cursor = k, !.finished = finished]
<1>1. /\ journals[c].id \in Nat /\ now \in Nat /\ old \in ScanCursor
      /\ old.finished \/ old.cursor < Len(Listing[e])
      /\ \A n \in 1..old.cursor : \E i \in 1..journals[c].id : IsPage(Logged(c, i), e, old.scan, n)
  <2>1. now \in Nat
    BY DEF CatalogInv, CatalogTyped
  <2>2. QED
    BY <2>1, JournalTypes DEF CatalogJournal, CursorsAreSound
<1>2. /\ Len(Listing[e]) \in Nat \ {0}
      /\ MaxPages \in Nat
  BY CatalogAssumption
<1>3. Parsed(c, e, s).page = sheet /\ Parsed(c, e, s).scan = after
  BY DEF Parsed
<1>4. /\ s \in ScanCursor /\ s.cursor < Len(Listing[e])
      /\ \A n \in 1..s.cursor : \E i \in 1..journals[c].id : IsPage(Logged(c, i), e, s.scan, n)
  <2>1. CASE old.finished
    <3>1. s = [scan |-> old.scan + 1, cursor |-> 0, finished |-> FALSE]
      BY <2>1 DEF Begun
    <3>2. old.scan + 1 \in Nat
      BY <1>1 DEF ScanCursor
    <3>3. QED
      BY <1>2, <3>1, <3>2 DEF ScanCursor
  <2>2. CASE ~old.finished
    <3>1. s = old
      BY <2>2 DEF Begun
    <3>2. QED
      BY <1>1, <2>2, <3>1
  <2>3. QED
    BY <2>1, <2>2
<1>5. s.scan \in Nat /\ s.cursor \in Nat /\ k \in 1..Len(Listing[e]) /\ k \in Nat
  BY <1>2, <1>4 DEF ScanCursor
<1>6. Listing[e][k] \in SUBSET Listed
  <2> HIDE DEF k
  <2>1. QED
    BY <1>5 DEF Listed
<1> HIDE DEF s
<1>7. sheet \in CatalogPage /\ IsPage(sheet, e, s.scan, k) /\ sheet.id = journals[c].id + 1 /\ sheet.at = now + 1
  <2> DEFINE state == IF complete THEN "complete" ELSE IF finished THEN "capped" ELSE "scanning"
             texts == Listing[e][k]
  <2>1. state \in {"complete", "capped", "scanning"}
    OBVIOUS
  <2> HIDE DEF state, texts, k
  <2>2. journals[c].id + 1 \in Nat /\ now + 1 \in Nat
    BY <1>1
  <2>3. sheet = [id |-> journals[c].id + 1, exchange |-> e, scan |-> s.scan, number |-> k,
                at |-> now + 1, items |-> texts, state |-> state]
    BY DEF state, texts
  <2> HIDE DEF sheet
  <2>4. QED
    BY <1>5, <1>6, <2>1, <2>2, <2>3 DEF CatalogPage, IsPage, texts
<1>8. sheet.state = "complete" => k = Len(Listing[e])
  OBVIOUS
<1>9. after \in ScanCursor /\ after.scan = s.scan /\ after.cursor = k
        /\ (~after.finished => k # Len(Listing[e]))
  <2>1. finished \in BOOLEAN
    OBVIOUS
  <2>2. s \in ScanCursor /\ k \in Nat
    BY <1>4, <1>5
  <2>3. ~finished => k # Len(Listing[e])
    OBVIOUS
  <2> HIDE DEF finished, k
  <2>4. QED
    BY <2>1, <2>2, <2>3 DEF ScanCursor
<1> HIDE DEF sheet, after
<1>10. QED
  BY <1>3, <1>4, <1>7, <1>8, <1>9 DEF s

\* The page that is read is the next of the log.
LEMMA ReadPageInv ==
    ASSUME CatalogInv, ~StageMayFail, NEW c \in Scanner, NEW e \in Exchange, ReadPage(c, e)
    PROVE  CatalogInv'
<1>0. PICK n \in Nat : n = journals[c].id
  BY JournalTypes
<1> DEFINE s == Begun(journals[c].scans[e])
           sheet == Parsed(c, e, s).page
           after == Parsed(c, e, s).scan
           row == [id |-> sheet.id, pending |-> sheet,
                   scans |-> [journals[c].scans EXCEPT ![e] = after]]
<1>1. /\ journals[c].pending = NoPage /\ now' = now + 1
      /\ journals' = [journals EXCEPT ![c] = row]
      /\ SaveJournal(c, StageMayFail) /\ UNCHANGED <<pages, positions, directory, scans>>
  BY DEF ReadPage, MayScan
<1>2. /\ s \in ScanCursor /\ s.cursor < Len(Listing[e])
      /\ \A k \in 1..s.cursor : \E i \in 1..n : IsPage(Logged(c, i), e, s.scan, k)
      /\ sheet \in CatalogPage /\ sheet.id = n + 1 /\ sheet.at = now + 1
      /\ IsPage(sheet, e, s.scan, s.cursor + 1)
      /\ sheet.state = "complete" => s.cursor + 1 = Len(Listing[e])
      /\ after \in ScanCursor /\ after.scan = s.scan /\ after.cursor = s.cursor + 1
      /\ ~after.finished => s.cursor + 1 # Len(Listing[e])
  <2> HIDE DEF s, sheet, after
  <2>1. QED
    BY <1>0, PageIsNext DEF s, sheet, after
<1> HIDE DEF s, sheet, after
<1>3. /\ journals[c] \in CatalogJournal /\ n \in Nat /\ DOMAIN pages[c] = 1..n
      /\ LogIsSound(c) /\ CursorsAreSound(c) /\ MergedAreKept(c)
  BY <1>0, <1>1, JournalTypes DEF PagesAreKept
<1>4. sheet # NoPage
  BY <1>2, NewPageIs
<1>5. /\ row \in CatalogJournal /\ row.id = n + 1 /\ row.pending = sheet /\ row.scans[e] = after
      /\ \A d \in Exchange \ {e} : row.scans[d] = journals[c].scans[d]
  BY <1>2, <1>3 DEF CatalogJournal
<1> HIDE DEF row
<1>6. CatalogTyped /\ now \in Nat
  BY DEF CatalogInv, CatalogTyped
<1>7. /\ journalFiles' = [journalFiles EXCEPT ![c] = journals'[c]]
      /\ catalogFaults' \in 0..CatalogFaults
  BY <1>1, JournalSaved, CatalogAssumption
<1>8. /\ journals'[c] = row /\ journalFiles'[c] = row
      /\ \A d \in Scanner \ {c} : journals'[d] = journals[d] /\ journalFiles'[d] = journalFiles[d]
  BY <1>1, <1>6, <1>7 DEF CatalogTyped
<1>9. CatalogTyped'
  BY <1>1, <1>5, <1>6, <1>7, <1>8 DEF CatalogTyped
<1>10. Logged(c, n + 1)' = sheet /\ \A k \in 1..n : Logged(c, k)' = Logged(c, k)
  <2>1. journals'[c].pending = sheet /\ journals'[c].id = n + 1 /\ pages' = pages
          /\ journals[c].pending = NoPage /\ journals[c].id = n
    BY <1>0, <1>1, <1>5, <1>8
  <2>2. Logged(c, n + 1)' = sheet
    BY <1>4, <2>1 DEF Logged
  <2>3. \A k \in 1..n : k # n + 1
    BY <1>3
  <2>4. QED
    BY <2>1, <2>2, <2>3 DEF Logged
<1>11. PagesAreKept(c)' /\ FileIsKept(c)' /\ MergedAreKept(c)'
  <2>1. n + 1 > 0 /\ n + 1 \notin 1..n /\ (n + 1) - 1 = n
    BY <1>3
  <2>2. QED
    BY <1>1, <1>2, <1>3, <1>4, <1>5, <1>8, <2>1 DEF PagesAreKept, FileIsKept, MergedAreKept
<1>12. LogIsSound(c)'
  <2> SUFFICES ASSUME NEW k \in 1..(n + 1)
               PROVE  LET p == Logged(c, k)' IN
                      /\ p \in CatalogPage /\ p.id = k /\ p.at \in 1..(now + 1)
                      /\ p.number \in 1..Len(Listing[p.exchange])
                      /\ p.state = "complete" => p.number = Len(Listing[p.exchange])
                      /\ \A m \in 1..(p.number - 1) : \E i \in 1..(k - 1) :
                           IsPage(Logged(c, i)', p.exchange, p.scan, m)
    BY <1>1, <1>5, <1>8 DEF LogIsSound
  <2>1. CASE k = n + 1
    <3>1. sheet.exchange = e /\ sheet.scan = s.scan /\ sheet.number = s.cursor + 1
      BY <1>2 DEF IsPage
    <3>2. s.cursor \in Nat /\ Len(Listing[e]) \in Nat
      BY <1>2, CatalogAssumption DEF ScanCursor
    <3>3. k - 1 = n /\ (sheet.number - 1) = s.cursor /\ now + 1 \in 1..(now + 1)
      BY <1>3, <1>6, <2>1, <3>1, <3>2
    <3>4. sheet.number \in 1..Len(Listing[sheet.exchange])
      BY <1>2, <3>1, <3>2
    <3>5. \A m \in 1..(sheet.number - 1) : \E i \in 1..n : IsPage(Logged(c, i)', sheet.exchange, sheet.scan, m)
      BY <1>2, <1>10, <3>1, <3>3
    <3>6. Logged(c, k)' = sheet /\ sheet.id = k /\ sheet \in CatalogPage /\ sheet.at \in 1..(now + 1)
            /\ (sheet.state = "complete" => sheet.number = Len(Listing[sheet.exchange]))
      BY <1>2, <1>10, <2>1, <3>1, <3>3
    <3>7. QED
      BY <3>3, <3>4, <3>5, <3>6
  <2>2. CASE k \in 1..n
    <3> DEFINE p == Logged(c, k)
    <3>1. /\ p \in CatalogPage /\ p.id = k /\ p.at \in 1..now
          /\ p.number \in 1..Len(Listing[p.exchange])
          /\ p.state = "complete" => p.number = Len(Listing[p.exchange])
          /\ \A m \in 1..(p.number - 1) : \E i \in 1..(k - 1) : IsPage(Logged(c, i), p.exchange, p.scan, m)
      BY <1>0, <1>3, <2>2 DEF LogIsSound
    <3>2. Logged(c, k)' = p /\ \A i \in 1..(k - 1) : Logged(c, i)' = Logged(c, i)
      BY <1>3, <1>10, <2>2
    <3> HIDE DEF p
    <3>3. p.at \in 1..(now + 1)
      BY <1>6, <3>1
    <3>4. QED
      BY <3>1, <3>2, <3>3
  <2>3. QED
    BY <1>3, <2>1, <2>2
<1>13. CursorsAreSound(c)'
  <2> SUFFICES ASSUME NEW d \in Exchange
               PROVE  LET t == row.scans[d] IN
                      /\ t.finished \/ t.cursor < Len(Listing[d])
                      /\ \A k \in 1..t.cursor : \E i \in 1..(n + 1) : IsPage(Logged(c, i)', d, t.scan, k)
    BY <1>5, <1>8 DEF CursorsAreSound
  <2>1. CASE d = e
    <3>1. s.cursor \in Nat /\ Len(Listing[e]) \in Nat
      BY <1>2, CatalogAssumption DEF ScanCursor
    <3>2. after.finished \/ after.cursor < Len(Listing[e])
      BY <1>2, <3>1
    <3>3. ASSUME NEW k \in 1..after.cursor
          PROVE  \E i \in 1..(n + 1) : IsPage(Logged(c, i)', e, s.scan, k)
      <4>1. CASE k = s.cursor + 1
        <5>1. n + 1 \in 1..(n + 1) /\ IsPage(Logged(c, n + 1)', e, s.scan, k)
          BY <1>2, <1>3, <1>10, <4>1
        <5>2. QED
          BY <5>1
      <4>2. CASE k \in 1..s.cursor
        BY <1>2, <1>3, <1>10, <4>2
      <4>3. QED
        BY <1>2, <3>1, <4>1, <4>2
    <3>4. QED
      BY <1>2, <1>5, <2>1, <3>2, <3>3
  <2>2. CASE d # e
    <3> DEFINE t == journals[c].scans[d]
    <3>1. /\ t.finished \/ t.cursor < Len(Listing[d])
          /\ \A k \in 1..t.cursor : \E i \in 1..n : IsPage(Logged(c, i), d, t.scan, k)
      BY <1>0, <1>3 DEF CursorsAreSound
    <3>2. row.scans[d] = t
      BY <1>5, <2>2
    <3> HIDE DEF t
    <3>3. QED
      BY <1>3, <1>10, <3>1, <3>2
  <2>3. QED
    BY <2>1, <2>2
<1>14. ASSUME NEW d \in Scanner \ {c}
       PROVE  /\ PagesAreKept(d)' /\ FileIsKept(d)' /\ LogIsSound(d)' /\ CursorsAreSound(d)'
              /\ MergedAreKept(d)'
  <2>1. /\ PagesAreKept(d) /\ FileIsKept(d) /\ LogIsSound(d) /\ CursorsAreSound(d) /\ MergedAreKept(d)
        /\ journals'[d] = journals[d] /\ journalFiles'[d] = journalFiles[d] /\ pages' = pages
        /\ positions' = positions
    BY <1>1, <1>8, <1>14, JournalTypes
  <2>2. \A k : Logged(d, k)' = Logged(d, k)
    BY <2>1 DEF Logged
  <2>3. PagesAreKept(d)' /\ FileIsKept(d)' /\ MergedAreKept(d)' /\ CursorsAreSound(d)'
    BY <2>1, <2>2 DEF PagesAreKept, FileIsKept, MergedAreKept, CursorsAreSound
  <2>4. LogIsSound(d)'
    <3>1. \A t \in 1..now : t \in 1..now'
      BY <1>1, <1>6
    <3>2. QED
      BY <2>1, <2>2, <3>1 DEF LogIsSound
  <2>5. QED
    BY <2>3, <2>4
<1>15. ProgressIsMerged'
  BY <1>1 DEF CatalogInv, ProgressIsMerged
<1>16. RowsAreMerged'
  <2>1. ASSUME NEW m \in Listed PROVE MergedTimes(m)' = MergedTimes(m)
    <3>1. \A d \in Scanner : \A k \in 1..positions[d] : pages[d][k].at \in 1..now
      <4> SUFFICES ASSUME NEW d \in Scanner, NEW k \in 1..positions[d]
                   PROVE  pages[d][k].at \in 1..now
        OBVIOUS
      <4>1. k \in DOMAIN pages[d] /\ PagesAreKept(d) /\ LogIsSound(d) /\ journals[d].id \in Nat
        BY JournalTypes DEF MergedAreKept
      <4>2. k \in 1..journals[d].id /\ Logged(d, k) = pages[d][k]
        BY <4>1 DEF PagesAreKept, Logged
      <4>3. QED
        BY <4>1, <4>2 DEF LogIsSound
    <3>2. \A t \in 1..now : t \in 1..(now + 1)
      BY <1>6
    <3>3. QED
      BY <1>1, <3>1, <3>2 DEF MergedTimes
  <2>2. QED
    BY <1>1, <2>1 DEF CatalogInv, RowsAreMerged
<1>17. QED
  BY <1>9, <1>11, <1>12, <1>13, <1>14, <1>15, <1>16 DEF CatalogInv


\* A page that the worker merges: its times, and the progress it tells.
LEMMA ReconcileInv ==
    ASSUME CatalogInv, NEW c \in Scanner, NEW k \in DOMAIN pages[c], ReconcilePage(c, pages[c][k])
    PROVE  CatalogInv'
<1> DEFINE sheet == pages[c][k]
<1>1. /\ sheet.id = positions[c] + 1
      /\ directory' = [m \in Listed |-> IF m \in sheet.items THEN Merged(m, sheet) ELSE directory[m]]
      /\ positions' = [positions EXCEPT ![c] = sheet.id]
      /\ UNCHANGED <<journals, journalFiles, pages, now, catalogFaults>>
  BY DEF ReconcilePage
<1> DEFINE new == [at |-> sheet.at, by |-> c, scan |-> sheet.scan, state |-> sheet.state]
<1>2. scans' = [scans EXCEPT ![sheet.exchange] = IF scans[sheet.exchange].at <= sheet.at THEN new
                                                ELSE scans[sheet.exchange]]
  BY DEF ReconcilePage
<1>3. CatalogTyped /\ positions[c] \in Nat /\ now \in Nat
  BY DEF CatalogInv, CatalogTyped
<1>4. /\ sheet \in CatalogPage /\ sheet.id = k /\ sheet.at \in 1..now
      /\ sheet.number \in 1..Len(Listing[sheet.exchange])
  <2>1. journals[c].id \in Nat /\ PagesAreKept(c) /\ LogIsSound(c)
    BY JournalTypes
  <2>2. k \in 1..journals[c].id /\ Logged(c, k) = sheet
    BY <2>1 DEF PagesAreKept, Logged
  <2>3. QED
    BY <2>1, <2>2 DEF LogIsSound
<1>5. sheet.exchange \in Exchange
  BY <1>4 DEF CatalogPage
<1>6. sheet.at \in Nat /\ sheet.at > 0 /\ k = positions[c] + 1
  BY <1>1, <1>3, <1>4
<1>7. positions' \in [Scanner -> Nat] /\ positions'[c] = k
        /\ \A d \in Scanner \ {c} : positions'[d] = positions[d]
  BY <1>1, <1>3, <1>4, <1>6 DEF CatalogTyped
<1> HIDE DEF sheet
<1>8. /\ scans'[sheet.exchange] \in {scans[sheet.exchange], new}
      /\ \A e \in Exchange \ {sheet.exchange} : scans'[e] = scans[e]
      /\ DOMAIN scans' = Exchange
  BY <1>2, <1>3, <1>5 DEF CatalogTyped
<1> HIDE DEF new
<1>9. CatalogTyped'
  BY <1>1, <1>3, <1>7, <1>8 DEF CatalogTyped
<1>10. 1..k \subseteq DOMAIN pages[c]
  <2>1. 1..positions[c] \subseteq DOMAIN pages[c]
    BY JournalTypes DEF MergedAreKept
  <2>2. QED
    BY <1>3, <1>6, <2>1
<1>11. ASSUME NEW d \in Scanner
       PROVE  /\ PagesAreKept(d)' /\ FileIsKept(d)' /\ LogIsSound(d)' /\ CursorsAreSound(d)'
              /\ MergedAreKept(d)'
  <2>1. /\ PagesAreKept(d) /\ FileIsKept(d) /\ LogIsSound(d) /\ CursorsAreSound(d) /\ MergedAreKept(d)
    BY <1>11, JournalTypes
  <2>2. PagesAreKept(d)' /\ FileIsKept(d)' /\ LogIsSound(d)' /\ CursorsAreSound(d)'
    <3>1. \A i : Logged(d, i)' = Logged(d, i)
      BY <1>1 DEF Logged
    <3>2. PagesAreKept(d)' /\ FileIsKept(d)'
      BY <1>1, <2>1 DEF PagesAreKept, FileIsKept
    <3>3. LogIsSound(d)' /\ CursorsAreSound(d)'
      BY <1>1, <2>1, <3>1 DEF LogIsSound, CursorsAreSound
    <3>4. QED
      BY <3>2, <3>3
  <2>3. MergedAreKept(d)'
    BY <1>1, <1>7, <1>10, <2>1 DEF MergedAreKept
  <2>4. QED
    BY <2>2, <2>3
<1>12. \A d \in Scanner : \A i \in 1..positions[d] : i \in 1..positions'[d]
  BY <1>3, <1>6, <1>7
<1>13. ProgressIsMerged'
  <2> SUFFICES ASSUME NEW e \in Exchange, scans'[e].state = "complete"
               PROVE  /\ scans'[e].by \in Scanner
                      /\ \E i \in 1..positions'[scans'[e].by] :
                           LET p == pages[scans'[e].by][i] IN
                           p.exchange = e /\ p.scan = scans'[e].scan /\ p.state = "complete"
    BY <1>1 DEF ProgressIsMerged
  <2>1. CASE scans'[e] = scans[e]
    <3>1. /\ scans[e].by \in Scanner
          /\ \E i \in 1..positions[scans[e].by] :
               LET p == pages[scans[e].by][i] IN
               p.exchange = e /\ p.scan = scans[e].scan /\ p.state = "complete"
      BY <2>1 DEF CatalogInv, ProgressIsMerged
    <3>2. QED
      BY <1>12, <2>1, <3>1
  <2>2. CASE e = sheet.exchange /\ scans'[e] = new
    <3>1. new.by = c /\ new.scan = sheet.scan /\ new.state = sheet.state
      BY DEF new
    <3>2. k \in 1..positions'[c] /\ pages[c][k] = sheet
      BY <1>3, <1>6, <1>7 DEF sheet
    <3>3. QED
      BY <2>2, <3>1, <3>2
  <2>3. QED
    BY <1>8, <2>1, <2>2
<1>14. RowsAreMerged'
  <2> SUFFICES ASSUME NEW m \in Listed PROVE IsRowOf(directory'[m], MergedTimes(m)')
    BY DEF RowsAreMerged
  <2> DEFINE times == MergedTimes(m)
             row == directory[m]
  <2>1. IsRowOf(row, times) /\ times \subseteq 1..now
    BY DEF CatalogInv, RowsAreMerged, MergedTimes
  <2>2. \A t \in 1..now : (\E d \in Scanner : \E i \in 1..positions'[d] : pages[d][i].at = t /\ m \in pages[d][i].items)
             <=> (t \in times \/ (t = sheet.at /\ m \in sheet.items))
    <3> SUFFICES ASSUME NEW t \in 1..now
                 PROVE  (\E d \in Scanner : \E i \in 1..positions'[d] : pages[d][i].at = t /\ m \in pages[d][i].items)
                           <=> (t \in times \/ (t = sheet.at /\ m \in sheet.items))
      OBVIOUS
    <3>1. ASSUME NEW d \in Scanner, NEW i \in 1..positions'[d]
          PROVE  i \in 1..positions[d] \/ pages[d][i] = sheet
      BY <1>3, <1>6, <1>7, <3>1 DEF sheet
    <3>2. k \in 1..positions'[c] /\ pages[c][k] = sheet
      BY <1>3, <1>6, <1>7 DEF sheet
    <3>3. QED
      BY <1>12, <3>1, <3>2 DEF MergedTimes
  <2>3. MergedTimes(m)' = IF m \in sheet.items THEN times \union {sheet.at} ELSE times
    BY <1>1, <1>4, <2>1, <2>2 DEF MergedTimes
  <2>4. directory'[m] = IF m \in sheet.items THEN Merged(m, sheet) ELSE row
    BY <1>1
  <2>5. CASE m \notin sheet.items
    BY <2>1, <2>3, <2>4, <2>5
  <2>6. CASE m \in sheet.items
    <3> DEFINE t == sheet.at
    <3>1. MergedTimes(m)' = times \union {t} /\ directory'[m] = Merged(m, sheet)
      BY <2>3, <2>4, <2>6
    <3>2. Merged(m, sheet) = IF row = Unseen THEN [first |-> t, last |-> t]
                            ELSE [first |-> IF row.first > t THEN t ELSE row.first,
                                  last |-> IF row.last <= t THEN t ELSE row.last]
      BY DEF Merged
    <3>3. t \in Nat /\ t > 0 /\ \A u \in times : u \in Nat /\ u > 0
      BY <1>3, <1>6, <2>1
    <3> HIDE DEF t, times, row
    <3>4. CASE times = {}
      BY <2>1, <3>1, <3>2, <3>3, <3>4 DEF IsRowOf
    <3>5. CASE times # {}
      <4>1. row \in [first : Nat, last : Nat] /\ row.first \in times /\ row.last \in times
              /\ \A u \in times : row.first <= u /\ u <= row.last
        BY <2>1, <3>5 DEF IsRowOf
      <4>2. row # Unseen
        BY <3>3, <4>1 DEF Unseen
      <4> DEFINE f == IF row.first > t THEN t ELSE row.first
                 l == IF row.last <= t THEN t ELSE row.last
      <4>3. Merged(m, sheet) = [first |-> f, last |-> l]
        BY <3>2, <4>2
      <4>4. /\ f \in times \union {t} /\ l \in times \union {t} /\ f \in Nat /\ l \in Nat
            /\ \A u \in times \union {t} : f <= u /\ u <= l
        BY <3>3, <4>1
      <4> DEFINE made == [first |-> f, last |-> l]
      <4>5. made.first = f /\ made.last = l /\ made \in [first : Nat, last : Nat]
        BY <4>4
      <4> HIDE DEF f, l, made
      <4>6. directory'[m] = made /\ MergedTimes(m)' # {}
        BY <3>1, <4>3 DEF made
      <4>7. QED
        BY <3>1, <4>4, <4>5, <4>6 DEF IsRowOf
    <3>6. QED
      BY <3>4, <3>5 DEF times
  <2>7. QED
    BY <2>5, <2>6
<1>15. QED
  BY <1>9, <1>11, <1>13, <1>14 DEF CatalogInv

\* Every step keeps the invariant, unless the save of a staged page may fail.
LEMMA CatalogStep == ~StageMayFail /\ CatalogInv /\ [CatalogNext]_catalogVars => CatalogInv'
<1> SUFFICES ASSUME ~StageMayFail, CatalogInv, [CatalogNext]_catalogVars PROVE CatalogInv'
  OBVIOUS
<1>1. CatalogTyped
  BY DEF CatalogInv
<1>2. ASSUME NEW c \in Scanner, DeliverPage(c) PROVE CatalogInv'
  <2> DEFINE row == [journals[c] EXCEPT !.pending = NoPage]
  <2>1. /\ journals[c].pending # NoPage /\ pages' = Inserted(c)
        /\ journals' = [journals EXCEPT ![c] = row] /\ SaveJournal(c, TRUE)
        /\ UNCHANGED <<positions, directory, scans, now>>
    BY <1>1, <1>2 DEF DeliverPage, CatalogTyped
  <2>2. journals[c] \in CatalogJournal /\ journals[c].id \in Nat /\ FileIsKept(c) /\ PagesAreKept(c)
    BY JournalTypes
  <2>3. /\ row \in CatalogJournal /\ row.id = journals[c].id /\ row.pending = NoPage
        /\ row.scans = journals[c].scans
    BY <2>2 DEF CatalogJournal
  <2> HIDE DEF row
  <2>4. /\ catalogFaults' \in 0..CatalogFaults
        /\ journalFiles' = journalFiles \/ journalFiles' = [journalFiles EXCEPT ![c] = journals'[c]]
    BY <2>1, JournalSaved
  <2>5. /\ journals'[c] = row /\ journalFiles'[c] \in {journalFiles[c], row}
        /\ \A d \in Scanner \ {c} : journals'[d] = journals[d] /\ journalFiles'[d] = journalFiles[d]
    BY <1>1, <2>1, <2>4 DEF CatalogTyped
  <2>6. /\ DOMAIN pages' = Scanner /\ DOMAIN pages'[c] = 1..journals[c].id
        /\ pages'[c][journals[c].id] = journals[c].pending
    BY <2>1, InsertedPages
  <2>7. CatalogTyped'
    <3>1. journals' \in [Scanner -> CatalogJournal]
      BY <1>1, <2>1, <2>3 DEF CatalogTyped
    <3>2. journalFiles' \in [Scanner -> CatalogJournal]
      BY <1>1, <2>3, <2>4, <2>5 DEF CatalogTyped
    <3>3. QED
      BY <1>1, <2>1, <2>4, <2>6, <3>1, <3>2 DEF CatalogTyped
  <2>8. FileIsKept(c)'
    BY <2>1, <2>2, <2>3, <2>5, <2>6 DEF FileIsKept, PagesAreKept
  <2>9. QED
    BY <2>1, <2>3, <2>5, <2>7, <2>8, CollectorKeeps
<1>3. ASSUME NEW c \in Scanner, DeliveryFails(c) PROVE CatalogInv'
  <2>1. /\ journals[c].pending # NoPage /\ pages' \in {pages, Inserted(c)}
        /\ journalFiles' = [journalFiles EXCEPT ![c] = journals[c]] /\ Fault
        /\ UNCHANGED <<journals, positions, directory, scans, now>>
    BY <1>3 DEF DeliveryFails
  <2>2. catalogFaults' \in 0..CatalogFaults /\ DOMAIN pages' = Scanner
    BY <1>1, <2>1, InsertedPages, CatalogAssumption DEF CatalogTyped, Fault
  <2>3. CatalogTyped'
    BY <1>1, <2>1, <2>2 DEF CatalogTyped
  <2>4. journalFiles'[c] = journals'[c] /\ \A d \in Scanner \ {c} : journalFiles'[d] = journalFiles[d]
    BY <1>1, <2>1 DEF CatalogTyped
  <2>5. FileIsKept(c)'
    BY <2>4 DEF FileIsKept
  <2>6. QED
    BY <2>1, <2>3, <2>4, <2>5, CollectorKeeps
<1>4. ASSUME NEW c \in Scanner, StopScanner(c) PROVE CatalogInv'
  <2>1. /\ pages' = pages \/ (journals[c].pending # NoPage /\ pages' = Inserted(c))
        /\ journals' = [journals EXCEPT ![c] = journalFiles[c]] /\ Fault
        /\ UNCHANGED <<journalFiles, positions, directory, scans, now>>
    BY <1>4 DEF StopScanner
  <2>2. catalogFaults' \in 0..CatalogFaults /\ DOMAIN pages' = Scanner
    BY <1>1, <2>1, InsertedPages, CatalogAssumption DEF CatalogTyped, Fault
  <2>3. CatalogTyped'
    BY <1>1, <2>1, <2>2 DEF CatalogTyped
  <2>4. journals'[c] = journalFiles[c] /\ \A d \in Scanner \ {c} : journals'[d] = journals[d]
    BY <1>1, <2>1 DEF CatalogTyped
  <2>5. FileIsKept(c)'
    BY <2>1, <2>4 DEF FileIsKept
  <2>6. /\ journalFiles[c].id = journals[c].id /\ journalFiles[c].scans = journals[c].scans
        /\ \/ journalFiles[c].pending = journals[c].pending
           \/ journals[c].pending = NoPage /\ journals[c].id > 0
              /\ journalFiles[c].pending = pages[c][journals[c].id]
    BY JournalTypes DEF FileIsKept
  <2>7. QED
    BY <2>1, <2>3, <2>4, <2>5, <2>6, CollectorKeeps
<1>5. ASSUME NEW c \in Scanner, NEW e \in Exchange, ReadFails(c, e) PROVE CatalogInv'
  <2> DEFINE begun == Begun(journals[c].scans[e])
             row == [journals[c] EXCEPT !.scans[e] = begun]
  <2>1. /\ journals' = [journals EXCEPT ![c] = row] /\ Fault
        /\ journalFiles' = [journalFiles EXCEPT ![c] = journals'[c]]
        /\ UNCHANGED <<pages, positions, directory, scans, now>>
    BY <1>1, <1>5 DEF ReadFails, CatalogTyped
  <2>2. journals[c] \in CatalogJournal /\ journals[c].scans[e] \in ScanCursor
    BY JournalTypes DEF CatalogJournal
  <2>3. /\ begun \in ScanCursor
        /\ begun = journals[c].scans[e] \/ (begun.cursor = 0 /\ ~begun.finished)
    BY <2>2 DEF Begun, ScanCursor
  <2> HIDE DEF begun
  <2>4. /\ row \in CatalogJournal /\ row.id = journals[c].id /\ row.pending = journals[c].pending
        /\ row.scans[e] = begun /\ \A d \in Exchange \ {e} : row.scans[d] = journals[c].scans[d]
    BY <2>2, <2>3 DEF CatalogJournal
  <2> HIDE DEF row
  <2>5. /\ journals'[c] = row /\ journalFiles'[c] = row
        /\ \A d \in Scanner \ {c} : journals'[d] = journals[d] /\ journalFiles'[d] = journalFiles[d]
    BY <1>1, <2>1 DEF CatalogTyped
  <2>6. catalogFaults' \in 0..CatalogFaults
    BY <1>1, <2>1, CatalogAssumption DEF CatalogTyped, Fault
  <2>7. CatalogTyped'
    BY <1>1, <2>1, <2>4, <2>5, <2>6 DEF CatalogTyped
  <2>8. FileIsKept(c)'
    BY <2>5 DEF FileIsKept
  <2>9. QED
    BY <2>1, <2>3, <2>4, <2>5, <2>7, <2>8, CollectorKeeps
<1>6. ASSUME NEW c \in Scanner, NEW e \in Exchange, ReadPage(c, e) PROVE CatalogInv'
  BY <1>6, ReadPageInv
<1>7. ASSUME NEW c \in Scanner, Reconcile(c) PROVE CatalogInv'
  BY <1>7, ReconcileInv DEF Reconcile
<1>8. CASE UNCHANGED catalogVars
  <2>1. UNCHANGED <<journals, journalFiles, pages, positions, directory, scans, now, catalogFaults>>
    BY <1>8 DEF catalogVars
  <2>2. \A c, k : Logged(c, k)' = Logged(c, k)
    BY <2>1 DEF Logged
  <2>3. ASSUME NEW c \in Scanner
        PROVE  /\ PagesAreKept(c)' /\ FileIsKept(c)' /\ LogIsSound(c)' /\ CursorsAreSound(c)'
               /\ MergedAreKept(c)'
    <3>1. /\ PagesAreKept(c) /\ FileIsKept(c) /\ LogIsSound(c) /\ CursorsAreSound(c)
          /\ MergedAreKept(c)
      BY JournalTypes
    <3>2. PagesAreKept(c)' /\ FileIsKept(c)' /\ MergedAreKept(c)'
      BY <2>1, <3>1 DEF PagesAreKept, FileIsKept, MergedAreKept
    <3>3. LogIsSound(c)' /\ CursorsAreSound(c)'
      BY <2>1, <2>2, <3>1 DEF LogIsSound, CursorsAreSound
    <3>4. QED
      BY <3>2, <3>3
  <2>4. CatalogTyped' /\ ProgressIsMerged'
    BY <2>1 DEF CatalogInv, CatalogTyped, ProgressIsMerged
  <2>5. RowsAreMerged'
    BY <2>1 DEF CatalogInv, RowsAreMerged, MergedTimes
  <2>6. QED
    BY <2>3, <2>4, <2>5 DEF CatalogInv
<1>9. QED
  BY <1>2, <1>3, <1>4, <1>5, <1>6, <1>7, <1>8 DEF CatalogNext, Scan, ScanFails

\* What the directory says and what a scan shown as complete has read are true for any
\* number of collectors, exchanges, pages, failures and stops, if a staged page is on
\* disk before it is delivered.
THEOREM CatalogStaysOK == ASSUME ~StageMayFail PROVE CatalogSpec => []CatalogOK
<1>1. CatalogInv => CatalogOK
  <2> SUFFICES ASSUME CatalogInv PROVE CatalogOK
    OBVIOUS
  <2>1. now \in Nat /\ catalogFaults \in 0..CatalogFaults
    BY DEF CatalogInv, CatalogTyped
  <2>2. ASSUME NEW c \in Scanner
        PROVE  /\ positions[c] \in 0..journals[c].id
               /\ Reconciled(c) = {pages[c][k] : k \in 1..positions[c]}
               /\ \A k \in 1..positions[c] : pages[c][k].at \in 1..now
    <3>1. /\ journals[c].id \in Nat /\ positions[c] \in Nat /\ PagesAreKept(c) /\ LogIsSound(c)
          /\ MergedAreKept(c)
      BY <2>2, JournalTypes
    <3>2. DOMAIN pages[c] \subseteq 1..journals[c].id /\ 1..positions[c] \subseteq DOMAIN pages[c]
      BY <3>1 DEF PagesAreKept, MergedAreKept
    <3>3. positions[c] \in 0..journals[c].id
      BY <3>1, <3>2
    <3>4. {k \in DOMAIN pages[c] : k <= positions[c]} = 1..positions[c]
      BY <3>1, <3>2
    <3>5. \A k \in 1..positions[c] : pages[c][k].at \in 1..now
      <4> SUFFICES ASSUME NEW k \in 1..positions[c] PROVE pages[c][k].at \in 1..now
        OBVIOUS
      <4>1. k \in 1..journals[c].id /\ Logged(c, k) = pages[c][k]
        BY <3>1, <3>2 DEF PagesAreKept, Logged
      <4>2. QED
        BY <3>1, <4>1 DEF LogIsSound
    <3>6. QED
      BY <3>3, <3>4, <3>5 DEF Reconciled
  <2>3. ASSUME NEW m \in Listed
        PROVE  /\ {p.at : p \in {q \in UNION {Reconciled(c) : c \in Scanner} : m \in q.items}}
                    = MergedTimes(m)
               /\ IsRowOf(directory[m], MergedTimes(m))
    <3> DEFINE listing == {q \in UNION {Reconciled(c) : c \in Scanner} : m \in q.items}
    <3>1. \A q : q \in listing <=> \E c \in Scanner : \E k \in 1..positions[c] :
                                     q = pages[c][k] /\ m \in q.items
      <4>1. \A c \in Scanner : \A q : q \in Reconciled(c) <=> \E k \in 1..positions[c] : q = pages[c][k]
        BY <2>2
      <4>2. QED
        BY <4>1
    <3> HIDE DEF listing
    <3>2. \A t \in MergedTimes(m) : \E q \in listing : q.at = t
      BY <3>1 DEF MergedTimes
    <3>3. \A q \in listing : q.at \in MergedTimes(m)
      BY <2>2, <3>1 DEF MergedTimes
    <3>4. {p.at : p \in listing} = MergedTimes(m)
      BY <3>2, <3>3
    <3>5. QED
      BY <3>4 DEF listing, CatalogInv, RowsAreMerged
  <2>4. ASSUME NEW m \in Listed
        PROVE  /\ directory[m].first \in 0..now /\ directory[m].last \in 0..now
               /\ directory[m] = IF MergedTimes(m) = {} THEN Unseen
                                 ELSE [first |-> Min(MergedTimes(m)), last |-> Max(MergedTimes(m))]
    <3> DEFINE times == MergedTimes(m)
               row == directory[m]
    <3>1. IsRowOf(row, times) /\ times \subseteq 1..now
      BY <2>3, <2>4 DEF MergedTimes
    <3> HIDE DEF row, times
    <3>2. CASE times = {}
      <4>1. row = Unseen
        BY <3>1, <3>2 DEF IsRowOf
      <4>2. QED
        BY <2>1, <3>2, <4>1 DEF Unseen, row, times
    <3>3. CASE times # {}
      <4>1. /\ row \in [first : Nat, last : Nat] /\ row.first \in times /\ row.last \in times
            /\ \A u \in times : row.first <= u /\ u <= row.last
        BY <3>1, <3>3 DEF IsRowOf
      <4>2. \A u \in times : u \in Nat
        BY <2>1, <3>1
      <4>3. Min(times) = row.first
        BY <4>1, <4>2 DEF Min
      <4>4. Max(times) = row.last
        BY <4>1, <4>2 DEF Max
      <4>5. row = [first |-> row.first, last |-> row.last]
        BY <4>1
      <4>6. row.first \in 0..now /\ row.last \in 0..now
        BY <2>1, <3>1, <4>1
      <4>7. QED
        BY <3>3, <4>3, <4>4, <4>5, <4>6 DEF row, times
    <3>4. QED
      BY <3>2, <3>3
  <2>5. CatalogTypeOK
    BY <2>1, <2>2, <2>4, JournalTypes DEF CatalogTypeOK
  <2>6. DirectoryIsMerged
    BY <2>3, <2>4 DEF DirectoryIsMerged
  <2>7. CompleteScansAreComplete
    <3> SUFFICES ASSUME NEW e \in Exchange, scans[e].state = "complete"
                 PROVE  {p.number : p \in {q \in Reconciled(scans[e].by) :
                            q.exchange = e /\ q.scan = scans[e].scan}} = 1..Len(Listing[e])
      BY DEF CompleteScansAreComplete
    <3> DEFINE c == scans[e].by
               s == scans[e].scan
    <3>1. /\ c \in Scanner
          /\ \E k \in 1..positions[c] :
               pages[c][k].exchange = e /\ pages[c][k].scan = s /\ pages[c][k].state = "complete"
      BY DEF CatalogInv, ProgressIsMerged
    <3> HIDE DEF c, s
    <3>2. PICK k \in 1..positions[c] :
            pages[c][k].exchange = e /\ pages[c][k].scan = s /\ pages[c][k].state = "complete"
      BY <3>1
    <3>3. /\ positions[c] \in Nat /\ journals[c].id \in Nat /\ PagesAreKept(c) /\ LogIsSound(c)
          /\ MergedAreKept(c)
      BY <3>1, JournalTypes
    <3>4. \A i \in 1..positions[c] : i \in 1..journals[c].id /\ Logged(c, i) = pages[c][i]
      BY <3>3 DEF PagesAreKept, Logged, MergedAreKept
    <3>5. /\ pages[c][k].number = Len(Listing[e])
          /\ \A n \in 1..(Len(Listing[e]) - 1) : \E i \in 1..(k - 1) : IsPage(Logged(c, i), e, s, n)
      <4> DEFINE sheet == pages[c][k]
      <4>1. k \in 1..journals[c].id /\ Logged(c, k) = sheet
        BY <3>4
      <4>2. sheet.exchange = e /\ sheet.scan = s /\ sheet.state = "complete"
        BY <3>2
      <4> HIDE DEF sheet
      <4>3. /\ sheet.state = "complete" => sheet.number = Len(Listing[sheet.exchange])
            /\ \A n \in 1..(sheet.number - 1) : \E i \in 1..(k - 1) :
                 IsPage(Logged(c, i), sheet.exchange, sheet.scan, n)
        BY <3>3, <4>1 DEF LogIsSound
      <4>4. QED
        BY <4>2, <4>3 DEF sheet
    <3>6. \A i \in 1..positions[c] : pages[c][i].exchange = e => pages[c][i].number \in 1..Len(Listing[e])
      BY <3>3, <3>4 DEF LogIsSound
    <3>7. ASSUME NEW n \in 1..Len(Listing[e])
          PROVE  \E i \in 1..positions[c] : IsPage(pages[c][i], e, s, n)
      <4>1. CASE n = Len(Listing[e])
        BY <3>2, <3>5, <4>1 DEF IsPage
      <4>2. CASE n # Len(Listing[e])
        <5>1. n \in 1..(Len(Listing[e]) - 1)
          BY <4>2, CatalogAssumption
        <5>2. PICK i \in 1..(k - 1) : IsPage(Logged(c, i), e, s, n)
          BY <3>5, <5>1
        <5>3. i \in 1..positions[c]
          BY <3>3
        <5>4. QED
          BY <3>4, <5>2, <5>3
      <4>3. QED
        BY <4>1, <4>2
    <3>8. Reconciled(c) = {pages[c][i] : i \in 1..positions[c]}
      BY <2>2, <3>1
    <3>9. {p.number : p \in {q \in Reconciled(c) : q.exchange = e /\ q.scan = s}} = 1..Len(Listing[e])
      BY <3>6, <3>7, <3>8 DEF IsPage
    <3>10. QED
      BY <3>9 DEF c, s
  <2>8. QED
    BY <2>5, <2>6, <2>7 DEF CatalogOK
<1>2. CatalogInv /\ [CatalogNext]_catalogVars => CatalogInv'
  BY CatalogStep
<1>3. QED
  BY <1>1, <1>2, CatalogInitially, PTL DEF CatalogSpec

----------------------------------------------------------------------------
(* The record of an event.  What a transaction validated must still hold   *)
(* when its rows become visible.  The invariant says so by looking ahead:  *)
(* the tables with the rows of any one open transaction added are sound,   *)
(* and the locks it holds keep the other transactions from adding rows     *)
(* beside which its own would not be.                                      *)

EventKey == [definition : 1..MaxVersions, item : Item, revision : 1..MaxVersions]

RowsTyped(rows) ==
    /\ DOMAIN rows = Table
    /\ rows["definition"] \subseteq [version : 1..MaxVersions, policy : Policies, at : Nat]
    /\ rows["revision"] \subseteq
         [item : Item, version : 1..MaxVersions, topic : Topics, at : Nat]
    /\ rows["link"] \subseteq [contract : Contract, rules : Nat, at : Nat]
    /\ rows["candidate"] \subseteq
         [definition : 1..MaxVersions, item : Item, revision : 1..MaxVersions, at : Nat]
    /\ rows["review"] \subseteq
         [definition : 1..MaxVersions, item : Item, revision : 1..MaxVersions,
          relation : Relation, target : Contract \union {NoContract}, at : Nat]

\* Versions count 1, 2, ...
Counted(rs) == IsFiniteSet(rs) /\ Versions(rs) = 1..Cardinality(rs)

\* The unique constraints, of any set of tables.
RowsAreSound(rows) ==
    /\ RowsTyped(rows)
    /\ Counted(DefinitionsIn(rows))
    /\ \A i \in Item : Counted(RevisionsOf(rows, i))
    /\ \A l, m \in rows["link"] : l.contract = m.contract => l = m
    /\ \A c, d \in rows["candidate"] : KeyOf(c) = KeyOf(d) => c = d
    /\ \A r \in rows["review"] : KeyOf(r) \in KeysIn(rows)

Together(rows, added) == [t \in Table |-> rows[t] \union added[t]]

\* Rows of the event are added under its lock, revisions and reviews under their item's.
Covered(rows, locks) ==
    /\ \A t \in Table \ {"revision"} : rows[t] # {} => EventRow \in locks
    /\ \A r \in rows["revision"] : r.item \in locks
    /\ \A r \in rows["review"] : r.item \in locks

\* What validate_review found.
ReviewIsCurrent(r, locks) ==
    /\ r.definition = Newest(DefinitionsIn(table)).version
    /\ r.revision = Newest(RevisionsOf(table, r.item)).version
    /\ r.target # NoContract => r.target \in locks /\ ContractMatches(r.target)

PendingIsSound(s) ==
    LET w == transaction[s] IN
    /\ w.at \in 0..hour /\ RowsTyped(w.rows) /\ Covered(w.rows, w.locks)
    /\ RowsAreSound(Together(table, w.rows))
    /\ \A t \in Table : \A r \in w.rows[t] : r.at = w.at
    /\ \A r \in w.rows["review"] : ReviewIsCurrent(r, w.locks)

LocksAreApart ==
    \A s, u \in Open : s # u => transaction[s].locks \intersect transaction[u].locks = {}

EventsInv ==
    /\ DOMAIN transaction = Session /\ hour \in Nat /\ contractRules \in [Contract -> Nat]
    /\ worklist \subseteq EventKey
    /\ RowsAreSound(table)
    /\ \A t \in Table : \A r \in table[t] : r.at <= hour
    /\ \A s \in Open : PendingIsSound(s)
    /\ LocksAreApart

\* Rows that a function tells apart by finitely many keys are as many as their keys.
LEMMA KeyedCards ==
    ASSUME NEW R, NEW K, IsFiniteSet(K), NEW f \in [R -> K],
           \A r, q \in R : f[r] = f[q] => r = q
    PROVE  IsFiniteSet(R) /\ Cardinality({f[r] : r \in R}) = Cardinality(R)
<1>1. f \in Injection(R, K)
  BY DEF Injection, IsInjective
<1>2. IsFiniteSet(R)
  BY <1>1, FS_Injection
<1> DEFINE I == {f[r] : r \in R}
<1>3. f \in Bijection(R, I)
  <2>1. f \in [R -> I]
    OBVIOUS
  <2>2. f \in Injection(R, I)
    BY <2>1 DEF Injection, IsInjective
  <2>3. f \in Surjection(R, I)
    BY <2>1 DEF Surjection
  <2>4. QED
    BY <2>2, <2>3 DEF Bijection
<1>4. ExistsBijection(R, I)
  BY <1>3 DEF ExistsBijection
<1>5. QED
  BY <1>2, <1>4, FS_Bijection

\* Links and candidates are as many as the contracts and pairs of versions they are of.
LEMMA RowsAreKeyed ==
    ASSUME NEW rows, RowsAreSound(rows)
    PROVE  /\ Cardinality({l.contract : l \in rows["link"]}) = Cardinality(rows["link"])
           /\ Cardinality(KeysIn(rows)) = Cardinality(rows["candidate"])
<1>1. Cardinality({l.contract : l \in rows["link"]}) = Cardinality(rows["link"])
  <2> DEFINE R == rows["link"]  f == [l \in R |-> l.contract]
  <2>1. IsFiniteSet(Contract) /\ f \in [R -> Contract] /\ \A r, q \in R : f[r] = f[q] => r = q
    BY EventsAssumption DEF RowsAreSound, RowsTyped
  <2>2. {f[r] : r \in R} = {l.contract : l \in rows["link"]}
    OBVIOUS
  <2>3. QED
    <3> HIDE DEF f, R
    <3>1. Cardinality({f[r] : r \in R}) = Cardinality(R)
      BY <2>1, KeyedCards
    <3>2. QED
      BY <3>1, <2>2 DEF R
<1>2. Cardinality(KeysIn(rows)) = Cardinality(rows["candidate"])
  <2> DEFINE R == rows["candidate"]
             K == Item \X ((1..MaxVersions) \X (1..MaxVersions))
             f == [c \in R |-> <<c.item, <<c.definition, c.revision>>>>]
             g == [k \in {f[r] : r \in R} |->
                      [definition |-> k[2][1], item |-> k[1], revision |-> k[2][2]]]
  <2>1. IsFiniteSet(K)
    <3>1. MaxVersions \in Int /\ IsFiniteSet(1..MaxVersions) /\ IsFiniteSet(Item)
      BY EventsAssumption, FS_Interval
    <3>2. IsFiniteSet((1..MaxVersions) \X (1..MaxVersions))
      BY <3>1, FS_Product
    <3>3. QED
      BY <3>1, <3>2, FS_Product
  <2>2. \A c \in R : c.item \in Item /\ c.definition \in 1..MaxVersions
                     /\ c.revision \in 1..MaxVersions
    BY DEF RowsAreSound, RowsTyped
  <2>3. f \in [R -> K]
    BY <2>2
  <2>4. \A r, q \in R : f[r] = f[q] => KeyOf(r) = KeyOf(q)
    BY DEF KeyOf
  <2>5. \A r, q \in R : f[r] = f[q] => r = q
    BY <2>4 DEF RowsAreSound
  <2>6. IsFiniteSet(R) /\ Cardinality({f[r] : r \in R}) = Cardinality(R)
    <3> HIDE DEF f, R, K
    <3>1. QED
      BY <2>1, <2>3, <2>5, KeyedCards
  <2>7. IsFiniteSet(KeysIn(rows)) /\ Cardinality(KeysIn(rows)) = Cardinality(R)
    <3> DEFINE h == [c \in R |-> KeyOf(c)]  I == {h[c] : c \in R}
    <3>1. h \in [R -> I] /\ \A r, q \in R : h[r] = h[q] => r = q
      BY DEF RowsAreSound
    <3>2. I = KeysIn(rows)
      BY DEF KeysIn
    <3>3. h \in Bijection(R, I)
      BY <3>1 DEF Bijection, Injection, Surjection, IsInjective
    <3> HIDE DEF h, I, R
    <3>4. ExistsBijection(R, I)
      BY <3>3 DEF ExistsBijection
    <3>5. QED
      BY <3>2, <3>4, <2>6, FS_Bijection
  <2>8. QED
    BY <2>7
<1>3. QED
  BY <1>1, <1>2

\* Rows that are counted: the newest has the largest version, and one more row keeps the
\* count.
LEMMA CountedNext ==
    ASSUME NEW rs, Counted(rs), \A r \in rs : r.version \in Nat
    PROVE  /\ Cardinality(rs) \in Nat
           /\ NextVersion(rs) = Cardinality(rs) + 1
           /\ rs # {} => Newest(rs) \in rs /\ Newest(rs).version = Cardinality(rs)
           /\ \A r : r.version = Cardinality(rs) + 1 => Counted(rs \union {r})
<1> DEFINE n == Cardinality(rs)
<1>1. n \in Nat /\ IsFiniteSet(rs) /\ {r.version : r \in rs} = 1..n
  BY FS_CardinalityType DEF Counted, Versions
<1>2. NextVersion(rs) = n + 1
  <2>1. Max({0} \union 1..n) = n
    <3> DEFINE S == {0} \union 1..n
    <3>1. n \in S /\ \A y \in S : n >= y
      BY <1>1
    <3>2. \A x \in S : (\A y \in S : x >= y) => x = n
      BY <1>1, <3>1
    <3>3. QED
      BY <3>1, <3>2 DEF Max
  <2>2. QED
    BY <1>1, <2>1 DEF NextVersion, Versions
<1>3. ASSUME rs # {} PROVE Newest(rs) \in rs /\ Newest(rs).version = n
  <2>1. PICK q \in rs : TRUE
    BY <1>3
  <2>2. n >= 1 /\ \A r \in rs : r.version \in 1..n
    <3>1. \A r \in rs : r.version \in 1..n
      BY <1>1
    <3>2. QED
      BY <3>1, <2>1, <1>1
  <2>3. PICK r \in rs : r.version = n
    <3>1. n \in 1..n
      BY <1>1, <2>2
    <3>2. QED
      BY <3>1, <1>1
  <2>4. \A other \in rs : other.version <= r.version
    BY <2>2, <2>3
  <2>5. Newest(rs) \in rs /\ \A other \in rs : other.version <= Newest(rs).version
    BY <2>4 DEF Newest
  <2>6. r.version <= Newest(rs).version /\ Newest(rs).version \in 1..n
    BY <2>5, <2>2
  <2>7. QED
    BY <2>5, <2>6, <2>3, <1>1
<1>4. ASSUME NEW r, r.version = n + 1 PROVE Counted(rs \union {r})
  <2>1. r \notin rs
    <3>1. r \in rs => r.version \in 1..n
      BY <1>1
    <3>2. QED
      BY <3>1, <1>4, <1>1
  <2>2. IsFiniteSet(rs \union {r}) /\ Cardinality(rs \union {r}) = n + 1
    BY <1>1, <2>1, FS_AddElement
  <2>3. Versions(rs \union {r}) = (1..n) \union {n + 1}
    BY <1>1, <1>4 DEF Versions
  <2>4. (1..n) \union {n + 1} = 1..(n + 1)
    BY <1>1
  <2>5. QED
    BY <2>2, <2>3, <2>4 DEF Counted
<1>5. QED
  BY <1>1, <1>2, <1>3, <1>4


\* Two transactions that hold no lock in common add rows that are sound together.
LEMMA JoinsAreSound ==
    ASSUME NEW rows, NEW A, NEW B, NEW l, NEW m, RowsTyped(rows), RowsTyped(A), RowsTyped(B),
           RowsAreSound(Together(rows, A)), RowsAreSound(Together(rows, B)),
           Covered(A, l), Covered(B, m), l \intersect m = {}
    PROVE  RowsAreSound(Together(Together(rows, A), B))
<1> DEFINE RA == Together(rows, A)  RB == Together(rows, B)  AB == Together(Together(rows, A), B)
<1>1. /\ DOMAIN AB = Table /\ \A t \in Table : AB[t] = rows[t] \union A[t] \union B[t]
      /\ \A t \in Table : RA[t] = rows[t] \union A[t] /\ RB[t] = rows[t] \union B[t]
  BY DEF Together
<1>2. (\A t \in Table \ {"revision"} : A[t] = {}) \/ (\A t \in Table \ {"revision"} : B[t] = {})
  BY DEF Covered
<1>3. \/ \A t \in Table \ {"revision"} : AB[t] = RA[t]
      \/ \A t \in Table \ {"revision"} : AB[t] = RB[t]
  <2> HIDE DEF RA, RB, AB
  <2>1. CASE \A t \in Table \ {"revision"} : A[t] = {}
    <3>1. ASSUME NEW t \in Table \ {"revision"} PROVE AB[t] = RB[t]
      <4>1. AB[t] = rows[t] \union A[t] \union B[t] /\ RB[t] = rows[t] \union B[t]
        BY <1>1
      <4>2. A[t] = {}
        BY <2>1
      <4>3. QED
        BY <4>1, <4>2
    <3>2. QED
      BY <3>1
  <2>2. CASE \A t \in Table \ {"revision"} : B[t] = {}
    <3>1. ASSUME NEW t \in Table \ {"revision"} PROVE AB[t] = RA[t]
      <4>1. AB[t] = rows[t] \union A[t] \union B[t] /\ RA[t] = rows[t] \union A[t]
        BY <1>1
      <4>2. B[t] = {}
        BY <2>2
      <4>3. QED
        BY <4>1, <4>2
    <3>2. QED
      BY <3>1
  <2>3. QED
    BY <2>1, <2>2, <1>2
<1>4. \A i \in Item : RevisionsOf(AB, i) \in {RevisionsOf(RA, i), RevisionsOf(RB, i)}
  <2> SUFFICES ASSUME NEW i \in Item
               PROVE  RevisionsOf(AB, i) \in {RevisionsOf(RA, i), RevisionsOf(RB, i)}
    OBVIOUS
  <2>1. "revision" \in Table
    BY DEF Table
  <2>2. CASE i \notin l
    <3>1. \A r \in A["revision"] : r.item # i
      BY <2>2 DEF Covered
    <3>2. RevisionsOf(AB, i) = RevisionsOf(RB, i)
      BY <1>1, <2>1, <3>1 DEF RevisionsOf
    <3>3. QED
      BY <3>2
  <2>3. CASE i \notin m
    <3>1. \A r \in B["revision"] : r.item # i
      BY <2>3 DEF Covered
    <3>2. RevisionsOf(AB, i) = RevisionsOf(RA, i)
      BY <1>1, <2>1, <3>1 DEF RevisionsOf
    <3>3. QED
      BY <3>2
  <2>4. QED
    BY <2>2, <2>3
<1>5. RowsAreSound(RA) /\ RowsAreSound(RB) /\ Table = {"definition", "revision", "link", "candidate", "review"}
  BY DEF Table
<1> HIDE DEF RA, RB, AB
<1>6. RowsTyped(AB)
  BY <1>1, <1>5 DEF RowsTyped, RowsAreSound
<1>7. \A i \in Item : Counted(RevisionsOf(AB, i))
  BY <1>4, <1>5 DEF RowsAreSound
<1>8. /\ Counted(DefinitionsIn(AB))
      /\ \A l1, m1 \in AB["link"] : l1.contract = m1.contract => l1 = m1
      /\ \A c, d \in AB["candidate"] : KeyOf(c) = KeyOf(d) => c = d
      /\ \A r \in AB["review"] : KeyOf(r) \in KeysIn(AB)
  BY <1>3, <1>5 DEF RowsAreSound, DefinitionsIn, KeysIn
<1>9. RowsAreSound(AB)
  BY <1>6, <1>7, <1>8 DEF RowsAreSound
<1>10. QED
  BY <1>9 DEF AB

\* What a transaction looks at is the newest.
LEMMA NewestRows ==
    ASSUME NEW rows, RowsAreSound(rows)
    PROVE  /\ Cardinality(DefinitionsIn(rows)) \in Nat
           /\ NextVersion(DefinitionsIn(rows)) = Cardinality(DefinitionsIn(rows)) + 1
           /\ DefinitionsIn(rows) # {} =>
                /\ Newest(DefinitionsIn(rows)) \in DefinitionsIn(rows)
                /\ Newest(DefinitionsIn(rows)).version = Cardinality(DefinitionsIn(rows))
           /\ \A i \in Item : LET rs == RevisionsOf(rows, i) IN
                /\ Cardinality(rs) \in Nat /\ NextVersion(rs) = Cardinality(rs) + 1
                /\ rs # {} => Newest(rs) \in rs /\ Newest(rs).version = Cardinality(rs)
<1>1. /\ Counted(DefinitionsIn(rows)) /\ \A r \in DefinitionsIn(rows) : r.version \in Nat
  BY DEF RowsAreSound, RowsTyped, DefinitionsIn
<1>2. ASSUME NEW i \in Item
      PROVE  Counted(RevisionsOf(rows, i)) /\ \A r \in RevisionsOf(rows, i) : r.version \in Nat
  BY DEF RowsAreSound, RowsTyped, RevisionsOf
<1>3. QED
  BY <1>1, <1>2, CountedNext

\* Discovery finds pairs of versions that there are.
LEMMA FoundKeys ==
    ASSUME NEW rows, NEW at \in Nat, RowsAreSound(rows), \A t \in Table : \A r \in rows[t] : r.at <= at
    PROVE  Found(rows, at) \subseteq EventKey
<1>1. \A d \in DefinitionAt(rows, at) : d \in rows["definition"]
  <2>1. Before(DefinitionsIn(rows), at) = DefinitionsIn(rows)
    BY DEF Before, DefinitionsIn, Table
  <2>2. QED
    BY <2>1, NewestRows DEF DefinitionAt, DefinitionsIn
<1>2. \A i \in Item : \A r \in VisibleAt(rows, i, at) : r \in rows["revision"]
  <2> SUFFICES ASSUME NEW i \in Item PROVE \A r \in VisibleAt(rows, i, at) : r \in rows["revision"]
    OBVIOUS
  <2>1. Before(RevisionsOf(rows, i), at) = RevisionsOf(rows, i)
    BY DEF Before, RevisionsOf, Table
  <2>2. RevisionsOf(rows, i) # {} => Newest(RevisionsOf(rows, i)) \in rows["revision"]
    <3>1. RevisionsOf(rows, i) # {} => Newest(RevisionsOf(rows, i)) \in RevisionsOf(rows, i)
      BY NewestRows
    <3>2. QED
      BY <3>1 DEF RevisionsOf
  <2>3. QED
    BY <2>1, <2>2 DEF VisibleAt
<1>3. QED
  BY <1>1, <1>2 DEF Found, EventKey, RowsAreSound, RowsTyped

\* A handler's first step.
LEMMA BeginsInv ==
    ASSUME EventsInv, NEW s \in Session, NEW locks, NEW rows, Begin(s, locks, rows),
           RowsTyped(rows), Covered(rows, locks), RowsAreSound(Together(table, rows)),
           \A t \in Table : \A r \in rows[t] : r.at = hour,
           \A r \in rows["review"] : ReviewIsCurrent(r, locks)
    PROVE  EventsInv'
<1> DEFINE w == [locks |-> locks, at |-> hour, rows |-> rows]
<1>1. /\ Idle(s) /\ locks \intersect Locked = {} /\ transaction' = [transaction EXCEPT ![s] = w]
      /\ UNCHANGED <<table, worklist, contractRules, hour, discoveries>>
  BY DEF Begin
<1>2. /\ w.locks = locks /\ w.at = hour /\ w.rows = rows
  OBVIOUS
<1> HIDE DEF w
<1>3. /\ transaction'[s] = w /\ DOMAIN transaction' = Session
      /\ \A u \in Session \ {s} : transaction'[u] = transaction[u]
  BY <1>1 DEF EventsInv
<1>4. \A u \in Open' : u # s => u \in Open /\ transaction'[u] = transaction[u]
  BY <1>3 DEF Open, Idle
<1>5. ASSUME NEW u \in Open' PROVE PendingIsSound(u)'
  <2>1. CASE u = s
    <3>1. hour \in Nat
      BY DEF EventsInv
    <3>2. QED
      BY <1>1, <1>2, <1>3, <2>1, <3>1 DEF PendingIsSound, ReviewIsCurrent, ContractMatches
  <2>2. CASE u # s
    <3>1. PendingIsSound(u) /\ transaction'[u] = transaction[u]
      BY <1>4, <2>2 DEF EventsInv
    <3>2. QED
      BY <1>1, <3>1 DEF PendingIsSound, ReviewIsCurrent, ContractMatches
  <2>3. QED
    BY <2>1, <2>2
<1>6. LocksAreApart'
  <2> SUFFICES ASSUME NEW u \in Open', NEW v \in Open', u # v
               PROVE  transaction'[u].locks \intersect transaction'[v].locks = {}
    BY DEF LocksAreApart
  <2>1. \A v1 \in Open : transaction[v1].locks \intersect locks = {}
    BY <1>1 DEF Locked
  <2>2. CASE u # s /\ v # s
    BY <2>2, <1>4 DEF EventsInv, LocksAreApart
  <2>3. CASE u = s
    BY <2>1, <2>3, <1>2, <1>3, <1>4
  <2>4. CASE v = s
    BY <2>1, <2>4, <1>2, <1>3, <1>4
  <2>5. QED
    BY <2>2, <2>3, <2>4
<1>7. QED
  BY <1>1, <1>3, <1>5, <1>6 DEF EventsInv


LEMMA DefinitionInv ==
    ASSUME EventsInv, NEW s \in Session, NEW policy \in Policies, AppendDefinition(s, policy)
    PROVE  EventsInv'
<1> DEFINE n == NextVersion(DefinitionsIn(table))  row == DefinitionRow(n, policy)
           rows == [NoRows EXCEPT !["definition"] = {row}]
<1>1. n <= MaxVersions /\ Begin(s, EventLock, rows)
  BY DEF AppendDefinition
<1>2. RowsAreSound(table) /\ hour \in Nat /\ MaxVersions \in Nat
  BY EventsAssumption DEF EventsInv
<1>3. n = Cardinality(DefinitionsIn(table)) + 1 /\ n \in 1..MaxVersions
  BY <1>1, <1>2, NewestRows
<1> HIDE DEF n
<1>4. row \in [version : 1..MaxVersions, policy : Policies, at : Nat] /\ row.version = n /\ row.at = hour
  BY <1>2, <1>3 DEF DefinitionRow
<1>5. Counted(DefinitionsIn(table) \union {row})
  <2>1. Counted(DefinitionsIn(table)) /\ \A r \in DefinitionsIn(table) : r.version \in Nat
    BY <1>2 DEF RowsAreSound, RowsTyped, DefinitionsIn
  <2> HIDE DEF row
  <2>2. QED
    BY <2>1, <1>3, <1>4, CountedNext
<1> HIDE DEF row
<1>6. /\ DOMAIN rows = Table /\ rows["definition"] = {row}
      /\ \A t \in Table \ {"definition"} : rows[t] = {}
  BY DEF NoRows, Table
<1> HIDE DEF rows
<1>7. RowsTyped(rows) /\ Covered(rows, EventLock) /\ \A t \in Table : \A r \in rows[t] : r.at = hour
  BY <1>4, <1>6 DEF RowsTyped, Covered, EventLock, Table
<1>8. RowsAreSound(Together(table, rows))
  <2> DEFINE T == Together(table, rows)
  <2>1. /\ DOMAIN T = Table /\ T["definition"] = table["definition"] \union {row}
        /\ \A t \in Table \ {"definition"} : T[t] = table[t]
    BY <1>6 DEF Together, Table
  <2> HIDE DEF T
  <2>2. RowsTyped(T)
    BY <1>2, <1>4, <2>1 DEF RowsTyped, RowsAreSound, Table
  <2>3. \A i \in Item : RevisionsOf(T, i) = RevisionsOf(table, i)
    BY <2>1 DEF RevisionsOf, Table
  <2>4. RowsAreSound(T)
    BY <1>2, <1>5, <2>1, <2>2, <2>3 DEF RowsAreSound, DefinitionsIn, KeysIn, Table
  <2>5. QED
    BY <2>4 DEF T
<1>9. rows["review"] = {}
  BY <1>6 DEF Table
<1>10. QED
  BY <1>1, <1>7, <1>8, <1>9, BeginsInv

LEMMA RevisionInv ==
    ASSUME EventsInv, NEW s \in Session, NEW i \in Item, NEW topic \in Topics,
           PersistRevision(s, i, topic)
    PROVE  EventsInv'
<1> DEFINE n == NextVersion(RevisionsOf(table, i))
           row == [item |-> i, version |-> n, topic |-> topic, at |-> hour]
           rows == [NoRows EXCEPT !["revision"] = {row}]
<1>1. n <= MaxVersions /\ Begin(s, {i}, rows)
  BY DEF PersistRevision
<1>2. RowsAreSound(table) /\ hour \in Nat /\ MaxVersions \in Nat
  BY EventsAssumption DEF EventsInv
<1>3. n = Cardinality(RevisionsOf(table, i)) + 1 /\ n \in 1..MaxVersions
  BY <1>1, <1>2, NewestRows
<1> HIDE DEF n
<1>4. /\ row \in [item : Item, version : 1..MaxVersions, topic : Topics, at : Nat]
      /\ row.version = n /\ row.at = hour /\ row.item = i
  BY <1>2, <1>3
<1> HIDE DEF row
<1>5. Counted(RevisionsOf(table, i) \union {row})
  <2>1. Counted(RevisionsOf(table, i)) /\ \A r \in RevisionsOf(table, i) : r.version \in Nat
    BY <1>2 DEF RowsAreSound, RowsTyped, RevisionsOf
  <2>2. QED
    BY <2>1, <1>3, <1>4, CountedNext
<1>6. /\ DOMAIN rows = Table /\ rows["revision"] = {row}
      /\ \A t \in Table \ {"revision"} : rows[t] = {}
  BY DEF NoRows, Table
<1> HIDE DEF rows
<1>7. RowsTyped(rows) /\ Covered(rows, {i}) /\ \A t \in Table : \A r \in rows[t] : r.at = hour
  BY <1>4, <1>6 DEF RowsTyped, Covered, Table
<1>8. RowsAreSound(Together(table, rows))
  <2> DEFINE T == Together(table, rows)
  <2>1. /\ DOMAIN T = Table /\ T["revision"] = table["revision"] \union {row}
        /\ \A t \in Table \ {"revision"} : T[t] = table[t]
    BY <1>6 DEF Together, Table
  <2> HIDE DEF T
  <2>2. RowsTyped(T)
    BY <1>2, <1>4, <2>1 DEF RowsTyped, RowsAreSound, Table
  <2>3. /\ RevisionsOf(T, i) = RevisionsOf(table, i) \union {row}
        /\ \A j \in Item \ {i} : RevisionsOf(T, j) = RevisionsOf(table, j)
    BY <1>4, <2>1 DEF RevisionsOf
  <2>4. \A j \in Item : Counted(RevisionsOf(T, j))
    BY <1>2, <1>5, <2>3 DEF RowsAreSound
  <2>5. RowsAreSound(T)
    BY <1>2, <2>1, <2>2, <2>4 DEF RowsAreSound, DefinitionsIn, KeysIn, Table
  <2>6. QED
    BY <2>5 DEF T
<1>9. rows["review"] = {}
  BY <1>6 DEF Table
<1>10. QED
  BY <1>1, <1>7, <1>8, <1>9, BeginsInv

LEMMA EventReviewInv ==
    ASSUME EventsInv, NEW s \in Session, NEW key \in KeysIn(table), NEW relation \in Relation,
           NEW target \in Contract \union {NoContract},
           AppendEvidenceReview(s, key, relation, target)
    PROVE  EventsInv'
<1> DEFINE row == [definition |-> key.definition, item |-> key.item, revision |-> key.revision,
                   relation |-> relation, target |-> target, at |-> hour]
           locks == ReviewLocks(key, target)
           rows == [NoRows EXCEPT !["review"] = {row}]
<1>1. Reviewable(key, target) /\ Begin(s, locks, rows)
  BY DEF AppendEvidenceReview
<1>2. RowsAreSound(table) /\ hour \in Nat
  BY DEF EventsInv
<1>3. PICK c \in table["candidate"] : key = KeyOf(c)
  BY DEF KeysIn
<1>4. /\ c \in [definition : 1..MaxVersions, item : Item, revision : 1..MaxVersions, at : Nat]
      /\ key.definition = c.definition /\ key.item = c.item /\ key.revision = c.revision
  BY <1>2, <1>3 DEF RowsAreSound, RowsTyped, KeyOf
<1>5. /\ row \in [definition : 1..MaxVersions, item : Item, revision : 1..MaxVersions,
                  relation : Relation, target : Contract \union {NoContract}, at : Nat]
      /\ row.item = key.item /\ row.definition = key.definition /\ row.revision = key.revision
      /\ row.at = hour /\ row.target = target /\ KeyOf(row) = key
  BY <1>2, <1>3, <1>4 DEF KeyOf
<1> HIDE DEF row
<1>6. /\ EventRow \in locks /\ key.item \in locks
      /\ target # NoContract => target \in locks
  BY DEF ReviewLocks
<1> HIDE DEF locks
<1>7. ReviewIsCurrent(row, locks)
  BY <1>1, <1>5, <1>6 DEF ReviewIsCurrent, Reviewable
<1>8. /\ DOMAIN rows = Table /\ rows["review"] = {row}
      /\ \A t \in Table \ {"review"} : rows[t] = {}
  BY DEF NoRows, Table
<1> HIDE DEF rows
<1>9. RowsTyped(rows) /\ Covered(rows, locks) /\ \A t \in Table : \A r \in rows[t] : r.at = hour
  BY <1>5, <1>6, <1>8 DEF RowsTyped, Covered, Table
<1>10. RowsAreSound(Together(table, rows))
  <2> DEFINE T == Together(table, rows)
  <2>1. /\ DOMAIN T = Table /\ T["review"] = table["review"] \union {row}
        /\ \A t \in Table \ {"review"} : T[t] = table[t]
    BY <1>8 DEF Together, Table
  <2> HIDE DEF T
  <2>2. RowsTyped(T)
    BY <1>2, <1>5, <2>1 DEF RowsTyped, RowsAreSound, Table
  <2>3. \A i \in Item : RevisionsOf(T, i) = RevisionsOf(table, i)
    BY <2>1 DEF RevisionsOf, Table
  <2>4. KeysIn(T) = KeysIn(table) /\ key \in KeysIn(table)
    BY <2>1 DEF KeysIn, Table
  <2>5. RowsAreSound(T)
    BY <1>2, <1>5, <2>1, <2>2, <2>3, <2>4 DEF RowsAreSound, DefinitionsIn, Table
  <2>6. QED
    BY <2>5 DEF T
<1>11. \A r \in rows["review"] : ReviewIsCurrent(r, locks)
  BY <1>7, <1>8 DEF Table
<1>12. QED
  BY <1>1, <1>9, <1>10, <1>11, BeginsInv


\* The command numbers its definitions one after the other.
LEMMA InitialDefinitions ==
    ASSUME NEW defs, NEW first, NEW macro, NEW policy, NEW other, Counted(defs), hour \in Nat,
           defs \subseteq [version : 1..MaxVersions, policy : Policies, at : Nat],
           policy \in Policies, other \in Policies,
           first = IF defs = {} THEN {DefinitionRow(1, policy)} ELSE {},
           macro \in {{}, {DefinitionRow(Newest(defs \union first).version + 1, other)}},
           Newest(defs \union first).version + Cardinality(macro) <= MaxVersions
    PROVE  /\ first \union macro \subseteq
                [version : 1..MaxVersions, policy : Policies, at : {hour}]
           /\ Counted(defs \union (first \union macro))
<1> DEFINE once == defs \union first  previous == Newest(once)
<1>1. MaxVersions \in Nat /\ \A r \in defs : r.version \in Nat
  BY EventsAssumption
<1>2. /\ Counted(once) /\ once # {} /\ \A r \in once : r.version \in Nat
      /\ first \subseteq {DefinitionRow(1, policy)}
  <2>1. CASE defs = {}
    <3>1. Cardinality(defs) = 0 /\ first = {DefinitionRow(1, policy)} /\ once = first
      BY <2>1, FS_EmptySet
    <3>2. DefinitionRow(1, policy).version = Cardinality(defs) + 1
      BY <3>1 DEF DefinitionRow
    <3>3. Counted(defs \union {DefinitionRow(1, policy)})
      BY <3>2, <1>1, CountedNext
    <3>4. QED
      BY <3>1, <3>2, <3>3
  <2>2. CASE defs # {}
    BY <2>2, <1>1
  <2>3. QED
    BY <2>1, <2>2
<1>3. /\ Cardinality(once) \in Nat /\ previous \in once /\ previous.version = Cardinality(once)
      /\ \A r : r.version = Cardinality(once) + 1 => Counted(once \union {r})
  BY <1>2, CountedNext
<1>4. previous.version \in Nat \ {0}
  <2>1. Cardinality(once) # 0
    BY <1>2, FS_EmptySet DEF Counted
  <2>2. QED
    BY <2>1, <1>3
<1>5. defs \union (first \union macro) = once \union macro
  OBVIOUS
<1> DEFINE next == DefinitionRow(previous.version + 1, other)
<1>6. next.version = previous.version + 1 /\ next.policy = other /\ next.at = hour
  BY DEF DefinitionRow
<1>7. macro \in {{}, {next}} /\ previous.version + Cardinality(macro) <= MaxVersions
  OBVIOUS
<1>8. next \in [version : Nat, policy : Policies, at : {hour}]
  BY <1>4 DEF DefinitionRow
<1> HIDE DEF previous, next, once
<1>9. CASE macro = {}
  <2>1. previous.version <= MaxVersions
    BY <1>7, <1>9, <1>4, FS_EmptySet
  <2>2. first \union macro \subseteq [version : 1..MaxVersions, policy : Policies, at : {hour}]
    BY <1>2, <1>9, <1>1, <1>4, <2>1 DEF DefinitionRow
  <2>3. once \union macro = once
    BY <1>9
  <2>4. QED
    BY <2>2, <2>3, <1>2, <1>5
<1>10. CASE macro = {next}
  <2>1. Cardinality(macro) = 1
    BY <1>10, FS_Singleton
  <2>2. previous.version + 1 <= MaxVersions
    BY <1>7, <2>1
  <2>3. first \subseteq [version : 1..MaxVersions, policy : Policies, at : {hour}]
    BY <1>2, <1>1, <1>4, <2>2 DEF DefinitionRow
  <2>4. next \in [version : 1..MaxVersions, policy : Policies, at : {hour}]
    BY <1>8, <1>6, <2>2, <1>4, <1>1
  <2>5. Counted(once \union {next})
    BY <1>3, <1>6
  <2>6. first \union macro \subseteq [version : 1..MaxVersions, policy : Policies, at : {hour}]
    BY <1>10, <2>3, <2>4
  <2>7. QED
    BY <2>5, <2>6, <1>10, <1>5
<1>11. QED
  BY <1>7, <1>9, <1>10

LEMMA InitializeInv ==
    ASSUME EventsInv, NEW s \in Session, NEW expand \in BOOLEAN, InitializeEvent(s, expand)
    PROVE  EventsInv'
<1> DEFINE defs == DefinitionsIn(table)
           first == IF defs = {} THEN {DefinitionRow(1, "SOURCE_ONLY")} ELSE {}
           previous == Newest(defs \union first)
           macro == IF expand /\ previous.policy # "MACRO"
                    THEN {DefinitionRow(previous.version + 1, "MACRO")} ELSE {}
           linked == {l.contract : l \in table["link"]}
           newLinks == {[contract |-> m, rules |-> contractRules[m], at |-> hour] :
                       m \in Contract \ linked}
           seen == [table EXCEPT !["definition"] = @ \union first \union macro]
           keys == Found(seen, hour) \ KeysIn(table)
           cands == Stamped(keys, hour)
           locks == EventLock \union Contract
           rows == [NoRows EXCEPT !["definition"] = first \union macro, !["link"] = newLinks,
                                  !["candidate"] = cands]
<1>1. previous.version + Cardinality(macro) <= MaxVersions /\ Begin(s, locks, rows)
  BY DEF InitializeEvent
<1>2. /\ RowsAreSound(table) /\ RowsTyped(table) /\ hour \in Nat
      /\ \A m \in Contract : contractRules[m] \in Nat
      /\ \A t \in Table : \A r \in table[t] : r.at <= hour
  BY DEF EventsInv, RowsAreSound
<1> DEFINE added == first \union macro
<1>3. /\ added \subseteq [version : 1..MaxVersions, policy : Policies, at : {hour}]
      /\ Counted(defs \union added)
  <2>1. /\ Counted(defs) /\ defs \subseteq [version : 1..MaxVersions, policy : Policies, at : Nat]
        /\ "SOURCE_ONLY" \in Policies /\ "MACRO" \in Policies
        /\ macro \in {{}, {DefinitionRow(previous.version + 1, "MACRO")}}
    BY <1>2 DEF RowsAreSound, RowsTyped, DefinitionsIn, Policies
  <2> HIDE DEF macro, defs
  <2>2. QED
    BY <2>1, <1>1, <1>2, InitialDefinitions
<1>4. /\ DOMAIN rows = Table /\ rows["definition"] = added /\ rows["link"] = newLinks
      /\ rows["candidate"] = cands /\ rows["revision"] = {} /\ rows["review"] = {}
  BY DEF NoRows, Table
<1>5. /\ DOMAIN seen = Table /\ seen["definition"] = defs \union added
      /\ \A t \in Table \ {"definition"} : seen[t] = table[t]
  BY <1>2 DEF RowsTyped, DefinitionsIn, Table
<1> HIDE DEF rows, seen, added
<1>6. RowsAreSound(seen) /\ \A t \in Table : \A r \in seen[t] : r.at <= hour
  <2>1. RowsTyped(seen)
    BY <1>2, <1>3, <1>5 DEF RowsTyped, DefinitionsIn, Table
  <2>2. \A i \in Item : RevisionsOf(seen, i) = RevisionsOf(table, i)
    BY <1>5 DEF RevisionsOf, Table
  <2>3. RowsAreSound(seen)
    BY <1>2, <1>3, <1>5, <2>1, <2>2 DEF RowsAreSound, DefinitionsIn, KeysIn, Table
  <2>4. \A r \in seen["definition"] : r.at <= hour
    BY <1>2, <1>3, <1>5 DEF DefinitionsIn, Table
  <2>5. QED
    BY <2>3, <2>4, <1>2, <1>5
<1>7. keys \subseteq EventKey /\ keys \intersect KeysIn(table) = {}
  BY <1>2, <1>6, FoundKeys
<1> HIDE DEF keys
<1>8. /\ cands \subseteq [definition : 1..MaxVersions, item : Item, revision : 1..MaxVersions,
                          at : {hour}]
      /\ \A c \in cands : KeyOf(c) \in keys
      /\ \A c, d \in cands : KeyOf(c) = KeyOf(d) => c = d
  BY <1>7 DEF Stamped, EventKey, KeyOf
<1> HIDE DEF cands
<1>9. /\ newLinks \subseteq [contract : Contract, rules : Nat, at : {hour}]
      /\ \A l \in newLinks : l.contract \notin linked
      /\ \A l, m \in newLinks : l.contract = m.contract => l = m
  BY <1>2
<1> HIDE DEF newLinks
<1>10. \A l \in table["link"] : l.contract \in linked
  OBVIOUS
<1> HIDE DEF linked
<1>11. RowsTyped(rows) /\ Covered(rows, locks) /\ \A t \in Table : \A r \in rows[t] : r.at = hour
  <2>1. RowsTyped(rows)
    BY <1>2, <1>3, <1>4, <1>8, <1>9 DEF RowsTyped
  <2>2. Covered(rows, locks)
    BY <1>4 DEF Covered, EventLock
  <2>3. \A t \in Table : \A r \in rows[t] : r.at = hour
    BY <1>3, <1>4, <1>8, <1>9 DEF Table
  <2>4. QED
    BY <2>1, <2>2, <2>3
<1>12. RowsAreSound(Together(table, rows))
  <2> DEFINE T == Together(table, rows)
  <2>1. /\ DOMAIN T = Table /\ T["definition"] = defs \union added
        /\ T["link"] = table["link"] \union newLinks
        /\ T["candidate"] = table["candidate"] \union cands
        /\ T["revision"] = table["revision"] /\ T["review"] = table["review"]
    BY <1>4 DEF Together, Table, DefinitionsIn
  <2> HIDE DEF T
  <2>2. RowsTyped(T)
    BY <1>2, <1>3, <1>8, <1>9, <2>1 DEF RowsTyped, DefinitionsIn
  <2>3. \A i \in Item : RevisionsOf(T, i) = RevisionsOf(table, i)
    BY <2>1 DEF RevisionsOf
  <2>4. \A l, m \in T["link"] : l.contract = m.contract => l = m
    BY <1>2, <1>9, <1>10, <2>1 DEF RowsAreSound
  <2>5. \A c, d \in T["candidate"] : KeyOf(c) = KeyOf(d) => c = d
    BY <1>2, <1>7, <1>8, <2>1 DEF RowsAreSound, KeysIn
  <2>6. \A r \in T["review"] : KeyOf(r) \in KeysIn(T)
    BY <1>2, <2>1 DEF RowsAreSound, KeysIn
  <2>7. RowsAreSound(T)
    BY <1>2, <1>3, <2>1, <2>2, <2>3, <2>4, <2>5, <2>6 DEF RowsAreSound, DefinitionsIn
  <2>8. QED
    BY <2>7 DEF T
<1>13. \A r \in rows["review"] : ReviewIsCurrent(r, locks)
  BY <1>4
<1> HIDE DEF locks, previous, macro, first, defs
<1>14. QED
  BY <1>1, <1>11, <1>12, <1>13, BeginsInv


\* The rows of a commit leave what the other open transactions rely on.
LEMMA CommitInv == ASSUME EventsInv, NEW s \in Session, Commit(s) PROVE EventsInv'
<1> DEFINE w == transaction[s]
<1>1. /\ s \in Open /\ table' = Together(table, w.rows)
      /\ transaction' = [transaction EXCEPT ![s] = NoTransaction]
      /\ UNCHANGED <<worklist, contractRules, hour, discoveries>>
  BY DEF Commit, Open, Together
<1>2. /\ PendingIsSound(s) /\ RowsAreSound(table) /\ RowsTyped(table) /\ DOMAIN transaction = Session
      /\ hour \in Nat /\ \A t \in Table : \A r \in table[t] : r.at <= hour
  BY <1>1 DEF EventsInv, RowsAreSound
<1>3. /\ w.at \in 0..hour /\ RowsTyped(w.rows) /\ Covered(w.rows, w.locks)
      /\ RowsAreSound(table') /\ \A t \in Table : \A r \in w.rows[t] : r.at = w.at
  BY <1>1, <1>2 DEF PendingIsSound
<1>4. \A t \in Table : table'[t] = table[t] \union w.rows[t]
  BY <1>1 DEF Together
<1> HIDE DEF w
<1>5. \A t \in Table : \A r \in table'[t] : r.at <= hour
  BY <1>2, <1>3, <1>4
<1>6. \A u \in Open' : u \in Open /\ u # s /\ transaction'[u] = transaction[u]
  BY <1>1, <1>2 DEF Open, Idle
<1>7. ASSUME NEW u \in Open' PROVE PendingIsSound(u)'
  <2> DEFINE v == transaction[u]
  <2>1. /\ u \in Open /\ u # s /\ transaction'[u] = v /\ PendingIsSound(u)
        /\ v.locks \intersect w.locks = {}
    BY <1>1, <1>6, <1>7 DEF EventsInv, LocksAreApart, w
  <2>2. /\ v.at \in 0..hour /\ RowsTyped(v.rows) /\ Covered(v.rows, v.locks)
        /\ RowsAreSound(Together(table, v.rows))
        /\ \A t \in Table : \A r \in v.rows[t] : r.at = v.at
        /\ \A r \in v.rows["review"] : ReviewIsCurrent(r, v.locks)
    BY <2>1 DEF PendingIsSound
  <2> HIDE DEF v
  <2>3. RowsAreSound(Together(table', v.rows))
    <3>1. RowsAreSound(Together(table, w.rows))
      BY <1>1, <1>3 DEF w
    <3>2. RowsAreSound(Together(Together(table, w.rows), v.rows))
      BY <1>2, <1>3, <2>1, <2>2, <3>1, JoinsAreSound
    <3>3. QED
      BY <1>1, <3>2 DEF w
  <2>4. ASSUME NEW r \in v.rows["review"] PROVE ReviewIsCurrent(r, v.locks)'
    <3>1. EventRow \in v.locks /\ r.item \in v.locks /\ "review" \in Table \ {"revision"}
      BY <2>2, <2>4 DEF Covered, Table
    <3>2. w.rows["definition"] = {} /\ \A q \in w.rows["revision"] : q.item # r.item
      BY <1>3, <2>1, <3>1 DEF Covered, Table
    <3>3. /\ DefinitionsIn(table') = DefinitionsIn(table)
          /\ RevisionsOf(table', r.item) = RevisionsOf(table, r.item)
      BY <1>4, <3>2 DEF DefinitionsIn, RevisionsOf, Table
    <3>4. ReviewIsCurrent(r, v.locks) /\ table["link"] \subseteq table'["link"]
      BY <2>2, <2>4, <1>4 DEF Table
    <3>5. /\ r.definition = Newest(DefinitionsIn(table')).version
          /\ r.revision = Newest(RevisionsOf(table', r.item)).version
      BY <3>3, <3>4 DEF ReviewIsCurrent
    <3>6. r.target # NoContract => r.target \in v.locks /\ ContractMatches(r.target)'
      BY <1>1, <3>4 DEF ReviewIsCurrent, ContractMatches
    <3>7. v' = v
      BY <1>1, <1>6, <1>7 DEF v
    <3>8. QED
      BY <3>5, <3>6, <3>7 DEF ReviewIsCurrent
  <2>5. v' = v
    BY <1>1, <1>6, <1>7 DEF v
  <2>6. QED
    BY <1>1, <2>1, <2>2, <2>3, <2>4, <2>5 DEF PendingIsSound
<1>8. LocksAreApart'
  BY <1>6 DEF EventsInv, LocksAreApart
<1>9. QED
  BY <1>1, <1>2, <1>3, <1>5, <1>7, <1>8 DEF EventsInv

LEMMA RollbackInv == ASSUME EventsInv, NEW s \in Session, Rollback(s) PROVE EventsInv'
<1>1. /\ transaction' = [transaction EXCEPT ![s] = NoTransaction] /\ DOMAIN transaction = Session
      /\ UNCHANGED <<table, worklist, contractRules, hour, discoveries>>
  BY DEF Rollback, EventsInv
<1>2. \A u \in Open' : u \in Open /\ u # s /\ transaction'[u] = transaction[u]
  BY <1>1 DEF Open, Idle
<1>3. ASSUME NEW u \in Open' PROVE PendingIsSound(u)'
  <2>1. PendingIsSound(u) /\ transaction'[u] = transaction[u]
    BY <1>2 DEF EventsInv
  <2>2. QED
    BY <1>1, <2>1 DEF PendingIsSound, ReviewIsCurrent, ContractMatches
<1>4. LocksAreApart'
  BY <1>2 DEF EventsInv, LocksAreApart
<1>5. QED
  BY <1>1, <1>3, <1>4 DEF EventsInv

\* A candidate created on its own is one no open transaction is about to add.
LEMMA CreatedInv == ASSUME EventsInv, NEW key \in worklist, SyncCreates(key) PROVE EventsInv'
<1> DEFINE new == Stamped({key} \ KeysIn(table), hour)
<1>1. /\ \A s \in Open : key \notin KeysIn(transaction[s].rows)
      /\ worklist' = worklist \ {key}
      /\ table' = [table EXCEPT !["candidate"] = table["candidate"] \union new]
      /\ UNCHANGED <<transaction, contractRules, hour, discoveries>>
  BY DEF SyncCreates
<1>2. /\ key \in EventKey /\ hour \in Nat /\ RowsAreSound(table) /\ RowsTyped(table)
      /\ \A t \in Table : \A r \in table[t] : r.at <= hour
  BY DEF EventsInv, RowsAreSound
<1>3. /\ new \subseteq [definition : 1..MaxVersions, item : Item, revision : 1..MaxVersions,
                        at : {hour}]
      /\ \A c \in new : KeyOf(c) = key /\ key \notin KeysIn(table)
      /\ \A c, d \in new : c = d
  BY <1>2 DEF Stamped, EventKey, KeyOf
<1> HIDE DEF new
<1>4. /\ DOMAIN table' = Table /\ table'["candidate"] = table["candidate"] \union new
      /\ \A t \in Table \ {"candidate"} : table'[t] = table[t]
  BY <1>1, <1>2 DEF RowsTyped, Table
<1>5. ASSUME NEW rows, RowsAreSound(rows), key \in KeysIn(rows) => new = {},
             NEW more, DOMAIN more = Table, more["candidate"] = rows["candidate"] \union new,
             \A t \in Table \ {"candidate"} : more[t] = rows[t]
      PROVE  RowsAreSound(more)
  <2>1. RowsTyped(more)
    BY <1>2, <1>3, <1>5 DEF RowsAreSound, RowsTyped, Table
  <2>2. \A c, d \in more["candidate"] : KeyOf(c) = KeyOf(d) => c = d
    BY <1>3, <1>5 DEF RowsAreSound, KeysIn
  <2>3. \A i \in Item : RevisionsOf(more, i) = RevisionsOf(rows, i)
    BY <1>5 DEF RevisionsOf, Table
  <2>4. KeysIn(rows) \subseteq KeysIn(more)
    BY <1>5 DEF KeysIn
  <2>5. QED
    BY <1>5, <2>1, <2>2, <2>3, <2>4 DEF RowsAreSound, DefinitionsIn, Table
<1>6. RowsAreSound(table')
  <2>1. key \in KeysIn(table) => new = {}
    BY <1>3
  <2>2. QED
    BY <1>2, <1>4, <2>1, <1>5
<1>7. \A t \in Table : \A r \in table'[t] : r.at <= hour
  BY <1>2, <1>3, <1>4
<1>8. Open' = Open
  BY <1>1 DEF Open, Idle
<1>9. ASSUME NEW u \in Open PROVE PendingIsSound(u)'
  <2> DEFINE v == transaction[u]
  <2>1. PendingIsSound(u) /\ key \notin KeysIn(v.rows) /\ transaction' = transaction
    BY <1>1, <1>9 DEF EventsInv
  <2>2. /\ v.at \in 0..hour /\ RowsTyped(v.rows) /\ Covered(v.rows, v.locks)
        /\ RowsAreSound(Together(table, v.rows))
        /\ \A t \in Table : \A r \in v.rows[t] : r.at = v.at
        /\ \A r \in v.rows["review"] : ReviewIsCurrent(r, v.locks)
    BY <2>1 DEF PendingIsSound
  <2>3. v' = v
    BY <2>1
  <2> HIDE DEF v
  <2>4. RowsAreSound(Together(table', v.rows))
    <3> DEFINE rows == Together(table, v.rows)  more == Together(table', v.rows)
    <3>1. /\ DOMAIN more = Table /\ more["candidate"] = rows["candidate"] \union new
          /\ \A t \in Table \ {"candidate"} : more[t] = rows[t]
      BY <1>4 DEF Together, Table
    <3>2. key \in KeysIn(rows) => new = {}
      <4>1. KeysIn(rows) = KeysIn(table) \union KeysIn(v.rows)
        BY DEF KeysIn, Together, Table
      <4>2. QED
        BY <4>1, <2>1, <1>3
    <3> HIDE DEF rows, more
    <3>3. RowsAreSound(rows)
      BY <2>2 DEF rows
    <3>4. RowsAreSound(more)
      BY <3>1, <3>2, <3>3, <1>5
    <3>5. QED
      BY <3>4 DEF more
  <2>5. /\ DefinitionsIn(table') = DefinitionsIn(table) /\ table'["link"] = table["link"]
        /\ \A i : RevisionsOf(table', i) = RevisionsOf(table, i)
    BY <1>4 DEF DefinitionsIn, RevisionsOf, Table
  <2>6. \A r \in v.rows["review"] : ReviewIsCurrent(r, v.locks)'
    BY <1>1, <2>2, <2>3, <2>5 DEF ReviewIsCurrent, ContractMatches
  <2>7. QED
    BY <1>1, <2>1, <2>2, <2>3, <2>4, <2>6 DEF PendingIsSound, v
<1>10. QED
  BY <1>1, <1>2, <1>6, <1>7, <1>8, <1>9 DEF EventsInv, LocksAreApart


\* Rules change only where no open transaction holds the market.
LEMMA RulesChangeInv == ASSUME EventsInv, NEW m \in Contract, RulesChange(m) PROVE EventsInv'
<1>1. /\ m \notin Locked /\ contractRules' = [contractRules EXCEPT ![m] = contractRules[m] + 1]
      /\ contractRules \in [Contract -> Nat]
      /\ UNCHANGED <<table, transaction, worklist, hour, discoveries>>
  BY DEF RulesChange, EventsInv
<1>2. /\ contractRules' \in [Contract -> Nat]
      /\ \A n : n # m => contractRules'[n] = contractRules[n]
  BY <1>1
<1>3. Open' = Open
  BY <1>1 DEF Open, Idle
<1>4. ASSUME NEW u \in Open PROVE PendingIsSound(u)'
  <2>1. PendingIsSound(u) /\ m \notin transaction[u].locks
    BY <1>1 DEF EventsInv, Locked
  <2>2. \A r \in transaction[u].rows["review"] : ReviewIsCurrent(r, transaction[u].locks)'
    <3> SUFFICES ASSUME NEW r \in transaction[u].rows["review"]
                 PROVE  ReviewIsCurrent(r, transaction[u].locks)'
      OBVIOUS
    <3>1. ReviewIsCurrent(r, transaction[u].locks)
      BY <2>1 DEF PendingIsSound
    <3>2. r.target # NoContract => r.target # m
      BY <3>1, <2>1 DEF ReviewIsCurrent
    <3>3. QED
      BY <3>1, <3>2, <1>1, <1>2 DEF ReviewIsCurrent, ContractMatches
  <2>3. QED
    BY <1>1, <2>1, <2>2 DEF PendingIsSound
<1>5. QED
  BY <1>1, <1>2, <1>3, <1>4 DEF EventsInv, LocksAreApart

\* Steps that change neither tables, transactions nor rules.
LEMMA EventsKeep ==
    ASSUME EventsInv, UNCHANGED <<table, transaction, contractRules>>,
           hour' \in Nat, hour <= hour', worklist' \subseteq EventKey
    PROVE  EventsInv'
<1>1. Open' = Open /\ hour \in Nat
  BY DEF Open, Idle, EventsInv
<1>2. ASSUME NEW u \in Open PROVE PendingIsSound(u)'
  <2>1. PendingIsSound(u)
    BY DEF EventsInv
  <2>2. transaction[u].at \in 0..hour'
    BY <2>1, <1>1 DEF PendingIsSound
  <2>3. QED
    BY <2>1, <2>2 DEF PendingIsSound, ReviewIsCurrent, ContractMatches
<1>3. \A t \in Table : \A r \in table[t] : r.at <= hour'
  <2>1. \A t \in Table : \A r \in table[t] : r.at \in Nat /\ r.at <= hour
    BY DEF EventsInv, RowsAreSound, RowsTyped, Table
  <2>2. QED
    BY <2>1, <1>1
<1>4. QED
  BY <1>1, <1>2, <1>3 DEF EventsInv, LocksAreApart

LEMMA EventsInitially == EventsInit => EventsInv
<1> SUFFICES ASSUME EventsInit PROVE EventsInv
  OBVIOUS
<1>1. /\ DOMAIN table = Table /\ \A t \in Table : table[t] = {}
      /\ transaction = [s \in Session |-> NoTransaction] /\ worklist = {} /\ hour = 1
      /\ contractRules = [m \in Contract |-> 1]
  BY DEF EventsInit, NoRows
<1>2. /\ table["definition"] = {} /\ table["revision"] = {} /\ table["link"] = {}
      /\ table["candidate"] = {} /\ table["review"] = {}
  BY <1>1 DEF Table
<1>3. Counted({})
  <2>1. Versions({}) = {} /\ 1..0 = {}
    BY DEF Versions
  <2>2. QED
    BY <2>1, FS_EmptySet DEF Counted
<1>4. DefinitionsIn(table) = {} /\ \A i \in Item : RevisionsOf(table, i) = {}
  BY <1>2 DEF DefinitionsIn, RevisionsOf
<1>5. RowsAreSound(table)
  <2>1. RowsTyped(table)
    BY <1>1, <1>2 DEF RowsTyped
  <2>2. Counted(DefinitionsIn(table)) /\ \A i \in Item : Counted(RevisionsOf(table, i))
    BY <1>3, <1>4
  <2>3. QED
    BY <1>2, <2>1, <2>2 DEF RowsAreSound
<1>6. Open = {}
  BY <1>1 DEF Open, Idle
<1>7. QED
  BY <1>1, <1>5, <1>6 DEF EventsInv, LocksAreApart

LEMMA EventsStep == EventsInv /\ [EventsNext]_eventVars => EventsInv'
<1> SUFFICES ASSUME EventsInv, [EventsNext]_eventVars PROVE EventsInv'
  OBVIOUS
<1>1. hour \in Nat /\ worklist \subseteq EventKey
  BY DEF EventsInv
<1>2. CASE SyncReads
  <2>1. Found(table, hour) \subseteq EventKey
    BY <1>1, FoundKeys DEF EventsInv
  <2>2. QED
    BY <1>1, <1>2, <2>1, EventsKeep DEF SyncReads
<1>3. CASE SyncStops
  BY <1>1, <1>3, EventsKeep DEF SyncStops
<1>4. CASE HourPasses
  BY <1>1, <1>4, EventsKeep DEF HourPasses
<1>5. CASE UNCHANGED eventVars
  BY <1>1, <1>5, EventsKeep DEF eventVars
<1>6. QED
  BY <1>2, <1>3, <1>4, <1>5, DefinitionInv, RevisionInv, EventReviewInv, InitializeInv,
     CommitInv, RollbackInv, CreatedInv, RulesChangeInv DEF EventsNext

\* A step adds nothing to a past that no open transaction was stamped in.
LEMMA PastStays ==
    ASSUME EventsInv, [EventsNext]_eventVars, NEW at \in 0..hour - 1,
           \A s \in Open : transaction[s].at > at, NEW t \in Table
    PROVE  Before(table'[t], at) = Before(table[t], at)
<1>1. hour \in Nat /\ RowsTyped(table)
  BY DEF EventsInv, RowsAreSound
<1>2. CASE table' = table
  BY <1>2
<1>3. ASSUME NEW s \in Session, Commit(s) PROVE Before(table'[t], at) = Before(table[t], at)
  <2>1. s \in Open /\ table'[t] = table[t] \union transaction[s].rows[t]
    BY <1>3 DEF Commit, Open
  <2>2. \A r \in transaction[s].rows[t] : r.at = transaction[s].at
    BY <2>1 DEF EventsInv, PendingIsSound
  <2>3. transaction[s].at > at /\ transaction[s].at \in 0..hour
    BY <2>1 DEF EventsInv, PendingIsSound
  <2>4. \A r \in transaction[s].rows[t] : ~(r.at <= at)
    BY <1>1, <2>2, <2>3
  <2>5. QED
    BY <2>1, <2>4 DEF Before
<1>4. ASSUME NEW key \in worklist, SyncCreates(key) PROVE Before(table'[t], at) = Before(table[t], at)
  <2> DEFINE new == Stamped({key} \ KeysIn(table), hour)
  <2>1. table'[t] = table[t] \union (IF t = "candidate" THEN new ELSE {})
    BY <1>1, <1>4 DEF SyncCreates, RowsTyped
  <2>2. \A r \in new : r.at = hour
    BY DEF Stamped
  <2> HIDE DEF new
  <2>3. ~(hour <= at)
    BY <1>1
  <2>4. QED
    BY <2>1, <2>2, <2>3 DEF Before
<1>5. QED
  BY <1>2, <1>3, <1>4 DEF EventsNext, eventVars, AppendDefinition, PersistRevision,
     AppendEvidenceReview, InitializeEvent, Begin, Rollback, SyncReads, SyncStops, RulesChange,
     HourPasses

\* What is shown of an event at a time is read from the rows before it.
LEMMA ShownIsPast ==
    ASSUME NEW rows, NEW more, NEW at,
           \A t \in Table : Before(more[t], at) = Before(rows[t], at)
    PROVE  EventAt(more, at) = EventAt(rows, at)
<1>1. /\ Before(DefinitionsIn(more), at) = Before(DefinitionsIn(rows), at)
      /\ Before(more["link"], at) = Before(rows["link"], at)
      /\ Before(more["candidate"], at) = Before(rows["candidate"], at)
      /\ Before(more["review"], at) = Before(rows["review"], at)
      /\ Before(more["revision"], at) = Before(rows["revision"], at)
  BY DEF DefinitionsIn, Table
<1>2. DefinitionAt(more, at) = DefinitionAt(rows, at)
  BY <1>1 DEF DefinitionAt
<1>3. ASSUME NEW i PROVE VisibleAt(more, i, at) = VisibleAt(rows, i, at)
  <2>1. Before(RevisionsOf(more, i), at) = Before(RevisionsOf(rows, i), at)
    BY <1>1 DEF Before, RevisionsOf
  <2>2. QED
    BY <2>1 DEF VisibleAt
<1>4. \A d, i : StatusAt(more, d, i, at) = StatusAt(rows, d, i, at)
  BY <1>1, <1>3 DEF StatusAt
<1>5. \A t \in {"definition", "candidate", "review"} : Before(more[t], at) = Before(rows[t], at)
  BY DEF Table
<1>6. {Before(more[t], at) : t \in {"definition", "candidate", "review"}}
        = {Before(rows[t], at) : t \in {"definition", "candidate", "review"}}
  BY <1>5
<1>7. [i \in Item |-> {StatusAt(more, d, i, at) : d \in DefinitionAt(more, at)}]
        = [i \in Item |-> {StatusAt(rows, d, i, at) : d \in DefinitionAt(rows, at)}]
  BY <1>2, <1>4
<1>8. QED
  BY <1>1, <1>2, <1>6, <1>7 DEF EventAt

\* A review that becomes visible is one that a commit adds.
LEMMA ReviewsAreAdded ==
    ASSUME EventsInv, [EventsNext]_eventVars, NEW r \in table'["review"], r \notin table["review"]
    PROVE  /\ r.definition = Newest(DefinitionsIn(table)).version
           /\ r.revision = Newest(RevisionsOf(table, r.item)).version
           /\ r.target # NoContract => ContractMatches(r.target)
<1>1. CASE table' = table
  BY <1>1
<1>2. ASSUME NEW s \in Session, Commit(s)
      PROVE  \E u \in Open : r \in transaction[u].rows["review"]
  <2>1. s \in Open /\ table'["review"] = table["review"] \union transaction[s].rows["review"]
    BY <1>2 DEF Commit, Open, Table
  <2>2. QED
    BY <2>1
<1>3. ASSUME NEW key \in worklist, SyncCreates(key) PROVE FALSE
  <2>1. table'["review"] = table["review"]
    BY <1>3 DEF SyncCreates, EventsInv, RowsAreSound, RowsTyped, Table
  <2>2. QED
    BY <2>1
<1>4. \E u \in Open : r \in transaction[u].rows["review"]
  BY <1>1, <1>2, <1>3 DEF EventsNext, eventVars, AppendDefinition, PersistRevision,
     AppendEvidenceReview, InitializeEvent, Begin, Rollback, SyncReads, SyncStops, RulesChange,
     HourPasses
<1>5. QED
  BY <1>4 DEF EventsInv, PendingIsSound, ReviewIsCurrent

LEMMA EventsAreOK == EventsInv => EventsOK
<1> SUFFICES ASSUME EventsInv PROVE EventsOK
  OBVIOUS
<1>1. RowsAreSound(table) /\ \A t \in Table : \A r \in table[t] : r.at <= hour
  BY DEF EventsInv
<1>2. QED
  BY <1>1, RowsAreKeyed DEF EventsOK, RowsAreSound, Counted

\* The record of an event is sound for any number of sessions, items, contracts and
\* versions: numbers and keys are unique, what a past time shows does not change, and
\* reviews become visible while what they were checked against still holds
\* (research/events.py).
THEOREM EventsStaySound == EventsSpec => EventsAreSound
<1>1. EventsInv /\ [EventsNext]_eventVars =>
        [\A at \in 0..hour - 1 :
           (\A s \in Open : transaction[s].at > at) => EventAt(table', at) = EventAt(table, at)]_eventVars
  <2> SUFFICES ASSUME EventsInv, [EventsNext]_eventVars, NEW at \in 0..hour - 1,
                      \A s \in Open : transaction[s].at > at
               PROVE  EventAt(table', at) = EventAt(table, at)
    OBVIOUS
  <2>1. \A t \in Table : Before(table'[t], at) = Before(table[t], at)
    BY PastStays
  <2>2. QED
    BY <2>1, ShownIsPast
<1>2. EventsInv /\ [EventsNext]_eventVars =>
        [\A r \in table["review"]' \ table["review"] :
           /\ r.definition = Newest(DefinitionsIn(table)).version
           /\ r.revision = Newest(RevisionsOf(table, r.item)).version
           /\ r.target # NoContract => ContractMatches(r.target)]_eventVars
  BY ReviewsAreAdded
<1>3. QED
  BY <1>1, <1>2, EventsInitially, EventsStep, EventsAreOK, PTL
  DEF EventsSpec, EventsAreSound, HistoryIsStable, ReviewsAreOfCurrentVersions

----------------------------------------------------------------------------
(* Alerts.  What a cursor must say of the alerts of its rule and market is *)
(* stated of any rows, because it holds twice: of the committed rows, with *)
(* the observations ingested, and of the rows as the open transaction will *)
(* leave them, with the observations of its batch.                         *)

Directions == {"UP", "DOWN", "EITHER"}
Reading == [market : WatchedMarket, at : Nat, value : Moves \cup {NoValue}]
ListItem == [market : WatchedMarket, added : Nat]
ListRow == [archived : BOOLEAN, items : Seq(ListItem)]
RuleRow == [list : Watchlist \cup {NoWork}, enabled : BOOLEAN, revision : Nat, effective : Nat,
            direction : Directions]
Statuses == {"WAITING", "INELIGIBLE", "ARMED", "LATCHED", "COOLDOWN", "TRIGGERED"}
CheckPoint == [revision : Nat, armed : BOOLEAN, seen : Nat, triggered : Nat, status : Statuses]
Alarm == [rule : AlertRule, market : WatchedMarket, revision : Nat, at : Nat, by : ObservedBy,
          direction : Directions]

\* When a market was added to the list of a rule: at most one time.
AddedAt(L, rule, m) ==
    {t \in Nat : /\ rule.list \in Watchlist
                 /\ \E p \in DOMAIN L[rule.list].items :
                      L[rule.list].items[p] = [market |-> m, added |-> t]}

AlarmsOf(A, r, m) == {a \in A : a.rule = r /\ a.market = m}

\* The observations of a market among the first n of each collector.
ReadUpTo(O, n, m) ==
    {o \in Reading : o.market = m /\ \E c \in ObservedBy : \E p \in 1..n[c] : O[c][p] = o}

Since(T, a) == \E t \in T : a.at > t

\* The value was eligible and below the threshold between two times.
Between(K, low, high, d) ==
    \E o \in K : low < o.at /\ o.at < high /\ o.value # NoValue /\ ~Matches(d, o.value)

\* A cursor is of a market on the list, and of an observation.
CursorSound(T, rule, c, K) ==
    /\ T = {} => c = NoCursor
    /\ c.revision <= rule.revision /\ c.triggered <= c.seen
    /\ c.seen = 0 \/ \E o \in K : o.at = c.seen

\* No alert since the market was added is later than the cursor's last; the cursor is
\* armed under the revision of one only after the value was below the threshold again.
CursorCovers(T, c, F, K) ==
    \A a \in F : Since(T, a) =>
        /\ a.at <= c.triggered /\ a.revision <= c.revision
        /\ a.revision = c.revision /\ c.armed => Between(K, a.at, c.seen + 1, a.direction)

\* A cursor that says TRIGGERED of the present revision has an alert of it.
ShownSound(T, rule, c, F) ==
    c.status = "TRIGGERED" /\ c.revision = rule.revision =>
        \E a \in F : a.revision = rule.revision /\ a.at >= rule.effective /\ \E t \in T : a.at >= t

AlarmsSound(rule, F, K) ==
    \A a \in F : /\ rule.list \in Watchlist /\ a.revision <= rule.revision
                 /\ a.revision = rule.revision => a.direction = rule.direction
                 /\ \E o \in K : o.at = a.at

Spaced(T, F, K) ==
    \A a, b \in F : Since(T, a) /\ Since(T, b) /\ a # b /\ a.at <= b.at =>
        /\ a.at < b.at /\ b.at - a.at >= Cooldown
        /\ a.revision = b.revision => Between(K, a.at, b.at, a.direction)

\* A rule on a market added at the times T, its cursor, its alerts and the
\* observations of the market agree.
KeySound(T, rule, c, F, K) ==
    /\ CursorSound(T, rule, c, K) /\ CursorCovers(T, c, F, K) /\ ShownSound(T, rule, c, F)
    /\ AlarmsSound(rule, F, K) /\ Spaced(T, F, K)

RowsSound(L, R, C, A, K) ==
    \A r \in AlertRule, m \in WatchedMarket :
        KeySound(AddedAt(L, R[r], m), R[r], C[<<r, m>>], AlarmsOf(A, r, m), K[m])

\* What a member's request may do to the rule, the cursor and the added times of a key.
KeyMoves(T, rule, c, T2, rule2, c2, time) ==
    \/ T2 = T /\ c2 = c /\ rule2 = [rule EXCEPT !.enabled = rule2.enabled]
    \/ T = {} /\ rule2 = rule /\ c2 = c /\ \A t \in T2 : t = time
    \/ T2 = {} /\ rule2 = rule /\ c2 = NoCursor
    \/ /\ c2 = c /\ rule2.revision = rule.revision + 1 /\ rule2.list \in Watchlist
       /\ (rule = NoRule /\ T = {}) \/ T2 = T

----------------------------------------------------------------------------

LEMMA CursorTypes == NoCursor \in CheckPoint /\ NoRule \in RuleRow
BY DEF NoCursor, CheckPoint, Statuses, NoRule, RuleRow, Directions

\* More observations do not make a key unsound.
LEMMA MoreReadings ==
    ASSUME NEW T, NEW rule, NEW c, NEW F, NEW K, NEW K2, K \subseteq K2, KeySound(T, rule, c, F, K)
    PROVE  KeySound(T, rule, c, F, K2)
<1>1. \A low, high, d : Between(K, low, high, d) => Between(K2, low, high, d)
  BY DEF Between
<1>2. CursorSound(T, rule, c, K2)
  BY DEF KeySound, CursorSound
<1>3. CursorCovers(T, c, F, K2)
  BY <1>1 DEF KeySound, CursorCovers
<1>4. AlarmsSound(rule, F, K2)
  BY DEF KeySound, AlarmsSound
<1>5. Spaced(T, F, K2)
  BY <1>1 DEF KeySound, Spaced
<1>6. QED
  BY <1>2, <1>3, <1>4, <1>5 DEF KeySound

LEMMA KeyKeeps ==
    ASSUME NEW T \in SUBSET Nat, NEW rule \in RuleRow, NEW c \in CheckPoint,
           NEW T2 \in SUBSET Nat, NEW rule2 \in RuleRow, NEW c2 \in CheckPoint,
           NEW F \in SUBSET Alarm, NEW K \in SUBSET Reading, NEW time \in Nat,
           \A o \in K : o.at <= time,
           KeyMoves(T, rule, c, T2, rule2, c2, time), KeySound(T, rule, c, F, K)
    PROVE  KeySound(T2, rule2, c2, F, K)
<1>1. CASE T2 = T /\ c2 = c /\ rule2 = [rule EXCEPT !.enabled = rule2.enabled]
  <2>1. /\ rule2.revision = rule.revision /\ rule2.list = rule.list
        /\ rule2.effective = rule.effective /\ rule2.direction = rule.direction
    BY <1>1 DEF RuleRow
  <2>2. CursorSound(T2, rule2, c2, K) /\ CursorCovers(T2, c2, F, K) /\ Spaced(T2, F, K)
    BY <1>1, <2>1 DEF KeySound, CursorSound
  <2>3. ShownSound(T2, rule2, c2, F) /\ AlarmsSound(rule2, F, K)
    BY <1>1, <2>1 DEF KeySound, ShownSound, AlarmsSound
  <2>4. QED
    BY <2>2, <2>3 DEF KeySound
<1>2. CASE T = {} /\ rule2 = rule /\ c2 = c /\ \A t \in T2 : t = time
  <2>1. c2 = NoCursor
    BY <1>2 DEF KeySound, CursorSound
  <2>2. \A a \in F : ~Since(T2, a)
    <3> SUFFICES ASSUME NEW a \in F PROVE ~Since(T2, a)
      OBVIOUS
    <3>1. PICK o \in K : o.at = a.at
      BY DEF KeySound, AlarmsSound
    <3>2. a.at <= time /\ a.at \in Nat
      BY <3>1 DEF Alarm
    <3>3. QED
      BY <1>2, <3>2 DEF Since
  <2>3. CursorSound(T2, rule2, c2, K)
    BY <1>2, <2>1 DEF KeySound, CursorSound
  <2>4. CursorCovers(T2, c2, F, K) /\ Spaced(T2, F, K)
    BY <2>2 DEF CursorCovers, Spaced
  <2>5. ShownSound(T2, rule2, c2, F)
    BY <2>1 DEF ShownSound, NoCursor
  <2>6. AlarmsSound(rule2, F, K)
    BY <1>2 DEF KeySound
  <2>7. QED
    BY <2>3, <2>4, <2>5, <2>6 DEF KeySound
<1>3. CASE T2 = {} /\ rule2 = rule /\ c2 = NoCursor
  <2>1. CursorSound(T2, rule2, c2, K)
    BY <1>3 DEF CursorSound, NoCursor, RuleRow
  <2>2. CursorCovers(T2, c2, F, K) /\ Spaced(T2, F, K)
    BY <1>3 DEF CursorCovers, Spaced, Since
  <2>3. ShownSound(T2, rule2, c2, F)
    BY <1>3 DEF ShownSound, NoCursor
  <2>4. AlarmsSound(rule2, F, K)
    BY <1>3 DEF KeySound
  <2>5. QED
    BY <2>1, <2>2, <2>3, <2>4 DEF KeySound
<1>4. CASE /\ c2 = c /\ rule2.revision = rule.revision + 1 /\ rule2.list \in Watchlist
           /\ (rule = NoRule /\ T = {}) \/ T2 = T
  <2>0. /\ rule.revision \in Nat /\ c.revision \in Nat /\ c.revision <= rule.revision
        /\ \A a \in F : a.revision \in Nat
    BY DEF KeySound, CursorSound, RuleRow, CheckPoint, Alarm
  <2>1. rule = NoRule => F = {}
    BY AlertsAssumption DEF KeySound, AlarmsSound, NoRule
  <2>2. rule = NoRule /\ T = {} => c = NoCursor
    BY DEF KeySound, CursorSound
  <2>3. AlarmsSound(rule2, F, K)
    BY <1>4, <2>0 DEF KeySound, AlarmsSound
  <2>4. ShownSound(T2, rule2, c2, F)
    BY <1>4, <2>0 DEF ShownSound
  <2>5. CASE T2 = T
    <3>1. CursorSound(T2, rule2, c2, K)
      BY <1>4, <2>0, <2>5 DEF KeySound, CursorSound
    <3>2. QED
      BY <1>4, <2>3, <2>4, <2>5, <3>1 DEF KeySound
  <2>6. CASE rule = NoRule /\ T = {}
    <3>1. CursorSound(T2, rule2, c2, K)
      BY <1>4, <2>0, <2>2, <2>6 DEF CursorSound, NoCursor
    <3>2. CursorCovers(T2, c2, F, K) /\ Spaced(T2, F, K)
      BY <2>1, <2>6 DEF CursorCovers, Spaced
    <3>3. QED
      BY <2>3, <2>4, <3>1, <3>2 DEF KeySound
  <2>7. QED
    BY <1>4, <2>5, <2>6
<1>5. QED
  BY <1>1, <1>2, <1>3, <1>4 DEF KeyMoves

\* Evaluating an observation later than what the cursor has seen keeps the key sound,
\* with the alert it raises.
LEMMA EvaluationKeeps ==
    ASSUME NEW T \in SUBSET Nat, NEW rule \in RuleRow, NEW c0 \in CheckPoint,
           NEW F \in SUBSET Alarm, NEW K \in SUBSET Reading, NEW o \in K, NEW alarm \in Alarm,
           NEW t \in T, rule.list \in Watchlist, o.at >= rule.effective, o.at >= t,
           o.at > c0.seen, KeySound(T, rule, c0, F, K),
           alarm.at = o.at, alarm.revision = rule.revision, alarm.direction = rule.direction,
           NEW c, c = Current(c0, rule.revision),
           NEW status, status = Outcome(c, rule, o),
           NEW F2, F2 = IF status = "TRIGGERED" THEN F \cup {alarm} ELSE F
    PROVE  /\ Evaluated(c, status, o) \in CheckPoint
           /\ KeySound(T, rule, Evaluated(c, status, o), F2, K)
<1> DEFINE c2 == Evaluated(c, status, o)
<1>1. /\ rule.revision \in Nat /\ c0.revision \in Nat /\ c0.seen \in Nat /\ c0.triggered \in Nat
      /\ o.at \in Nat /\ c0.armed \in BOOLEAN /\ c0.status \in Statuses
      /\ \A a \in F : a.at \in Nat /\ a.revision \in Nat
  BY DEF RuleRow, CheckPoint, Reading, Alarm
<1>2. /\ c \in CheckPoint /\ c.revision = rule.revision /\ c.seen = c0.seen
      /\ c.triggered = c0.triggered
      /\ c.armed <=> (c0.armed \/ c0.revision # rule.revision)
  BY DEF Current, CheckPoint, RuleRow
<1>3. status \in {"INELIGIBLE", "ARMED", "LATCHED", "COOLDOWN", "TRIGGERED"}
  BY DEF Outcome
<1>4. status \in Statuses
  BY <1>3 DEF Statuses
<1>5. /\ c2.revision = rule.revision /\ c2.seen = o.at /\ c2.status = status
      /\ status = "TRIGGERED" => c2.triggered = o.at /\ ~c2.armed
      /\ status = "ARMED" => c2.triggered = c0.triggered /\ c2.armed
      /\ status \notin {"ARMED", "TRIGGERED"} => c2.triggered = c0.triggered /\ (c2.armed <=> c.armed)
  BY <1>2 DEF Evaluated, CheckPoint
<1>6. c2 \in CheckPoint
  BY <1>1, <1>2, <1>4 DEF Evaluated, CheckPoint
<1> HIDE DEF c2
<1>7. /\ c0.revision <= rule.revision /\ c0.triggered <= c0.seen
      /\ c0.triggered <= o.at /\ c0.seen < o.at
  BY <1>1 DEF KeySound, CursorSound
<1>8. CursorSound(T, rule, c2, K)
  <2>1. c2.revision <= rule.revision /\ c2.triggered <= c2.seen
    BY <1>1, <1>3, <1>5, <1>7
  <2>2. QED
    BY <1>5, <2>1 DEF CursorSound
\* The alerts there were: what the old cursor says of them.
<1>9. ASSUME NEW a \in F, Since(T, a)
      PROVE  /\ a.at <= c0.triggered /\ a.at < o.at /\ a.revision <= c0.revision
             /\ 0 < c0.triggered
             /\ a.revision = c0.revision /\ c0.armed =>
                  \A high \in Nat : high >= o.at => Between(K, a.at, high, a.direction)
  <2>1. /\ a.at <= c0.triggered /\ a.revision <= c0.revision
        /\ a.revision = c0.revision /\ c0.armed => Between(K, a.at, c0.seen + 1, a.direction)
    BY <1>9 DEF KeySound, CursorCovers
  <2>2. 0 < a.at
    BY <1>1, <1>9 DEF Since
  <2>3. a.at < o.at /\ 0 < c0.triggered
    BY <1>1, <1>7, <2>1, <2>2
  <2>4. ASSUME Between(K, a.at, c0.seen + 1, a.direction), NEW high \in Nat, high >= o.at
        PROVE  Between(K, a.at, high, a.direction)
    <3>1. PICK q \in K : a.at < q.at /\ q.at < c0.seen + 1 /\ q.value # NoValue
                         /\ ~Matches(a.direction, q.value)
      BY <2>4 DEF Between
    <3>2. q.at < high
      BY <1>1, <1>7, <2>4, <3>1 DEF Reading
    <3>3. QED
      BY <3>1, <3>2 DEF Between
  <2>5. QED
    BY <2>1, <2>3, <2>4
<1>11. CursorCovers(T, c2, F2, K)
  <2> SUFFICES ASSUME NEW a \in F2, Since(T, a)
               PROVE  /\ a.at <= c2.triggered /\ a.revision <= c2.revision
                      /\ a.revision = c2.revision /\ c2.armed =>
                           Between(K, a.at, c2.seen + 1, a.direction)
    BY DEF CursorCovers
  <2>1. CASE a \in F
    <3>1. a.at <= c2.triggered /\ a.revision <= c2.revision
      BY <1>1, <1>3, <1>5, <1>7, <1>9, <2>1
    <3>2. ASSUME a.revision = c2.revision, c2.armed
          PROVE  Between(K, a.at, c2.seen + 1, a.direction)
      <4>1. a.revision = rule.revision /\ a.revision = c0.revision
        BY <1>1, <1>5, <1>7, <1>9, <2>1, <3>2
      <4>2. CASE status = "ARMED"
        <5>1. a.direction = rule.direction
          BY <2>1, <4>1 DEF KeySound, AlarmsSound
        <5>2. o.value # NoValue /\ ~Matches(rule.direction, o.value)
          BY <4>2 DEF Outcome
        <5>3. a.at < o.at /\ o.at < c2.seen + 1
          BY <1>1, <1>5, <1>9, <2>1
        <5>4. QED
          BY <5>1, <5>2, <5>3 DEF Between
      <4>3. CASE status # "ARMED"
        <5>1. status # "TRIGGERED" /\ c.armed
          BY <1>3, <1>5, <3>2, <4>3
        <5>2. c0.armed
          BY <1>2, <4>1, <5>1
        <5>3. o.at + 1 \in Nat /\ o.at + 1 >= o.at
          BY <1>1
        <5>4. QED
          BY <1>5, <1>9, <2>1, <4>1, <5>2, <5>3
      <4>4. QED
        BY <4>2, <4>3
    <3>3. QED
      BY <3>1, <3>2
  <2>2. CASE a \notin F
    <3>1. a = alarm /\ status = "TRIGGERED"
      BY <2>2
    <3>2. QED
      BY <1>1, <1>5, <3>1
  <2>3. QED
    BY <2>1, <2>2
<1>12. ShownSound(T, rule, c2, F2)
  <2> SUFFICES ASSUME status = "TRIGGERED"
               PROVE  \E a \in F2 : a.revision = rule.revision /\ a.at >= rule.effective
                                    /\ \E s \in T : a.at >= s
    BY <1>5 DEF ShownSound
  <2>1. alarm \in F2
    OBVIOUS
  <2>2. QED
    BY <2>1
<1>13. AlarmsSound(rule, F2, K)
  <2>1. AlarmsSound(rule, F, K)
    BY DEF KeySound
  <2>2. rule.revision <= rule.revision
    BY <1>1
  <2>3. QED
    BY <2>1, <2>2 DEF AlarmsSound
<1>14. Spaced(T, F2, K)
  <2>1. CASE status # "TRIGGERED"
    BY <2>1 DEF KeySound
  <2>2. CASE status = "TRIGGERED"
    <3>1. c.armed /\ (c0.triggered = 0 \/ o.at - c0.triggered >= Cooldown)
      <4>1. c.armed /\ ~(c.triggered > 0 /\ o.at - c.triggered < Cooldown)
        BY <2>2 DEF Outcome
      <4>2. c.triggered = c0.triggered
        BY <1>2
      <4>3. QED
        BY <1>1, <4>1, <4>2, AlertsAssumption
    <3>2. ASSUME NEW a \in F, Since(T, a)
          PROVE  /\ a.at < alarm.at /\ alarm.at - a.at >= Cooldown
                 /\ a.revision = alarm.revision => Between(K, a.at, alarm.at, a.direction)
      <4>1. a.at < alarm.at
        BY <1>9, <3>2
      <4>2. alarm.at - a.at >= Cooldown
        BY <1>1, <1>9, <3>1, <3>2, AlertsAssumption
      <4>3. ASSUME a.revision = alarm.revision
            PROVE  Between(K, a.at, alarm.at, a.direction)
        <5>1. a.revision = c0.revision /\ c0.revision = rule.revision
          BY <1>1, <1>7, <1>9, <3>2, <4>3
        <5>2. c0.armed
          BY <1>2, <3>1, <5>1
        <5>3. QED
          BY <1>1, <1>9, <3>2, <5>1, <5>2
      <4>4. QED
        BY <4>1, <4>2, <4>3
    <3> SUFFICES ASSUME NEW a \in F2, NEW b \in F2, Since(T, a), Since(T, b), a # b, a.at <= b.at
                 PROVE  /\ a.at < b.at /\ b.at - a.at >= Cooldown
                        /\ a.revision = b.revision => Between(K, a.at, b.at, a.direction)
      BY DEF Spaced
    <3>3. CASE a \in F /\ b \in F
      BY <3>3 DEF KeySound, Spaced
    <3>4. CASE a \in F /\ b = alarm
      BY <3>2, <3>4
    <3>5. CASE a = alarm /\ b \in F
      <4>1. b.at < a.at /\ b.at \in Nat /\ a.at \in Nat
        BY <1>1, <3>2, <3>5
      <4>2. QED
        BY <4>1
    <3>6. QED
      BY <3>3, <3>4, <3>5
  <2>3. QED
    BY <2>1, <2>2
<1>15. QED
  BY <1>6, <1>8, <1>11, <1>12, <1>13, <1>14 DEF KeySound, c2


----------------------------------------------------------------------------

AlertRowsTyped ==
    /\ lists \in [Watchlist -> ListRow] /\ rules \in [AlertRule -> RuleRow]
    /\ cursors \in [CursorKey -> CheckPoint] /\ alerts \in SUBSET Alarm
    /\ observed \in [ObservedBy -> Seq(Reading)] /\ ingested \in [ObservedBy -> Nat]
    /\ clock \in 0..MaxObserved /\ requests \in 0..MaxRequests /\ rollbacks \in 0..MaxRollbacks

\* A list holds a market once, since a time that has come.
ListsKeyed ==
    \A l \in Watchlist :
        /\ Len(lists[l].items) <= MaxItems
        /\ \A p, q \in DOMAIN lists[l].items :
             lists[l].items[p].market = lists[l].items[q].market => p = q

RulesKept ==
    \A r \in AlertRule :
        /\ rules[r].revision <= MaxRevisions
        /\ rules[r].enabled => rules[r].list \in Watchlist

ReadingsKept ==
    \A c \in ObservedBy :
        /\ ingested[c] <= Len(observed[c])
        /\ \A p \in DOMAIN observed[c] : observed[c][p].at <= clock

CommittedReads == [m \in WatchedMarket |-> ReadUpTo(observed, ingested, m)]

\* The rows as the open transaction will leave them.
OpenCursors == [k \in CursorKey |-> CursorRow(k)]
OpenAlerts == alerts \cup work.alerts
OpenIngested == [ingested EXCEPT ![work.by] = @ + work.size]
OpenReads == [m \in WatchedMarket |-> ReadUpTo(observed, OpenIngested, m)]

\* The rule of an alert is as it was raised under.
RaisedUnder(a) ==
    LET rule == rules[a.rule] IN
    /\ rule.enabled /\ Active(rule.list) /\ a.revision = rule.revision
    /\ \E i \in ItemsOf(rule.list, a.market) : a.at >= Later(rule.effective, i.added)

\* What the open transaction wrote is of lists it has locked, and of its batch.
WorkSound ==
    /\ work = [by |-> work.by, size |-> work.size, rows |-> work.rows, left |-> work.left,
               locked |-> work.locked, saved |-> work.saved, alerts |-> work.alerts]
    /\ work.by \in ObservedBy /\ work.size \in Nat
    /\ ingested[work.by] + work.size <= Len(observed[work.by])
    /\ work.rows \in Seq(Reading) /\ work.rows # <<>>
    /\ \A p \in DOMAIN work.rows : work.rows[p] \in OpenReads[work.rows[p].market]
    /\ work.left \in SUBSET AlertRule
    /\ \A k \in DOMAIN work.saved :
         /\ k \in CursorKey /\ work.saved[k] \in CheckPoint
         /\ rules[k[1]].list \in Watchlist /\ rules[k[1]].list \in work.locked
    /\ work.alerts \in SUBSET Alarm
    /\ \A a \in work.alerts :
         /\ rules[a.rule].list \in Watchlist /\ rules[a.rule].list \in work.locked
         /\ RaisedUnder(a)

CommittedSound == RowsSound(lists, rules, cursors, alerts, CommittedReads)
OpenSound == RowsSound(lists, rules, OpenCursors, OpenAlerts, OpenReads)

AlertRows == AlertRowsTyped /\ ListsKeyed /\ RulesKept /\ ReadingsKept
AlertsInv ==
    /\ AlertRows /\ CommittedSound
    /\ work # NoWork => WorkSound /\ OpenSound

----------------------------------------------------------------------------

LEMMA FirstOrders ==
    ASSUME NEW order \in SetToSeqs({[market |-> m, added |-> 0] : m \in FirstMarkets})
    PROVE  /\ order \in Seq(ListItem) /\ Len(order) <= MaxItems
           /\ \A p, q \in DOMAIN order : order[p].market = order[q].market => p = q
<1> DEFINE S == {[market |-> m, added |-> 0] : m \in FirstMarkets}
           n == Cardinality(S)
           f == [m \in FirstMarkets |-> [market |-> m, added |-> 0]]
<1>1. IsFiniteSet(S) /\ Cardinality(S) <= Cardinality(FirstMarkets)
  <2>1. f \in Surjection(FirstMarkets, S)
    BY DEF Surjection
  <2>2. QED
    BY <2>1, FS_Surjection, AlertsAssumption
<1>2. n \in Nat /\ n <= MaxItems
  <2>1. Cardinality(S) \in Nat /\ Cardinality(FirstMarkets) \in Nat
    BY <1>1, FS_CardinalityType, AlertsAssumption
  <2>2. QED
    BY <1>1, <2>1, AlertsAssumption
<1>3. order \in [1..n -> S] /\ \A p, q \in 1..n : p # q => order[p] # order[q]
  BY DEF SetToSeqs
<1>4. S \subseteq ListItem /\ \A x, y \in S : x.market = y.market => x = y
  BY AlertsAssumption DEF ListItem
<1> HIDE DEF n, S
<1>5. order \in [1..n -> ListItem]
  BY <1>3, <1>4
<1>6. order \in Seq(ListItem) /\ Len(order) = n /\ DOMAIN order = 1..n
  BY <1>2, <1>5
<1>7. ASSUME NEW p \in DOMAIN order, NEW q \in DOMAIN order, order[p].market = order[q].market
      PROVE  p = q
  <2>1. order[p] \in S /\ order[q] \in S
    BY <1>3, <1>6, <1>7
  <2>2. order[p] = order[q]
    BY <1>4, <1>7, <2>1
  <2>3. QED
    BY <1>3, <1>6, <1>7, <2>2
<1>8. QED
  BY <1>2, <1>6, <1>7

LEMMA AlertsInitially == AlertsInit => AlertsInv
<1> SUFFICES ASSUME AlertsInit PROVE AlertsInv
  OBVIOUS
<1>1. PICK order \in SetToSeqs({[market |-> m, added |-> 0] : m \in FirstMarkets}) :
        lists = [l \in Watchlist |-> [archived |-> FALSE, items |-> order]]
  BY DEF AlertsInit
<1>2. lists \in [Watchlist -> ListRow] /\ ListsKeyed
  BY <1>1, FirstOrders DEF ListRow, ListsKeyed
<1>3. AlertRowsTyped
  <2>1. observed \in [ObservedBy -> Seq(Reading)] /\ ingested \in [ObservedBy -> Nat]
    BY DEF AlertsInit
  <2>2. rules \in [AlertRule -> RuleRow] /\ cursors \in [CursorKey -> CheckPoint]
    BY CursorTypes DEF AlertsInit
  <2>3. /\ alerts \in SUBSET Alarm
        /\ clock \in 0..MaxObserved /\ requests \in 0..MaxRequests /\ rollbacks \in 0..MaxRollbacks
    BY AlertsAssumption DEF AlertsInit
  <2>4. QED
    BY <1>2, <2>1, <2>2, <2>3 DEF AlertRowsTyped
<1>4. RulesKept /\ ReadingsKept
  BY AlertsAssumption DEF AlertsInit, RulesKept, NoRule, ReadingsKept
<1>5. CommittedSound
  <2> SUFFICES ASSUME NEW r \in AlertRule, NEW m \in WatchedMarket
               PROVE  KeySound(AddedAt(lists, rules[r], m), rules[r], cursors[<<r, m>>],
                               AlarmsOf(alerts, r, m), CommittedReads[m])
    BY DEF CommittedSound, RowsSound
  <2>1. rules[r] = NoRule /\ cursors[<<r, m>>] = NoCursor /\ AlarmsOf(alerts, r, m) = {}
    BY DEF AlertsInit, CursorKey, AlarmsOf
  <2>2. CursorSound(AddedAt(lists, rules[r], m), rules[r], cursors[<<r, m>>], CommittedReads[m])
    BY <2>1 DEF CursorSound, NoCursor, NoRule
  <2>3. ShownSound(AddedAt(lists, rules[r], m), rules[r], cursors[<<r, m>>], AlarmsOf(alerts, r, m))
    BY <2>1 DEF ShownSound, NoCursor
  <2>4. QED
    BY <2>1, <2>2, <2>3 DEF KeySound, CursorCovers, AlarmsSound, Spaced
<1>6. QED
  BY <1>2, <1>3, <1>4, <1>5 DEF AlertsInv, AlertRows, AlertsInit


----------------------------------------------------------------------------

\* A request on list l leaves the rules and cursors of the others, and their items.
RowsMove(l, L, R, C, L2, R2, C2, time) ==
    /\ \A i \in Watchlist \ {l} : L2[i] = L[i]
    /\ \A r \in AlertRule : R[r].list \in Watchlist \ {l} => R2[r] = R[r]
    /\ \A r \in AlertRule, m \in WatchedMarket :
         IF R[r].list \in Watchlist \ {l} THEN C2[<<r, m>>] = C[<<r, m>>]
         ELSE KeyMoves(AddedAt(L, R[r], m), R[r], C[<<r, m>>],
                       AddedAt(L2, R2[r], m), R2[r], C2[<<r, m>>], time)

LEMMA RowsKeep ==
    ASSUME NEW l, NEW L, NEW R \in [AlertRule -> RuleRow], NEW C \in [CursorKey -> CheckPoint],
           NEW L2, NEW R2 \in [AlertRule -> RuleRow], NEW C2 \in [CursorKey -> CheckPoint],
           NEW A \in SUBSET Alarm, NEW K \in [WatchedMarket -> SUBSET Reading], NEW time \in Nat,
           \A m \in WatchedMarket : \A o \in K[m] : o.at <= time,
           RowsMove(l, L, R, C, L2, R2, C2, time), RowsSound(L, R, C, A, K)
    PROVE  RowsSound(L2, R2, C2, A, K)
<1> SUFFICES ASSUME NEW r \in AlertRule, NEW m \in WatchedMarket
             PROVE  KeySound(AddedAt(L2, R2[r], m), R2[r], C2[<<r, m>>], AlarmsOf(A, r, m), K[m])
  BY DEF RowsSound
<1>1. KeySound(AddedAt(L, R[r], m), R[r], C[<<r, m>>], AlarmsOf(A, r, m), K[m])
  BY DEF RowsSound
<1>2. /\ AddedAt(L, R[r], m) \in SUBSET Nat /\ AddedAt(L2, R2[r], m) \in SUBSET Nat
      /\ <<r, m>> \in CursorKey /\ AlarmsOf(A, r, m) \in SUBSET Alarm
  BY DEF AddedAt, CursorKey, AlarmsOf
<1>3. CASE R[r].list \in Watchlist \ {l}
  <2>1. R2[r] = R[r] /\ C2[<<r, m>>] = C[<<r, m>>] /\ L2[R[r].list] = L[R[r].list]
    BY <1>3 DEF RowsMove
  <2>2. AddedAt(L2, R2[r], m) = AddedAt(L, R[r], m)
    BY <2>1 DEF AddedAt
  <2>3. QED
    BY <1>1, <2>1, <2>2
<1>4. CASE R[r].list \notin Watchlist \ {l}
  <2>1. KeyMoves(AddedAt(L, R[r], m), R[r], C[<<r, m>>],
                 AddedAt(L2, R2[r], m), R2[r], C2[<<r, m>>], time)
    BY <1>4 DEF RowsMove
  <2>2. R[r] \in RuleRow /\ R2[r] \in RuleRow /\ C[<<r, m>>] \in CheckPoint /\ C2[<<r, m>>] \in CheckPoint
    BY <1>2
  <2>3. K[m] \in SUBSET Reading
    OBVIOUS
  <2>4. QED
    BY <1>1, <1>2, <2>1, <2>2, <2>3, KeyKeeps
<1>5. QED
  BY <1>3, <1>4

LEMMA ReadsAreKept ==
    ASSUME AlertRows
    PROVE  /\ CommittedReads \in [WatchedMarket -> SUBSET Reading]
           /\ OpenReads \in [WatchedMarket -> SUBSET Reading]
           /\ \A m \in WatchedMarket : \A o \in CommittedReads[m] : o.at <= clock
           /\ WorkSound => \A m \in WatchedMarket : \A o \in OpenReads[m] : o.at <= clock
           /\ WorkSound => \A c \in ObservedBy : OpenIngested[c] <= Len(observed[c])
           /\ WorkSound => \A m \in WatchedMarket : CommittedReads[m] \subseteq OpenReads[m]
<1>1. /\ CommittedReads \in [WatchedMarket -> SUBSET Reading]
      /\ OpenReads \in [WatchedMarket -> SUBSET Reading]
  BY DEF CommittedReads, OpenReads, ReadUpTo
<1>2. ASSUME NEW n, \A c \in ObservedBy : n[c] \in Nat /\ n[c] <= Len(observed[c]),
             NEW m \in WatchedMarket, NEW o \in ReadUpTo(observed, n, m)
      PROVE  o.at <= clock
  <2>1. PICK c \in ObservedBy : \E p \in 1..n[c] : observed[c][p] = o
    BY DEF ReadUpTo
  <2>2. PICK p \in 1..n[c] : observed[c][p] = o
    BY <2>1
  <2>3. p \in DOMAIN observed[c]
    BY <1>2 DEF AlertRows, AlertRowsTyped
  <2>4. QED
    BY <2>2, <2>3 DEF AlertRows, ReadingsKept
<1>3. \A m \in WatchedMarket : \A o \in CommittedReads[m] : o.at <= clock
  <2>1. \A c \in ObservedBy : ingested[c] \in Nat /\ ingested[c] <= Len(observed[c])
    BY DEF AlertRows, AlertRowsTyped, ReadingsKept
  <2>2. QED
    BY <1>2, <2>1 DEF CommittedReads
<1>4. ASSUME WorkSound
      PROVE  /\ \A m \in WatchedMarket : \A o \in OpenReads[m] : o.at <= clock
             /\ \A c \in ObservedBy : OpenIngested[c] <= Len(observed[c])
             /\ \A m \in WatchedMarket : CommittedReads[m] \subseteq OpenReads[m]
  <2>1. \A c \in ObservedBy : /\ OpenIngested[c] \in Nat /\ OpenIngested[c] <= Len(observed[c])
                              /\ ingested[c] \in Nat /\ ingested[c] <= OpenIngested[c]
    BY <1>4 DEF AlertRows, AlertRowsTyped, ReadingsKept, OpenIngested, WorkSound
  <2>2. \A m \in WatchedMarket : \A o \in OpenReads[m] : o.at <= clock
    BY <1>2, <2>1 DEF OpenReads
  <2>3. ASSUME NEW m \in WatchedMarket, NEW o \in ReadUpTo(observed, ingested, m)
        PROVE  o \in ReadUpTo(observed, OpenIngested, m)
    BY <2>1 DEF ReadUpTo
  <2>4. QED
    BY <2>1, <2>2, <2>3 DEF CommittedReads, OpenReads
<1>5. QED
  BY <1>1, <1>3, <1>4

LEMMA OpenTypes ==
    ASSUME AlertRows, WorkSound
    PROVE  OpenCursors \in [CursorKey -> CheckPoint] /\ OpenAlerts \in SUBSET Alarm
BY DEF AlertRows, AlertRowsTyped, WorkSound, OpenCursors, CursorRow, OpenAlerts

\* A request on a list the open transaction has not locked.
LEMMA RequestKeeps ==
    ASSUME AlertsInv, AlertRows', NEW l \in Watchlist, Unlocked(l),
           RowsMove(l, lists, rules, cursors, lists', rules', cursors', clock),
           UNCHANGED <<alerts, observed, ingested, work, clock>>
    PROVE  AlertsInv'
<1>1. AlertRows /\ CommittedSound /\ clock \in Nat
  BY AlertsAssumption DEF AlertsInv, AlertRows, AlertRowsTyped
<1>2. /\ rules \in [AlertRule -> RuleRow] /\ rules' \in [AlertRule -> RuleRow]
      /\ cursors \in [CursorKey -> CheckPoint] /\ cursors' \in [CursorKey -> CheckPoint]
      /\ alerts \in SUBSET Alarm
  BY DEF AlertsInv, AlertRows, AlertRowsTyped
<1>3. CommittedReads' = CommittedReads /\ OpenReads' = OpenReads /\ OpenAlerts' = OpenAlerts
  BY DEF CommittedReads, OpenReads, OpenAlerts, OpenIngested
<1>4. CommittedSound'
  <2>1. RowsSound(lists', rules', cursors', alerts, CommittedReads)
    BY <1>1, <1>2, ReadsAreKept, RowsKeep DEF CommittedSound
  <2>2. QED
    BY <1>3, <2>1 DEF CommittedSound
<1>5. ASSUME work # NoWork PROVE WorkSound' /\ OpenSound'
  <2>1. WorkSound /\ OpenSound /\ l \notin work.locked
    BY <1>5 DEF AlertsInv, Unlocked
  <2>2. \A r \in AlertRule : rules[r].list \in Watchlist /\ rules[r].list \in work.locked =>
          /\ rules'[r] = rules[r] /\ lists'[rules[r].list] = lists[rules[r].list]
          /\ \A m \in WatchedMarket : cursors'[<<r, m>>] = cursors[<<r, m>>]
    <3> SUFFICES ASSUME NEW r \in AlertRule, rules[r].list \in Watchlist, rules[r].list \in work.locked
                 PROVE  /\ rules'[r] = rules[r] /\ lists'[rules[r].list] = lists[rules[r].list]
                        /\ \A m \in WatchedMarket : cursors'[<<r, m>>] = cursors[<<r, m>>]
      OBVIOUS
    <3>1. rules[r].list \in Watchlist \ {l}
      BY <2>1
    <3>2. QED
      BY <3>1 DEF RowsMove
  <2>3. WorkSound'
    <3>1. \A k \in DOMAIN work.saved :
            /\ k \in CursorKey /\ work.saved[k] \in CheckPoint
            /\ rules'[k[1]].list \in Watchlist /\ rules'[k[1]].list \in work.locked
      BY <2>1, <2>2 DEF WorkSound, CursorKey
    <3>2. \A a \in work.alerts :
            /\ rules'[a.rule].list \in Watchlist /\ rules'[a.rule].list \in work.locked
            /\ RaisedUnder(a)'
      <4> SUFFICES ASSUME NEW a \in work.alerts
                   PROVE  /\ rules'[a.rule].list \in Watchlist /\ rules'[a.rule].list \in work.locked
                          /\ RaisedUnder(a)'
        OBVIOUS
      <4>1. /\ a.rule \in AlertRule /\ rules[a.rule].list \in Watchlist
            /\ rules[a.rule].list \in work.locked /\ RaisedUnder(a)
        BY <2>1 DEF WorkSound, Alarm
      <4>2. rules'[a.rule] = rules[a.rule] /\ lists'[rules[a.rule].list] = lists[rules[a.rule].list]
        BY <2>2, <4>1
      <4>3. QED
        BY <4>1, <4>2 DEF RaisedUnder, Active, ItemsOf
    <3>3. QED
      BY <1>3, <2>1, <3>1, <3>2 DEF WorkSound
  <2>4. \A k \in CursorKey : k \in DOMAIN work.saved => OpenCursors[k] = work.saved[k]
    BY DEF OpenCursors, CursorRow
  <2>5. \A k \in CursorKey : OpenCursors'[k] = IF k \in DOMAIN work.saved THEN work.saved[k] ELSE cursors'[k]
    BY DEF OpenCursors, CursorRow
  <2>6. RowsMove(l, lists, rules, OpenCursors, lists', rules', OpenCursors', clock)
    <3>1. /\ \A i \in Watchlist \ {l} : lists'[i] = lists[i]
          /\ \A r \in AlertRule : rules[r].list \in Watchlist \ {l} => rules'[r] = rules[r]
      BY DEF RowsMove
    <3>2. ASSUME NEW r \in AlertRule, NEW m \in WatchedMarket
          PROVE  IF rules[r].list \in Watchlist \ {l}
                 THEN OpenCursors'[<<r, m>>] = OpenCursors[<<r, m>>]
                 ELSE KeyMoves(AddedAt(lists, rules[r], m), rules[r], OpenCursors[<<r, m>>],
                               AddedAt(lists', rules'[r], m), rules'[r], OpenCursors'[<<r, m>>], clock)
      <4>1. <<r, m>> \in CursorKey
        BY DEF CursorKey
      <4>2. <<r, m>> \in DOMAIN work.saved => rules[r].list \in Watchlist \ {l}
        BY <2>1 DEF WorkSound
      <4>3. CASE rules[r].list \in Watchlist \ {l}
        <5>1. rules'[r] = rules[r] /\ cursors'[<<r, m>>] = cursors[<<r, m>>]
          BY <4>3 DEF RowsMove
        <5>2. OpenCursors[<<r, m>>] = IF <<r, m>> \in DOMAIN work.saved THEN work.saved[<<r, m>>] ELSE cursors[<<r, m>>]
          BY <4>1 DEF OpenCursors, CursorRow
        <5>3. QED
          BY <2>5, <4>1, <4>3, <5>1, <5>2
      <4>4. CASE rules[r].list \notin Watchlist \ {l}
        <5>1. OpenCursors[<<r, m>>] = cursors[<<r, m>>] /\ OpenCursors'[<<r, m>>] = cursors'[<<r, m>>]
          BY <2>5, <4>1, <4>2, <4>4 DEF OpenCursors, CursorRow
        <5>2. KeyMoves(AddedAt(lists, rules[r], m), rules[r], cursors[<<r, m>>],
                       AddedAt(lists', rules'[r], m), rules'[r], cursors'[<<r, m>>], clock)
          BY <4>4 DEF RowsMove
        <5>3. QED
          BY <4>4, <5>1, <5>2
      <4>5. QED
        BY <4>3, <4>4
    <3>3. QED
      BY <3>1, <3>2 DEF RowsMove
  <2>7. OpenCursors' \in [CursorKey -> CheckPoint]
    BY <1>2, <2>3 DEF OpenCursors, CursorRow, WorkSound
  <2>8. RowsSound(lists', rules', OpenCursors', OpenAlerts, OpenReads)
    <3>1. OpenCursors \in [CursorKey -> CheckPoint] /\ OpenAlerts \in SUBSET Alarm
      BY <1>1, <2>1, OpenTypes
    <3>2. /\ OpenReads \in [WatchedMarket -> SUBSET Reading]
          /\ \A m \in WatchedMarket : \A o \in OpenReads[m] : o.at <= clock
      BY <1>1, <2>1, ReadsAreKept
    <3>3. RowsSound(lists, rules, OpenCursors, OpenAlerts, OpenReads)
      BY <2>1 DEF OpenSound
    <3>4. QED
      BY <1>1, <1>2, <2>6, <2>7, <3>1, <3>2, <3>3, RowsKeep
  <2>9. QED
    BY <1>3, <2>3, <2>8 DEF OpenSound
<1>6. QED
  BY <1>4, <1>5 DEF AlertsInv


----------------------------------------------------------------------------

LEMMA ArchiveKeeps == ASSUME AlertsInv, NEW l \in Watchlist, ArchiveList(l) PROVE AlertsInv'
<1>1. /\ lists' = [lists EXCEPT ![l].archived = TRUE]
      /\ rules' = [r \in AlertRule |->
                     IF rules[r].list = l THEN [rules[r] EXCEPT !.enabled = FALSE] ELSE rules[r]]
      /\ requests < MaxRequests /\ requests' = requests + 1
      /\ UNCHANGED <<cursors, alerts, observed, ingested, work, clock, rollbacks>> /\ Unlocked(l)
  BY DEF ArchiveList, Request, GetList
<1>2. lists \in [Watchlist -> ListRow] /\ rules \in [AlertRule -> RuleRow]
  BY DEF AlertsInv, AlertRows, AlertRowsTyped
<1>3. /\ lists' \in [Watchlist -> ListRow]
      /\ \A i \in Watchlist : lists'[i].items = lists[i].items /\ (i # l => lists'[i] = lists[i])
  BY <1>1, <1>2 DEF ListRow
<1>4. /\ rules' \in [AlertRule -> RuleRow]
      /\ \A r \in AlertRule : /\ rules'[r] = [rules[r] EXCEPT !.enabled = rules'[r].enabled]
                              /\ rules'[r].list = rules[r].list /\ rules'[r].revision = rules[r].revision
                              /\ rules'[r].enabled => rules[r].enabled
                              /\ rules[r].list # l => rules'[r] = rules[r]
  BY <1>1, <1>2 DEF RuleRow
<1>5. AlertRows'
  <2>1. AlertRowsTyped'
    <3>1. requests' \in 0..MaxRequests
      BY <1>1, AlertsAssumption DEF AlertsInv, AlertRows, AlertRowsTyped
    <3>2. QED
      BY <1>1, <1>3, <1>4, <3>1 DEF AlertsInv, AlertRows, AlertRowsTyped
  <2>2. ListsKeyed' /\ RulesKept' /\ ReadingsKept'
    BY <1>1, <1>3, <1>4 DEF AlertsInv, AlertRows, ListsKeyed, RulesKept, ReadingsKept
  <2>3. QED
    BY <2>1, <2>2 DEF AlertRows
<1>6. RowsMove(l, lists, rules, cursors, lists', rules', cursors', clock)
  <2>1. ASSUME NEW r \in AlertRule, NEW m \in WatchedMarket
        PROVE  KeyMoves(AddedAt(lists, rules[r], m), rules[r], cursors[<<r, m>>],
                        AddedAt(lists', rules'[r], m), rules'[r], cursors'[<<r, m>>], clock)
    <3>1. AddedAt(lists', rules'[r], m) = AddedAt(lists, rules[r], m)
      BY <1>3, <1>4 DEF AddedAt
    <3>2. QED
      BY <1>1, <1>4, <3>1 DEF KeyMoves
  <2>2. QED
    BY <1>1, <1>3, <1>4, <2>1 DEF RowsMove
<1>7. QED
  BY <1>1, <1>5, <1>6, RequestKeeps

\* A request that replaces the items of a list, and the cursors of one market.
LEMMA ItemsMove ==
    ASSUME AlertsInv, NEW l \in Watchlist, Unlocked(l), NEW items \in Seq(ListItem),
           lists' = [lists EXCEPT ![l].items = items], Request,
           UNCHANGED <<rules, alerts, observed, ingested, work, clock, rollbacks>>,
           cursors' \in [CursorKey -> CheckPoint],
           Len(items) <= MaxItems,
           \A p, q \in DOMAIN items : items[p].market = items[q].market => p = q,
           \A r \in AlertRule, m \in WatchedMarket :
             rules[r].list # l => cursors'[<<r, m>>] = cursors[<<r, m>>],
           \A r \in AlertRule, m \in WatchedMarket :
             rules[r].list = l =>
               KeyMoves(AddedAt(lists, rules[r], m), rules[r], cursors[<<r, m>>],
                        AddedAt(lists', rules[r], m), rules[r], cursors'[<<r, m>>], clock)
    PROVE  AlertsInv'
<1>1. lists \in [Watchlist -> ListRow] /\ rules \in [AlertRule -> RuleRow]
  BY DEF AlertsInv, AlertRows, AlertRowsTyped
<1>2. /\ lists' \in [Watchlist -> ListRow] /\ lists'[l].items = items
      /\ \A i \in Watchlist \ {l} : lists'[i] = lists[i]
  BY <1>1 DEF ListRow
<1>3. AlertRows'
  <2>1. AlertRowsTyped'
    <3>1. requests' \in 0..MaxRequests
      BY AlertsAssumption DEF AlertsInv, AlertRows, AlertRowsTyped, Request
    <3>2. QED
      BY <1>2, <3>1 DEF AlertsInv, AlertRows, AlertRowsTyped
  <2>2. RulesKept' /\ ReadingsKept'
    BY DEF AlertsInv, AlertRows, RulesKept, ReadingsKept
  <2>3. ListsKeyed'
    BY <1>2 DEF AlertsInv, AlertRows, ListsKeyed
  <2>4. QED
    BY <2>1, <2>2, <2>3 DEF AlertRows
<1>4. RowsMove(l, lists, rules, cursors, lists', rules', cursors', clock)
  <2>1. ASSUME NEW r \in AlertRule, NEW m \in WatchedMarket, rules[r].list \notin Watchlist \ {l}
        PROVE  KeyMoves(AddedAt(lists, rules[r], m), rules[r], cursors[<<r, m>>],
                        AddedAt(lists', rules'[r], m), rules'[r], cursors'[<<r, m>>], clock)
    <3>1. CASE rules[r].list = l
      BY <3>1
    <3>2. CASE rules[r].list # l
      <4>1. rules[r].list \notin Watchlist /\ cursors'[<<r, m>>] = cursors[<<r, m>>]
        BY <2>1, <3>2
      <4>2. AddedAt(lists', rules'[r], m) = {} /\ AddedAt(lists, rules[r], m) = {}
        BY <4>1 DEF AddedAt
      <4>3. QED
        BY <4>1, <4>2 DEF KeyMoves
    <3>3. QED
      BY <3>1, <3>2
  <2>2. QED
    BY <1>2, <2>1 DEF RowsMove
<1>5. QED
  BY <1>3, <1>4, RequestKeeps

LEMMA AddKeeps ==
    ASSUME AlertsInv, NEW l \in Watchlist, NEW m \in WatchedMarket, AddItem(l, m) PROVE AlertsInv'
<1> DEFINE items == lists[l].items
           new == Append(items, [market |-> m, added |-> clock])
<1>1. /\ Unlocked(l) /\ ItemsOf(l, m) = {} /\ Len(items) < MaxItems
      /\ lists' = [lists EXCEPT ![l].items = new]
      /\ Request /\ UNCHANGED <<rules, cursors, alerts, observed, ingested, work, clock, rollbacks>>
  BY DEF AddItem, GetList, AlertsInv, AlertRows, AlertRowsTyped
<1>2. /\ lists[l] \in ListRow /\ items \in Seq(ListItem) /\ clock \in Nat
      /\ cursors \in [CursorKey -> CheckPoint] /\ rules \in [AlertRule -> RuleRow]
  BY AlertsAssumption DEF AlertsInv, AlertRows, AlertRowsTyped, ListRow
<1>3. [market |-> m, added |-> clock] \in ListItem
  BY <1>2 DEF ListItem
<1>4. /\ new \in Seq(ListItem) /\ Len(new) = Len(items) + 1 /\ Len(items) \in Nat
      /\ new[Len(items) + 1] = [market |-> m, added |-> clock]
      /\ \A p \in 1..Len(items) : new[p] = items[p]
      /\ DOMAIN new = 1..Len(items) + 1 /\ DOMAIN items = 1..Len(items)
  BY <1>2, <1>3, AppendProperties
<1>5. \A p \in 1..Len(items) : items[p].market # m
  BY <1>1, <1>4 DEF ItemsOf, ToSet
<1> HIDE DEF new
<1>6. lists'[l].items = new
  BY <1>1 DEF AlertsInv, AlertRows, AlertRowsTyped, ListRow
<1>7. \A p, q \in DOMAIN new : new[p].market = new[q].market => p = q
  <2>1. \A p, q \in 1..Len(items) : items[p].market = items[q].market => p = q
    BY <1>4 DEF AlertsInv, AlertRows, ListsKeyed
  <2>2. new[Len(items) + 1].market = m
    BY <1>4
  <2>3. \A p \in DOMAIN new : p \in 1..Len(items) \/ p = Len(items) + 1
    BY <1>4
  <2>4. QED
    BY <1>4, <1>5, <2>1, <2>2, <2>3
<1>8. ASSUME NEW r \in AlertRule, NEW mm \in WatchedMarket, rules[r].list = l
      PROVE  KeyMoves(AddedAt(lists, rules[r], mm), rules[r], cursors[<<r, mm>>],
                      AddedAt(lists', rules[r], mm), rules[r], cursors'[<<r, mm>>], clock)
  <2>1. CASE mm = m
    <3>1. AddedAt(lists, rules[r], mm) = {}
      BY <1>4, <1>5, <1>8, <2>1 DEF AddedAt
    <3>2. \A t \in AddedAt(lists', rules[r], mm) : t = clock
      <4> SUFFICES ASSUME NEW t \in AddedAt(lists', rules[r], mm) PROVE t = clock
        OBVIOUS
      <4>1. PICK p \in DOMAIN new : new[p] = [market |-> mm, added |-> t]
        BY <1>6, <1>8 DEF AddedAt
      <4>2. p = Len(items) + 1
        BY <1>4, <1>5, <2>1, <4>1
      <4>3. QED
        BY <1>4, <4>1, <4>2
    <3>3. QED
      BY <1>1, <3>1, <3>2 DEF KeyMoves
  <2>2. CASE mm # m
    <3>1. ASSUME NEW t \in Nat
          PROVE  (\E p \in DOMAIN new : new[p] = [market |-> mm, added |-> t])
                 <=> (\E p \in DOMAIN items : items[p] = [market |-> mm, added |-> t])
      <4>1. new[Len(items) + 1] # [market |-> mm, added |-> t]
        BY <1>4, <2>2
      <4>2. QED
        BY <1>4, <4>1
    <3>2. AddedAt(lists', rules[r], mm) = AddedAt(lists, rules[r], mm)
      BY <1>6, <1>8, <3>1 DEF AddedAt
    <3>3. rules[r] = [rules[r] EXCEPT !.enabled = rules[r].enabled]
      BY <1>2 DEF RuleRow
    <3>4. QED
      BY <1>1, <3>2, <3>3 DEF KeyMoves
  <2>3. QED
    BY <2>1, <2>2
<1>9. Len(new) <= MaxItems
  BY <1>1, <1>4, AlertsAssumption
<1>10. QED
  BY <1>1, <1>2, <1>4, <1>7, <1>8, <1>9, ItemsMove

LEMMA Removed ==
    ASSUME NEW S, NEW s \in Seq(S), NEW i \in DOMAIN s
    PROVE  /\ RemoveAt(s, i) \in Seq(S) /\ Len(RemoveAt(s, i)) = Len(s) - 1
           /\ DOMAIN RemoveAt(s, i) = 1..Len(s) - 1
           /\ \A p \in 1..Len(s) - 1 : RemoveAt(s, i)[p] = IF p < i THEN s[p] ELSE s[p + 1]
<1> DEFINE a == SubSeq(s, 1, i - 1)
           b == SubSeq(s, i + 1, Len(s))
<1>1. Len(s) \in Nat /\ i \in 1..Len(s)
  OBVIOUS
<1>2. /\ a \in Seq(S) /\ Len(a) = i - 1 /\ \A p \in 1..i - 1 : a[p] = s[p]
  BY <1>1, SubSeqProperties
<1>3. /\ b \in Seq(S) /\ Len(b) = Len(s) - i /\ \A p \in 1..Len(s) - i : b[p] = s[i + p]
  BY <1>1, SubSeqProperties
<1> HIDE DEF a, b
<1>4. /\ a \o b \in Seq(S) /\ Len(a \o b) = Len(s) - 1 /\ DOMAIN (a \o b) = 1..Len(s) - 1
      /\ \A p \in 1..Len(s) - 1 : (a \o b)[p] = IF p < i THEN s[p] ELSE s[p + 1]
  <2>1. /\ a \o b \in Seq(S) /\ Len(a \o b) = Len(a) + Len(b)
        /\ \A p \in 1..Len(a) + Len(b) : (a \o b)[p] = IF p <= Len(a) THEN a[p] ELSE b[p - Len(a)]
    BY <1>2, <1>3, ConcatProperties
  <2>2. Len(a) + Len(b) = Len(s) - 1
    BY <1>1, <1>2, <1>3
  <2>3. ASSUME NEW p \in 1..Len(s) - 1
        PROVE  (a \o b)[p] = IF p < i THEN s[p] ELSE s[p + 1]
    <3>1. CASE p < i
      BY <1>1, <1>2, <2>1, <2>2, <3>1
    <3>2. CASE ~(p < i)
      <4>1. (a \o b)[p] = b[p - (i - 1)]
        <5>1. p \in 1..Len(a) + Len(b) /\ ~(p <= Len(a))
          BY <1>1, <1>2, <2>2, <3>2
        <5>2. QED
          BY <1>2, <2>1, <5>1
      <4>2. p - (i - 1) \in 1..Len(s) - i /\ i + (p - (i - 1)) = p + 1
        BY <1>1, <3>2
      <4>3. QED
        BY <1>3, <3>2, <4>1, <4>2
    <3>3. QED
      BY <3>1, <3>2
  <2>4. DOMAIN (a \o b) = 1..Len(s) - 1
    BY <2>1, <2>2
  <2>5. QED
    BY <2>1, <2>2, <2>3, <2>4
<1>5. RemoveAt(s, i) = a \o b
  BY DEF RemoveAt, a, b
<1>6. QED
  BY <1>4, <1>5


LEMMA RemoveKeeps ==
    ASSUME AlertsInv, NEW l \in Watchlist, NEW m \in WatchedMarket, RemoveItem(l, m) PROVE AlertsInv'
<1> DEFINE items == lists[l].items
<1>1. /\ lists[l] \in ListRow /\ items \in Seq(ListItem) /\ Len(items) \in Nat /\ DOMAIN items = 1..Len(items)
      /\ cursors \in [CursorKey -> CheckPoint] /\ rules \in [AlertRule -> RuleRow]
      /\ lists \in [Watchlist -> ListRow]
  BY DEF AlertsInv, AlertRows, AlertRowsTyped, ListRow
<1>2. PICK i \in DOMAIN items :
        items[i].market = m /\ lists' = [lists EXCEPT ![l].items = RemoveAt(items, i)]
  BY <1>1 DEF RemoveItem
<1> DEFINE new == RemoveAt(items, i)
<1>3. /\ Unlocked(l) /\ Request
      /\ cursors' = [k \in CursorKey |->
                       IF k[2] = m /\ rules[k[1]].list = l THEN NoCursor ELSE cursors[k]]
      /\ UNCHANGED <<rules, alerts, observed, ingested, work, clock, rollbacks>>
  BY DEF RemoveItem, GetList
<1>4. /\ new \in Seq(ListItem) /\ Len(new) = Len(items) - 1 /\ DOMAIN new = 1..Len(items) - 1
      /\ \A p \in 1..Len(items) - 1 : new[p] = IF p < i THEN items[p] ELSE items[p + 1]
  BY <1>1, Removed
<1> HIDE DEF new
<1>5. lists'[l].items = new
  BY <1>1, <1>2 DEF ListRow, new
<1>6. /\ Len(items) <= MaxItems
      /\ \A p, q \in DOMAIN items : items[p].market = items[q].market => p = q
  BY DEF AlertsInv, AlertRows, ListsKeyed
<1>7. \A p, q \in DOMAIN new : new[p].market = new[q].market => p = q
  <2> SUFFICES ASSUME NEW p \in 1..Len(items) - 1, NEW q \in 1..Len(items) - 1,
                      new[p].market = new[q].market
               PROVE  p = q
    BY <1>4
  <2> DEFINE was(x) == IF x < i THEN x ELSE x + 1
  <2>1. /\ was(p) \in DOMAIN items /\ new[p] = items[was(p)]
        /\ was(q) \in DOMAIN items /\ new[q] = items[was(q)]
    BY <1>1, <1>4
  <2>2. was(p) = was(q)
    BY <1>6, <2>1
  <2>3. QED
    BY <1>1, <2>2
<1>8. ASSUME NEW r \in AlertRule, NEW mm \in WatchedMarket, rules[r].list = l
      PROVE  KeyMoves(AddedAt(lists, rules[r], mm), rules[r], cursors[<<r, mm>>],
                      AddedAt(lists', rules[r], mm), rules[r], cursors'[<<r, mm>>], clock)
  <2>0. <<r, mm>> \in CursorKey
    BY DEF CursorKey
  <2>1. CASE mm = m
    <3>1. \A p \in DOMAIN new : new[p].market # m
      <4> SUFFICES ASSUME NEW p \in 1..Len(items) - 1, new[p].market = m PROVE FALSE
        BY <1>4
      <4>1. CASE p < i
        <5>1. new[p] = items[p] /\ p \in DOMAIN items /\ p # i
          BY <1>1, <1>4, <4>1
        <5>2. QED
          BY <1>2, <1>6, <5>1
      <4>2. CASE ~(p < i)
        <5>1. new[p] = items[p + 1] /\ p + 1 \in DOMAIN items /\ p + 1 # i
          BY <1>1, <1>4, <4>2
        <5>2. QED
          BY <1>2, <1>6, <5>1
      <4>3. QED
        BY <4>1, <4>2
    <3>2. AddedAt(lists', rules[r], mm) = {}
      BY <1>5, <1>8, <2>1, <3>1 DEF AddedAt
    <3>3. cursors'[<<r, mm>>] = NoCursor
      BY <1>3, <1>8, <2>0, <2>1
    <3>4. QED
      BY <3>2, <3>3 DEF KeyMoves
  <2>2. CASE mm # m
    <3>1. ASSUME NEW t \in Nat
          PROVE  (\E p \in DOMAIN new : new[p] = [market |-> mm, added |-> t])
                 <=> (\E p \in DOMAIN items : items[p] = [market |-> mm, added |-> t])
      <4>1. ASSUME NEW p \in DOMAIN new, new[p] = [market |-> mm, added |-> t]
            PROVE  \E q \in DOMAIN items : items[q] = [market |-> mm, added |-> t]
        <5>1. (p < i => p \in DOMAIN items) /\ (~(p < i) => p + 1 \in DOMAIN items)
          BY <1>1, <1>4
        <5>2. QED
          BY <1>4, <4>1, <5>1
      <4>2. ASSUME NEW p \in DOMAIN items, items[p] = [market |-> mm, added |-> t]
            PROVE  \E q \in DOMAIN new : new[q] = [market |-> mm, added |-> t]
        <5>1. p # i
          BY <1>2, <2>2, <4>2
        <5>2. CASE p < i
          <6>1. p \in DOMAIN new
            BY <1>1, <1>4, <5>2
          <6>2. QED
            BY <1>4, <4>2, <5>2, <6>1
        <5>3. CASE p > i
          <6>1. p - 1 \in DOMAIN new /\ ~(p - 1 < i) /\ p - 1 + 1 = p
            BY <1>1, <1>4, <5>3
          <6>2. QED
            BY <1>4, <4>2, <6>1
        <5>4. QED
          BY <1>1, <5>1, <5>2, <5>3
      <4>3. QED
        BY <4>1, <4>2
    <3>2. AddedAt(lists', rules[r], mm) = AddedAt(lists, rules[r], mm)
      BY <1>5, <1>8, <3>1 DEF AddedAt
    <3>3. cursors'[<<r, mm>>] = cursors[<<r, mm>>]
      BY <1>3, <2>0, <2>2
    <3>4. rules[r] = [rules[r] EXCEPT !.enabled = rules[r].enabled]
      BY <1>1 DEF RuleRow
    <3>5. QED
      BY <3>2, <3>3, <3>4 DEF KeyMoves
  <2>3. QED
    BY <2>1, <2>2
<1>9. /\ cursors' \in [CursorKey -> CheckPoint]
      /\ \A r \in AlertRule, mm \in WatchedMarket :
           rules[r].list # l => cursors'[<<r, mm>>] = cursors[<<r, mm>>]
  BY <1>1, <1>3, CursorTypes DEF CursorKey
<1>10. Len(new) <= MaxItems
  BY <1>1, <1>4, <1>6, AlertsAssumption
<1>11. lists' = [lists EXCEPT ![l].items = new]
  BY <1>2 DEF new
<1>12. QED
  BY <1>3, <1>4, <1>7, <1>8, <1>9, <1>10, <1>11, ItemsMove

LEMMA ReorderKeeps ==
    ASSUME AlertsInv, NEW l \in Watchlist, NEW order \in Orders(lists[l].items), Reorder(l, order)
    PROVE  AlertsInv'
<1> DEFINE items == lists[l].items
<1>1. /\ lists[l] \in ListRow /\ items \in Seq(ListItem) /\ Len(items) \in Nat /\ DOMAIN items = 1..Len(items)
      /\ cursors \in [CursorKey -> CheckPoint] /\ rules \in [AlertRule -> RuleRow]
      /\ lists \in [Watchlist -> ListRow]
  BY DEF AlertsInv, AlertRows, AlertRowsTyped, ListRow
<1>2. /\ order \in [1..Len(items) -> ToSet(items)]
      /\ \A p, q \in 1..Len(items) : order[p] = order[q] => p = q
      /\ ToSet(order) = ToSet(items)
  BY <1>1 DEF Orders, IsInjective
<1>3. ToSet(items) \subseteq ListItem
  BY <1>1 DEF ToSet
<1>4. order \in Seq(ListItem) /\ Len(order) = Len(items) /\ DOMAIN order = 1..Len(items)
  <2>1. order \in [1..Len(items) -> ListItem]
    BY <1>2, <1>3
  <2>2. QED
    BY <1>1, <2>1
<1>5. /\ Unlocked(l) /\ Request /\ lists' = [lists EXCEPT ![l].items = order]
      /\ UNCHANGED <<rules, cursors, alerts, observed, ingested, work, clock, rollbacks>>
  BY DEF Reorder, GetList
<1>6. /\ Len(items) <= MaxItems
      /\ \A p, q \in DOMAIN items : items[p].market = items[q].market => p = q
  BY DEF AlertsInv, AlertRows, ListsKeyed
<1>7. \A p, q \in DOMAIN order : order[p].market = order[q].market => p = q
  <2> SUFFICES ASSUME NEW p \in 1..Len(items), NEW q \in 1..Len(items), order[p].market = order[q].market
               PROVE  p = q
    BY <1>4
  <2>1. PICK x \in DOMAIN items, y \in DOMAIN items : order[p] = items[x] /\ order[q] = items[y]
    BY <1>2 DEF ToSet
  <2>2. x = y
    BY <1>6, <2>1
  <2>3. QED
    BY <1>2, <2>1, <2>2
<1>8. ASSUME NEW r \in AlertRule, NEW mm \in WatchedMarket, rules[r].list = l
      PROVE  KeyMoves(AddedAt(lists, rules[r], mm), rules[r], cursors[<<r, mm>>],
                      AddedAt(lists', rules[r], mm), rules[r], cursors'[<<r, mm>>], clock)
  <2>1. lists'[l].items = order
    BY <1>1, <1>5 DEF ListRow
  <2>2. ASSUME NEW t \in Nat
        PROVE  (\E p \in DOMAIN order : order[p] = [market |-> mm, added |-> t])
               <=> (\E p \in DOMAIN items : items[p] = [market |-> mm, added |-> t])
    <3>1. \A x : (x \in ToSet(order) <=> \E p \in DOMAIN order : order[p] = x)
      BY DEF ToSet
    <3>2. \A x : (x \in ToSet(items) <=> \E p \in DOMAIN items : items[p] = x)
      BY DEF ToSet
    <3>3. QED
      BY <1>2, <3>1, <3>2
  <2>3. AddedAt(lists', rules[r], mm) = AddedAt(lists, rules[r], mm)
    BY <1>8, <2>1, <2>2 DEF AddedAt
  <2>4. rules[r] = [rules[r] EXCEPT !.enabled = rules[r].enabled]
    BY <1>1 DEF RuleRow
  <2>5. QED
    BY <1>5, <2>3, <2>4 DEF KeyMoves
<1>9. QED
  BY <1>1, <1>4, <1>5, <1>6, <1>7, <1>8, ItemsMove

LEMMA SaveKeeps ==
    ASSUME AlertsInv, NEW l \in Watchlist, NEW r \in AlertRule, NEW d \in Direction,
           NEW enabled \in BOOLEAN, SaveRule(l, r, d, enabled)
    PROVE  AlertsInv'
<1> DEFINE row == [list |-> l, enabled |-> enabled, revision |-> rules[r].revision + 1,
                   effective |-> clock, direction |-> d]
<1>1. /\ rules \in [AlertRule -> RuleRow] /\ clock \in Nat /\ rules[r].revision \in Nat
  BY AlertsAssumption DEF AlertsInv, AlertRows, AlertRowsTyped, RuleRow
<1>2. /\ Unlocked(l) /\ Request /\ rules' = [rules EXCEPT ![r] = row]
      /\ rules[r] = NoRule \/ (rules[r].list = l /\ rules[r].revision < MaxRevisions)
      /\ UNCHANGED <<lists, cursors, alerts, observed, ingested, work, clock, rollbacks>>
  BY DEF SaveRule, GetList
<1>3. row \in RuleRow
  BY <1>1, AlertsAssumption DEF RuleRow, Directions
<1>4. /\ rules' \in [AlertRule -> RuleRow] /\ rules'[r] = row
      /\ \A x \in AlertRule \ {r} : rules'[x] = rules[x]
  BY <1>1, <1>2, <1>3
<1>5. row.revision <= MaxRevisions
  <2>1. rules[r] = NoRule => rules[r].revision = 0
    BY DEF NoRule
  <2>2. QED
    BY <1>1, <1>2, <2>1, AlertsAssumption
<1>6. AlertRows'
  <2>1. AlertRowsTyped'
    <3>1. requests' \in 0..MaxRequests
      BY <1>2, AlertsAssumption DEF AlertsInv, AlertRows, AlertRowsTyped, Request
    <3>2. QED
      BY <1>2, <1>4, <3>1 DEF AlertsInv, AlertRows, AlertRowsTyped
  <2>2. ListsKeyed' /\ ReadingsKept'
    BY <1>2 DEF AlertsInv, AlertRows, ListsKeyed, ReadingsKept
  <2>3. RulesKept'
    BY <1>4, <1>5 DEF AlertsInv, AlertRows, RulesKept
  <2>4. QED
    BY <2>1, <2>2, <2>3 DEF AlertRows
<1>7. RowsMove(l, lists, rules, cursors, lists', rules', cursors', clock)
  <2>1. rules[r].list \notin Watchlist \ {l}
    BY <1>2, AlertsAssumption DEF NoRule
  <2>2. ASSUME NEW x \in AlertRule, NEW m \in WatchedMarket
        PROVE  KeyMoves(AddedAt(lists, rules[x], m), rules[x], cursors[<<x, m>>],
                        AddedAt(lists', rules'[x], m), rules'[x], cursors'[<<x, m>>], clock)
    <3>1. CASE x # r
      <4>1. rules'[x] = rules[x] /\ rules[x] = [rules[x] EXCEPT !.enabled = rules[x].enabled]
        BY <1>1, <1>4, <3>1 DEF RuleRow
      <4>2. AddedAt(lists', rules'[x], m) = AddedAt(lists, rules[x], m)
        BY <1>2, <4>1 DEF AddedAt
      <4>3. QED
        BY <1>2, <4>1, <4>2 DEF KeyMoves
    <3>2. CASE x = r
      <4>1. rules'[x].revision = rules[x].revision + 1 /\ rules'[x].list \in Watchlist
        BY <1>4, <3>2
      <4>2. \/ rules[x] = NoRule /\ AddedAt(lists, rules[x], m) = {}
            \/ AddedAt(lists', rules'[x], m) = AddedAt(lists, rules[x], m)
        <5>1. CASE rules[r] = NoRule
          BY <3>2, <5>1, AlertsAssumption DEF AddedAt, NoRule
        <5>2. CASE rules[r].list = l
          BY <1>2, <1>4, <3>2, <5>2 DEF AddedAt
        <5>3. QED
          BY <1>2, <5>1, <5>2
      <4>3. QED
        BY <1>2, <4>1, <4>2 DEF KeyMoves
    <3>3. QED
      BY <3>1, <3>2
  <2>3. QED
    BY <1>2, <1>4, <2>1, <2>2 DEF RowsMove
<1>8. QED
  BY <1>2, <1>6, <1>7, RequestKeeps


----------------------------------------------------------------------------

LEMMA ObserveKeeps ==
    ASSUME AlertsInv, NEW c \in ObservedBy, NEW m \in WatchedMarket, NEW v \in Moves \cup {NoValue},
           Observe(c, m, v)
    PROVE  AlertsInv'
<1> DEFINE o == [market |-> m, at |-> clock + 1, value |-> v]
<1>1. /\ clock \in Nat /\ clock < MaxObserved /\ clock' = clock + 1
      /\ observed' = [observed EXCEPT ![c] = Append(@, o)]
      /\ UNCHANGED <<lists, rules, cursors, alerts, ingested, work, requests, rollbacks>>
      /\ observed \in [ObservedBy -> Seq(Reading)] /\ ingested \in [ObservedBy -> Nat]
  BY AlertsAssumption DEF Observe, AlertsInv, AlertRows, AlertRowsTyped
<1>2. o \in Reading
  BY <1>1 DEF Reading
<1>3. /\ observed' \in [ObservedBy -> Seq(Reading)]
      /\ \A b \in ObservedBy : /\ Len(observed[b]) <= Len(observed'[b])
                               /\ \A p \in 1..Len(observed[b]) : observed'[b][p] = observed[b][p]
      /\ \A b \in ObservedBy \ {c} : observed'[b] = observed[b]
      /\ Len(observed'[c]) = Len(observed[c]) + 1 /\ observed'[c][Len(observed[c]) + 1] = o
  BY <1>1, <1>2, AppendProperties
<1>4. AlertRows'
  <2>1. AlertRowsTyped'
    <3>1. clock' \in 0..MaxObserved
      BY <1>1, AlertsAssumption
    <3>2. QED
      BY <1>1, <1>3, <3>1 DEF AlertsInv, AlertRows, AlertRowsTyped
  <2>2. ListsKeyed' /\ RulesKept'
    BY <1>1 DEF AlertsInv, AlertRows, ListsKeyed, RulesKept
  <2>3. ReadingsKept'
    <3> SUFFICES ASSUME NEW b \in ObservedBy
                 PROVE  /\ ingested[b] <= Len(observed'[b])
                        /\ \A p \in DOMAIN observed'[b] : observed'[b][p].at <= clock + 1
      BY <1>1 DEF ReadingsKept
    <3>1. /\ ingested[b] <= Len(observed[b])
          /\ \A p \in DOMAIN observed[b] : observed[b][p].at <= clock /\ observed[b][p].at \in Nat
      <4>1. \A p \in DOMAIN observed[b] : observed[b][p] \in Reading
        BY <1>1
      <4>2. \A p \in DOMAIN observed[b] : observed[b][p].at \in Nat
        BY <4>1 DEF Reading
      <4>3. ingested[b] <= Len(observed[b]) /\ \A p \in DOMAIN observed[b] : observed[b][p].at <= clock
        BY DEF AlertsInv, AlertRows, ReadingsKept
      <4>4. QED
        BY <4>2, <4>3
    <3>2. Len(observed[b]) \in Nat /\ Len(observed'[b]) \in Nat /\ ingested[b] \in Nat
      BY <1>1, <1>3
    <3>3. ASSUME NEW p \in DOMAIN observed'[b] PROVE observed'[b][p].at <= clock + 1
      <4>1. CASE p \in 1..Len(observed[b])
        <5>1. observed'[b][p] = observed[b][p] /\ p \in DOMAIN observed[b]
          BY <1>1, <1>3, <4>1
        <5>2. observed[b][p].at <= clock /\ observed[b][p].at \in Nat
          BY <3>1, <5>1
        <5>3. QED
          BY <1>1, <5>1, <5>2
      <4>2. CASE p \notin 1..Len(observed[b])
        <5>1. p \in 1..Len(observed'[b])
          BY <1>3
        <5>2. b = c /\ p = Len(observed[c]) + 1
          BY <1>1, <1>3, <3>2, <4>2, <5>1
        <5>3. observed'[b][p].at = clock + 1
          BY <1>3, <5>2
        <5>4. QED
          BY <1>1, <5>3
      <4>3. QED
        BY <4>1, <4>2
    <3>4. ingested[b] <= Len(observed'[b])
      BY <1>3, <3>1, <3>2
    <3>5. QED
      BY <3>3, <3>4
  <2>4. QED
    BY <2>1, <2>2, <2>3 DEF AlertRows
<1>5. ASSUME NEW n, \A b \in ObservedBy : n[b] \in Nat /\ n[b] <= Len(observed[b]),
             NEW mm \in WatchedMarket
      PROVE  ReadUpTo(observed', n, mm) = ReadUpTo(observed, n, mm)
  <2>1. \A b \in ObservedBy : \A p \in 1..n[b] : observed'[b][p] = observed[b][p]
    BY <1>1, <1>3, <1>5
  <2>2. QED
    BY <2>1 DEF ReadUpTo
<1>6. CommittedReads' = CommittedReads
  <2>1. \A b \in ObservedBy : ingested[b] \in Nat /\ ingested[b] <= Len(observed[b])
    BY <1>1 DEF AlertsInv, AlertRows, ReadingsKept
  <2>2. QED
    BY <1>1, <1>5, <2>1 DEF CommittedReads
<1>7. CommittedSound'
  BY <1>1, <1>6 DEF AlertsInv, CommittedSound
<1>8. ASSUME work # NoWork PROVE WorkSound' /\ OpenSound'
  <2>1. WorkSound /\ OpenSound
    BY <1>8 DEF AlertsInv
  <2>2. OpenReads' = OpenReads
    <3>1. \A b \in ObservedBy : OpenIngested[b] \in Nat /\ OpenIngested[b] <= Len(observed[b])
      BY <1>1, <2>1, ReadsAreKept DEF AlertsInv, OpenIngested, WorkSound
    <3>2. OpenIngested' = OpenIngested
      BY <1>1 DEF OpenIngested
    <3>3. QED
      BY <1>5, <3>1, <3>2 DEF OpenReads
  <2>3. OpenCursors' = OpenCursors /\ OpenAlerts' = OpenAlerts
    BY <1>1 DEF OpenCursors, CursorRow, OpenAlerts
  <2>4. \A a \in work.alerts : RaisedUnder(a)' <=> RaisedUnder(a)
    BY <1>1 DEF RaisedUnder, Active, ItemsOf
  <2>5. ingested'[work'.by] + work'.size <= Len(observed'[work'.by])
    <3>1. /\ work.by \in ObservedBy /\ work.size \in Nat
          /\ ingested[work.by] + work.size <= Len(observed[work.by])
      BY <2>1 DEF WorkSound
    <3>2. /\ Len(observed[work.by]) \in Nat /\ Len(observed'[work.by]) \in Nat
          /\ Len(observed[work.by]) <= Len(observed'[work.by]) /\ ingested[work.by] \in Nat
      BY <1>1, <1>3, <3>1
    <3>3. QED
      BY <1>1, <3>1, <3>2
  <2>6. WorkSound'
    BY <1>1, <2>1, <2>2, <2>4, <2>5 DEF WorkSound
  <2>7. QED
    BY <1>1, <2>1, <2>2, <2>3, <2>6 DEF OpenSound
<1>9. QED
  BY <1>1, <1>4, <1>7, <1>8 DEF AlertsInv

LEMMA MoreReads ==
    ASSUME NEW L, NEW R, NEW C, NEW A, NEW K, NEW K2, RowsSound(L, R, C, A, K),
           \A m \in WatchedMarket : K[m] \subseteq K2[m]
    PROVE  RowsSound(L, R, C, A, K2)
BY MoreReadings DEF RowsSound

LEMMA BeginKeeps ==
    ASSUME AlertsInv, NEW c \in ObservedBy, NEW n \in 1..BatchRows, BeginBatch(c, n) PROVE AlertsInv'
<1> DEFINE rows == SubSeq(observed[c], ingested[c] + 1, ingested[c] + n)
<1>1. /\ ingested[c] + n <= Len(observed[c]) /\ n \in Nat /\ n > 0
      /\ work' = [by |-> c, size |-> n, rows |-> rows, left |-> Candidates(rows[1]), locked |-> {},
                  saved |-> <<>>, alerts |-> {}]
      /\ UNCHANGED <<lists, rules, cursors, alerts, observed, ingested, clock, requests, rollbacks>>
  BY AlertsAssumption DEF BeginBatch
<1>2. /\ observed[c] \in Seq(Reading) /\ ingested[c] \in Nat /\ Len(observed[c]) \in Nat
      /\ cursors \in [CursorKey -> CheckPoint]
  BY DEF AlertsInv, AlertRows, AlertRowsTyped
<1>3. /\ rows \in Seq(Reading) /\ Len(rows) = n
      /\ \A p \in 1..n : rows[p] = observed[c][ingested[c] + p]
  <2>1. ASSUME NEW p \in ingested[c] + 1 .. ingested[c] + n PROVE observed[c][p] \in Reading
    <3> DEFINE start == ingested[c]
               length == Len(observed[c])
    <3>0. start \in Nat /\ length \in Nat /\ start + n <= length /\ p \in start + 1 .. start + n
      BY <1>1, <1>2
    <3>1. p \in 1..length
      <4> HIDE DEF start, length
      <4>1. QED
        BY <1>1, <3>0
    <3>2. QED
      BY <1>2, <3>1
  <2> DEFINE low == ingested[c] + 1
             high == ingested[c] + n
  <2>2. /\ SubSeq(observed[c], low, high) \in Seq(Reading)
        /\ Len(SubSeq(observed[c], low, high)) = IF low <= high THEN high - low + 1 ELSE 0
        /\ \A p \in 1..high - low + 1 : SubSeq(observed[c], low, high)[p] = observed[c][low + p - 1]
    <3>1. \A p \in low..high : observed[c][p] \in Reading
      BY <2>1
    <3>2. low \in Int /\ high \in Int
      BY <1>1, <1>2
    <3> HIDE DEF low, high
    <3>3. QED
      BY <3>1, <3>2, SubSeqProperties
  <2>3. high - low + 1 = n /\ low <= high /\ \A p \in 1..n : low + p - 1 = ingested[c] + p
    <3> DEFINE start == ingested[c]
    <3>1. start \in Nat /\ n \in Nat /\ n > 0 /\ low = start + 1 /\ high = start + n
      BY <1>1, <1>2
    <3> HIDE DEF low, high
    <3>2. QED
      <4> HIDE DEF start
      <4>1. /\ (start + n) - (start + 1) + 1 = n /\ start + 1 <= start + n
            /\ \A p \in 1..n : start + 1 + p - 1 = start + p
        BY <3>1
      <4>2. QED
        BY <3>1, <4>1 DEF start
  <2>4. QED
    BY <2>2, <2>3
<1> HIDE DEF rows
<1>4. /\ work'.by = c /\ work'.size = n /\ work'.rows = rows /\ work'.left = Candidates(rows[1])
      /\ work'.saved = <<>> /\ work'.alerts = {}
  BY <1>1
<1>5. AlertRows' /\ CommittedSound'
  BY <1>1 DEF AlertsInv, AlertRows, AlertRowsTyped, ListsKeyed, RulesKept, ReadingsKept,
     CommittedSound, CommittedReads
<1>6. WorkSound'
  <2>1. \A p \in DOMAIN rows : rows[p] \in OpenReads'[rows[p].market]
    <3> SUFFICES ASSUME NEW p \in 1..n PROVE rows[p] \in OpenReads'[rows[p].market]
      BY <1>3
    <3>1. rows[p] \in Reading /\ rows[p] = observed[c][ingested[c] + p]
      BY <1>3
    <3>2. OpenIngested'[c] = ingested[c] + n
      BY <1>1, <1>4 DEF OpenIngested, AlertsInv, AlertRows, AlertRowsTyped
    <3>3. ingested[c] + p \in 1..OpenIngested'[c]
      BY <1>1, <1>2, <3>2
    <3>4. rows[p] \in ReadUpTo(observed, OpenIngested', rows[p].market)
      BY <3>1, <3>3 DEF ReadUpTo
    <3>5. rows[p].market \in WatchedMarket
      BY <3>1 DEF Reading
    <3>6. QED
      BY <1>1, <3>4, <3>5 DEF OpenReads
  <2>2. Candidates(rows[1]) \in SUBSET AlertRule
    BY DEF Candidates
  <2>3. DOMAIN work'.saved = {}
    BY <1>4
  <2>4. rows # <<>>
    BY <1>1, <1>3
  <2>5. work' = [by |-> work'.by, size |-> work'.size, rows |-> work'.rows, left |-> work'.left,
                 locked |-> work'.locked, saved |-> work'.saved, alerts |-> work'.alerts]
    BY <1>1
  <2>6. QED
    BY <1>1, <1>3, <1>4, <2>1, <2>2, <2>3, <2>4, <2>5 DEF WorkSound
<1>7. OpenSound'
  <2>1. OpenCursors' = cursors
    <3>1. DOMAIN work'.saved = {}
      BY <1>4
    <3>2. \A k \in CursorKey : OpenCursors'[k] = cursors[k]
      BY <1>1, <3>1 DEF OpenCursors, CursorRow
    <3>3. OpenCursors' = [k \in CursorKey |-> OpenCursors'[k]]
      BY DEF OpenCursors
    <3>4. QED
      BY <1>2, <3>2, <3>3
  <2>2. OpenAlerts' = alerts
    BY <1>1, <1>4 DEF OpenAlerts
  <2>3. \A m \in WatchedMarket : CommittedReads[m] \subseteq OpenReads'[m]
    <3>1. \A b \in ObservedBy : /\ ingested[b] \in Nat /\ OpenIngested'[b] \in Nat
                                /\ ingested[b] <= OpenIngested'[b]
      BY <1>1, <1>4 DEF OpenIngested, AlertsInv, AlertRows, AlertRowsTyped
    <3>2. QED
      BY <1>1, <3>1 DEF CommittedReads, OpenReads, ReadUpTo
  <2>4. RowsSound(lists, rules, cursors, alerts, OpenReads')
    BY <2>3, MoreReads DEF AlertsInv, CommittedSound
  <2>5. QED
    BY <1>1, <2>1, <2>2, <2>4 DEF OpenSound
<1>8. QED
  BY <1>5, <1>6, <1>7 DEF AlertsInv

LEMMA NextRowKeeps == ASSUME AlertsInv, NextRow PROVE AlertsInv'
<1>1. /\ WorkSound /\ OpenSound
      /\ Len(work.rows) > 1
      /\ work' = [work EXCEPT !.rows = Tail(@), !.left = Candidates(work.rows[2])]
      /\ UNCHANGED <<lists, rules, cursors, alerts, observed, ingested, clock, requests, rollbacks>>
  BY DEF AlertsInv, NextRow
<1>2. /\ work' = [by |-> work.by, size |-> work.size, rows |-> Tail(work.rows),
                  left |-> Candidates(work.rows[2]), locked |-> work.locked, saved |-> work.saved,
                  alerts |-> work.alerts]
  BY <1>1 DEF WorkSound
<1>3. /\ work'.by = work.by /\ work'.size = work.size /\ work'.locked = work.locked
      /\ work'.saved = work.saved /\ work'.alerts = work.alerts
      /\ work'.rows = Tail(work.rows) /\ work'.left = Candidates(work.rows[2])
  BY <1>2
<1>4. /\ OpenCursors' = OpenCursors /\ OpenAlerts' = OpenAlerts /\ OpenReads' = OpenReads
  BY <1>1, <1>3 DEF OpenCursors, CursorRow, OpenAlerts, OpenReads, OpenIngested
<1>5. AlertRows' /\ CommittedSound'
  BY <1>1 DEF AlertsInv, AlertRows, AlertRowsTyped, ListsKeyed, RulesKept, ReadingsKept,
     CommittedSound, CommittedReads
<1>6. WorkSound'
  <2>1. work.rows \in Seq(Reading) /\ \A p \in DOMAIN work.rows : work.rows[p] \in OpenReads[work.rows[p].market]
    BY <1>1 DEF WorkSound
  <2>2. /\ Tail(work.rows) \in Seq(Reading) /\ Tail(work.rows) # <<>>
        /\ \A p \in DOMAIN Tail(work.rows) : /\ p + 1 \in DOMAIN work.rows
                                             /\ Tail(work.rows)[p] = work.rows[p + 1]
    <3>1. work.rows # <<>> /\ Len(work.rows) \in Nat /\ DOMAIN work.rows = 1..Len(work.rows)
      BY <1>1, <2>1
    <3>2. /\ Tail(work.rows) \in Seq(Reading) /\ Len(Tail(work.rows)) = Len(work.rows) - 1
          /\ \A p \in 1..Len(Tail(work.rows)) : Tail(work.rows)[p] = work.rows[p + 1]
      BY <2>1, <3>1, HeadTailProperties
    <3>3. DOMAIN Tail(work.rows) = 1..Len(work.rows) - 1
      BY <3>2
    <3>4. Tail(work.rows) # <<>>
      BY <1>1, <3>1, <3>2
    <3>5. QED
      BY <3>1, <3>2, <3>3, <3>4
  <2>3. \A p \in DOMAIN work'.rows : work'.rows[p] \in OpenReads'[work'.rows[p].market]
    BY <1>3, <1>4, <2>1, <2>2
  <2>4. Candidates(work.rows[2]) \in SUBSET AlertRule
    BY DEF Candidates
  <2>5. \A a \in work.alerts : RaisedUnder(a)' <=> RaisedUnder(a)
    BY <1>1 DEF RaisedUnder, Active, ItemsOf
  <2>6. QED
    BY <1>1, <1>2, <1>3, <2>2, <2>3, <2>4, <2>5 DEF WorkSound
<1>7. OpenSound'
  BY <1>1, <1>4 DEF OpenSound
<1>8. QED
  BY <1>5, <1>6, <1>7 DEF AlertsInv

LEMMA RollbackKeeps == ASSUME AlertsInv, RollbackBatch PROVE AlertsInv'
<1>1. /\ work' = NoWork /\ rollbacks < MaxRollbacks /\ rollbacks' = rollbacks + 1
      /\ UNCHANGED <<lists, rules, cursors, alerts, observed, ingested, clock, requests>>
  BY DEF RollbackBatch
<1>2. AlertRowsTyped'
  BY <1>1, AlertsAssumption DEF AlertsInv, AlertRows, AlertRowsTyped
<1>3. QED
  BY <1>1, <1>2 DEF AlertsInv, AlertRows, ListsKeyed, RulesKept, ReadingsKept, CommittedSound, CommittedReads

LEMMA CommitKeeps == ASSUME AlertsInv, CommitBatch PROVE AlertsInv'
<1>1. /\ WorkSound /\ OpenSound /\ AlertRows
      /\ cursors' = OpenCursors /\ alerts' = OpenAlerts /\ ingested' = OpenIngested /\ work' = NoWork
      /\ UNCHANGED <<lists, rules, observed, clock, requests, rollbacks>>
  BY DEF AlertsInv, CommitBatch, OpenCursors, OpenAlerts, OpenIngested
<1>2. AlertRowsTyped'
  <2>1. OpenIngested \in [ObservedBy -> Nat]
    BY <1>1 DEF OpenIngested, WorkSound, AlertRows, AlertRowsTyped
  <2>2. QED
    BY <1>1, <2>1, OpenTypes DEF AlertRows, AlertRowsTyped
<1>3. ListsKeyed' /\ RulesKept'
  BY <1>1 DEF AlertRows, ListsKeyed, RulesKept
<1>4. ReadingsKept'
  <2>1. \A c \in ObservedBy : OpenIngested[c] <= Len(observed[c])
    BY <1>1, ReadsAreKept
  <2>2. QED
    BY <1>1, <2>1 DEF AlertRows, ReadingsKept
<1>5. CommittedReads' = OpenReads
  BY <1>1 DEF CommittedReads, OpenReads
<1>6. CommittedSound'
  BY <1>1, <1>5 DEF OpenSound, CommittedSound
<1>7. QED
  BY <1>1, <1>2, <1>3, <1>4, <1>6 DEF AlertsInv, AlertRows


\* One candidate: nothing changes, or its cursor has seen the observation, and an alert
\* is raised or not.
LEMMA EvaluateKeeps ==
    ASSUME AlertsInv, NEW r \in AlertRule, EvaluateRule(r) PROVE AlertsInv'
<1> DEFINE o == work.rows[1]
           m == o.market
           key == <<r, o.market>>
           rule == rules[r]
           c0 == CursorRow(key)
           cursor == Current(c0, rule.revision)
           status == Outcome(cursor, rule, o)
           skipped == ~Evaluable(r, o) \/ o.at <= cursor.seen
           alarm == [rule |-> r, market |-> m, revision |-> rule.revision,
                     at |-> o.at, by |-> work.by, direction |-> rule.direction]
           saved == IF skipped THEN work.saved
                    ELSE [k \in DOMAIN work.saved \cup {key} |->
                            IF k = key THEN Evaluated(cursor, status, o) ELSE work.saved[k]]
           fired == IF skipped \/ status # "TRIGGERED" THEN work.alerts
                    ELSE work.alerts \cup {alarm}
<1>1. /\ WorkSound /\ OpenSound /\ AlertRows
      /\ UNCHANGED <<lists, rules, cursors, alerts, observed, ingested, clock, requests, rollbacks>>
  BY DEF AlertsInv, EvaluateRule
<1>2. work' = [work EXCEPT !.left = @ \ {r}, !.locked = @ \cup {rule.list}, !.saved = saved,
                           !.alerts = fired]
  BY DEF EvaluateRule
<1> HIDE DEF saved, fired
<1>3. work' = [by |-> work.by, size |-> work.size, rows |-> work.rows, left |-> work.left \ {r},
               locked |-> work.locked \cup {rule.list}, saved |-> saved, alerts |-> fired]
  BY <1>1, <1>2 DEF WorkSound
<1>4. /\ work'.by = work.by /\ work'.size = work.size /\ work'.rows = work.rows
      /\ work'.left = work.left \ {r} /\ work'.locked = work.locked \cup {rule.list}
      /\ work'.saved = saved /\ work'.alerts = fired
  BY <1>3
<1>5. /\ o \in Reading /\ m \in WatchedMarket /\ o \in OpenReads[m] /\ key \in CursorKey
      /\ rule \in RuleRow /\ o.at \in Nat
  <2>1. o \in Reading /\ o \in OpenReads[m]
    BY <1>1 DEF WorkSound
  <2>2. m \in WatchedMarket /\ o.at \in Nat
    BY <2>1 DEF Reading
  <2>3. QED
    BY <1>1, <2>1, <2>2 DEF CursorKey, AlertRows, AlertRowsTyped
<1>6. /\ OpenCursors \in [CursorKey -> CheckPoint] /\ OpenAlerts \in SUBSET Alarm
      /\ OpenReads \in [WatchedMarket -> SUBSET Reading]
  BY <1>1, OpenTypes, ReadsAreKept
<1>7. c0 = OpenCursors[key] /\ c0 \in CheckPoint
  BY <1>5, <1>6 DEF OpenCursors
<1>8. cursor.seen = c0.seen
  BY <1>7 DEF Current, CheckPoint
<1>9. OpenReads' = OpenReads
  BY <1>1, <1>4 DEF OpenReads, OpenIngested
<1>10. \A a : RaisedUnder(a)' <=> RaisedUnder(a)
  BY <1>1 DEF RaisedUnder, Active, ItemsOf
<1>11. AlertRows' /\ CommittedSound'
  BY <1>1 DEF AlertsInv, AlertRows, AlertRowsTyped, ListsKeyed, RulesKept, ReadingsKept,
     CommittedSound, CommittedReads
<1>12. ASSUME /\ \A k \in DOMAIN saved :
                   /\ k \in CursorKey /\ saved[k] \in CheckPoint
                   /\ rules[k[1]].list \in Watchlist
                   /\ rules[k[1]].list \in work.locked \cup {rule.list}
              /\ fired \in SUBSET Alarm
              /\ \A a \in fired :
                   /\ rules[a.rule].list \in Watchlist
                   /\ rules[a.rule].list \in work.locked \cup {rule.list}
                   /\ RaisedUnder(a)
       PROVE  WorkSound'
  <2>1. work.left \ {r} \in SUBSET AlertRule
    BY <1>1 DEF WorkSound
  <2>2. work' = [by |-> work'.by, size |-> work'.size, rows |-> work'.rows, left |-> work'.left,
                 locked |-> work'.locked, saved |-> work'.saved, alerts |-> work'.alerts]
    BY <1>3
  <2>3. QED
    BY <1>1, <1>4, <1>9, <1>10, <1>12, <2>1, <2>2 DEF WorkSound
<1>13. CASE skipped
  <2>1. saved = work.saved /\ fired = work.alerts
    BY <1>13 DEF saved, fired
  <2>2. WorkSound'
    BY <1>1, <1>12, <2>1 DEF WorkSound
  <2>3. OpenCursors' = OpenCursors /\ OpenAlerts' = OpenAlerts
    BY <1>1, <1>4, <2>1 DEF OpenCursors, CursorRow, OpenAlerts
  <2>4. QED
    BY <1>1, <1>9, <1>11, <2>2, <2>3 DEF AlertsInv, OpenSound
<1>14. CASE ~skipped
  <2>1. Evaluable(r, o) /\ ~(o.at <= cursor.seen)
    BY <1>14
  <2>2. /\ rule.enabled /\ Active(rule.list) /\ rule.list \in Watchlist
        /\ \E i \in ItemsOf(rule.list, m) : o.at >= Later(rule.effective, i.added)
    BY <1>1, <2>1 DEF Evaluable, AlertRows, RulesKept
  <2>3. PICK i \in ItemsOf(rule.list, m) : o.at >= Later(rule.effective, i.added)
    BY <2>2
  <2>4. i \in ListItem /\ i.added \in AddedAt(lists, rule, m) /\ rule.effective \in Nat /\ i.added \in Nat
    <3>1. /\ lists[rule.list].items \in Seq(ListItem)
      BY <1>1, <2>2 DEF AlertRows, AlertRowsTyped, ListRow
    <3>2. PICK p \in DOMAIN lists[rule.list].items : lists[rule.list].items[p] = i /\ i.market = m
      BY <2>3 DEF ItemsOf, ToSet
    <3>3. i \in ListItem
      BY <3>1, <3>2
    <3>4. i = [market |-> m, added |-> i.added] /\ i.added \in Nat
      BY <3>2, <3>3 DEF ListItem
    <3>5. QED
      BY <1>5, <2>2, <3>2, <3>3, <3>4 DEF AddedAt, RuleRow
  <2>5. o.at >= rule.effective /\ o.at >= i.added
    BY <1>5, <2>3, <2>4 DEF Later
  <2>6. o.at > c0.seen
    BY <1>5, <1>7, <1>8, <2>1 DEF CheckPoint
  <2> DEFINE T == AddedAt(lists, rule, m)
             F == AlarmsOf(OpenAlerts, r, m)
             K == OpenReads[m]
             F2 == IF status = "TRIGGERED" THEN F \cup {alarm} ELSE F
             c2 == Evaluated(cursor, status, o)
  <2>7. alarm \in Alarm
    BY <1>1, <1>5 DEF Alarm, WorkSound, RuleRow
  <2>8. KeySound(T, rule, c0, F, K)
    BY <1>1, <1>5, <1>7 DEF OpenSound, RowsSound
  <2>9. /\ T \in SUBSET Nat /\ F \in SUBSET Alarm /\ K \in SUBSET Reading
    BY <1>5, <1>6 DEF AddedAt, AlarmsOf
  <2>10. /\ alarm.at = o.at /\ alarm.revision = rule.revision /\ alarm.direction = rule.direction
         /\ alarm.rule = r /\ alarm.market = m
    OBVIOUS
  <2>11. c2 \in CheckPoint /\ KeySound(T, rule, c2, F2, K)
    <3> HIDE DEF T, F, K, rule, c0, cursor, status, o, alarm
    <3>1. /\ T \in SUBSET Nat /\ rule \in RuleRow /\ c0 \in CheckPoint /\ F \in SUBSET Alarm
          /\ K \in SUBSET Reading /\ o \in K /\ alarm \in Alarm /\ i.added \in T
      BY <1>5, <1>7, <2>4, <2>7, <2>9 DEF T, K, m
    <3>2. /\ rule.list \in Watchlist /\ o.at >= rule.effective /\ o.at >= i.added /\ o.at > c0.seen
      BY <2>2, <2>5, <2>6
    <3>3. cursor = Current(c0, rule.revision) /\ status = Outcome(cursor, rule, o)
      BY DEF cursor, status
    <3>4. QED
      BY <2>8, <2>10, <3>1, <3>2, <3>3, EvaluationKeeps
  <2>12. /\ saved = [k \in DOMAIN work.saved \cup {key} |-> IF k = key THEN c2 ELSE work.saved[k]]
         /\ fired = IF status = "TRIGGERED" THEN work.alerts \cup {alarm} ELSE work.alerts
    BY <1>14 DEF saved, fired
  <2>13. RaisedUnder(alarm)
    BY <2>2, <2>10 DEF RaisedUnder
  <2> HIDE DEF c2, status, cursor, alarm, c0
  <2>14. WorkSound'
    <3>1. ASSUME NEW k \in DOMAIN saved
          PROVE  /\ k \in CursorKey /\ saved[k] \in CheckPoint
                 /\ rules[k[1]].list \in Watchlist
                 /\ rules[k[1]].list \in work.locked \cup {rule.list}
      <4>1. CASE k = key
        BY <1>5, <2>2, <2>11, <2>12, <4>1
      <4>2. CASE k # key
        BY <1>1, <2>12, <4>2 DEF WorkSound
      <4>3. QED
        BY <4>1, <4>2
    <3>2. fired \in SUBSET Alarm
      BY <1>1, <2>7, <2>12 DEF WorkSound
    <3>3. ASSUME NEW a \in fired
          PROVE  /\ rules[a.rule].list \in Watchlist
                 /\ rules[a.rule].list \in work.locked \cup {rule.list}
                 /\ RaisedUnder(a)
      <4>1. CASE a = alarm
        BY <2>2, <2>10, <2>13, <4>1
      <4>2. CASE a \in work.alerts
        BY <1>1, <4>2 DEF WorkSound
      <4>3. QED
        BY <2>12, <4>1, <4>2
    <3>4. QED
      BY <1>12, <3>1, <3>2, <3>3
  <2>15. \A k \in CursorKey : OpenCursors'[k] = IF k = key THEN c2 ELSE OpenCursors[k]
    <3>1. \A k \in CursorKey : OpenCursors'[k] = IF k \in DOMAIN saved THEN saved[k] ELSE cursors[k]
      BY <1>1, <1>4 DEF OpenCursors, CursorRow
    <3>2. \A k \in CursorKey : OpenCursors[k] = IF k \in DOMAIN work.saved THEN work.saved[k] ELSE cursors[k]
      BY DEF OpenCursors, CursorRow
    <3>3. QED
      BY <2>12, <3>1, <3>2
  <2>16. OpenAlerts' = IF status = "TRIGGERED" THEN OpenAlerts \cup {alarm} ELSE OpenAlerts
    BY <1>1, <1>4, <2>12 DEF OpenAlerts
  <2>17. OpenSound'
    <3> SUFFICES ASSUME NEW x \in AlertRule, NEW y \in WatchedMarket
                 PROVE  KeySound(AddedAt(lists, rules[x], y), rules[x], OpenCursors'[<<x, y>>],
                                 AlarmsOf(OpenAlerts', x, y), OpenReads[y])
      BY <1>1, <1>9 DEF OpenSound, RowsSound
    <3>1. <<x, y>> \in CursorKey
      BY DEF CursorKey
    <3>2. CASE x = r /\ y = m
      <4>1. AlarmsOf(OpenAlerts', x, y) = F2
        BY <2>10, <2>16, <3>2 DEF AlarmsOf
      <4>2. OpenCursors'[<<x, y>>] = c2
        BY <2>15, <3>1, <3>2
      <4>3. QED
        BY <2>11, <3>2, <4>1, <4>2
    <3>3. CASE ~(x = r /\ y = m)
      <4>1. AlarmsOf(OpenAlerts', x, y) = AlarmsOf(OpenAlerts, x, y)
        BY <2>10, <2>16, <3>3 DEF AlarmsOf
      <4>2. OpenCursors'[<<x, y>>] = OpenCursors[<<x, y>>]
        BY <2>15, <3>1, <3>3
      <4>3. QED
        BY <1>1, <4>1, <4>2 DEF OpenSound, RowsSound
    <3>4. QED
      BY <3>2, <3>3
  <2>18. QED
    BY <1>11, <2>14, <2>17 DEF AlertsInv
<1>15. QED
  BY <1>13, <1>14

LEMMA AlertsStep == AlertsInv /\ [AlertsNext]_alertVars => AlertsInv'
<1> SUFFICES ASSUME AlertsInv, [AlertsNext]_alertVars PROVE AlertsInv'
  OBVIOUS
<1>1. CASE UNCHANGED alertVars
  <2>1. AlertRows' /\ CommittedSound'
    BY <1>1 DEF alertVars, AlertsInv, AlertRows, AlertRowsTyped, ListsKeyed, RulesKept, ReadingsKept,
       CommittedSound, CommittedReads
  <2>2. ASSUME work' # NoWork PROVE WorkSound' /\ OpenSound'
    <3>1. WorkSound /\ OpenSound
      BY <1>1, <2>2 DEF alertVars, AlertsInv
    <3>2. OpenReads' = OpenReads /\ OpenCursors' = OpenCursors /\ OpenAlerts' = OpenAlerts
      BY <1>1 DEF alertVars, OpenReads, OpenIngested, OpenCursors, CursorRow, OpenAlerts
    <3>3. \A a : RaisedUnder(a)' <=> RaisedUnder(a)
      BY <1>1 DEF alertVars, RaisedUnder, Active, ItemsOf
    <3>4. WorkSound'
      BY <1>1, <3>1, <3>2, <3>3 DEF alertVars, WorkSound
    <3>5. QED
      BY <1>1, <3>1, <3>2, <3>4 DEF alertVars, OpenSound
  <2>3. QED
    BY <2>1, <2>2 DEF AlertsInv
<1>2. ASSUME NEW l \in Watchlist, ListRequest(l) PROVE AlertsInv'
  BY <1>2, ArchiveKeeps, AddKeeps, RemoveKeeps, ReorderKeeps, SaveKeeps DEF ListRequest
<1>3. CASE AlertWorker
  BY <1>3, BeginKeeps, NextRowKeeps, CommitKeeps, RollbackKeeps, EvaluateKeeps DEF AlertWorker
<1>4. QED
  BY <1>1, <1>2, <1>3, ObserveKeeps DEF AlertsNext

----------------------------------------------------------------------------

LEMMA AlertsAreOK == AlertsInv => AlertsOK /\ OneAlertPerCrossing /\ TriggeredIsShownTruly
<1> SUFFICES ASSUME AlertsInv PROVE AlertsOK /\ OneAlertPerCrossing /\ TriggeredIsShownTruly
  OBVIOUS
<1>1. AlertRows /\ AlertRowsTyped /\ ListsKeyed /\ RulesKept /\ ReadingsKept /\ CommittedSound
  BY DEF AlertsInv, AlertRows
<1>2. \A m \in WatchedMarket : CommittedReads[m] \subseteq Committed(m)
  <2> SUFFICES ASSUME NEW m \in WatchedMarket, NEW o \in ReadUpTo(observed, ingested, m)
               PROVE  o \in Committed(m)
    BY DEF CommittedReads
  <2>1. PICK c \in ObservedBy : \E p \in 1..ingested[c] : observed[c][p] = o
    BY DEF ReadUpTo
  <2>2. PICK p \in 1..ingested[c] : observed[c][p] = o
    BY <2>1
  <2> DEFINE s == SubSeq(observed[c], 1, ingested[c])
  <2>3. DOMAIN s = 1..ingested[c] /\ s[p] = o
    BY <1>1, <2>2 DEF AlertRowsTyped, ReadingsKept
  <2>4. o \in ToSet(s)
    BY <2>3 DEF ToSet
  <2>5. o.market = m
    BY DEF ReadUpTo
  <2>6. QED
    BY <2>4, <2>5 DEF Committed
<1>3. \A r \in AlertRule, m \in WatchedMarket :
        KeySound(AddedAt(lists, rules[r], m), rules[r], cursors[<<r, m>>],
                 AlarmsOf(alerts, r, m), CommittedReads[m])
  BY <1>1 DEF CommittedSound, RowsSound
<1>4. \A l \in Watchlist : Cardinality({i.market : i \in ToSet(lists[l].items)}) = Len(lists[l].items)
  <2> SUFFICES ASSUME NEW l \in Watchlist
               PROVE  Cardinality({i.market : i \in ToSet(lists[l].items)}) = Len(lists[l].items)
    OBVIOUS
  <2> DEFINE items == lists[l].items
             n == Len(items)
             S == {i.market : i \in ToSet(items)}
             f == [p \in 1..n |-> items[p].market]
  <2>1. items \in Seq(ListItem) /\ n \in Nat /\ DOMAIN items = 1..n
    BY <1>1 DEF AlertRowsTyped, ListRow
  <2>2. \A p, q \in 1..n : items[p].market = items[q].market => p = q
    BY <1>1, <2>1 DEF ListsKeyed
  <2>3. ToSet(items) = {items[p] : p \in 1..n}
    BY <2>1 DEF ToSet
  <2>4. f \in [1..n -> S] /\ \A x \in S : \E p \in 1..n : f[p] = x
    BY <2>3
  <2>5. f \in Surjection(1..n, S) /\ f \in Injection(1..n, S)
    <3>1. f \in Surjection(1..n, S)
      BY <2>4 DEF Surjection
    <3>2. f \in Injection(1..n, S)
      BY <2>2, <2>4 DEF Injection, IsInjective
    <3>3. QED
      BY <3>1, <3>2
  <2>6. IsFiniteSet(1..n) /\ Cardinality(1..n) = n
    <3>1. n \in Nat
      BY <2>1
    <3> HIDE DEF n
    <3>2. IsFiniteSet(1..n) /\ Cardinality(1..n) = IF 1 <= n THEN n - 1 + 1 ELSE 0
      BY <3>1, FS_Interval
    <3>3. QED
      BY <3>1, <3>2
  <2>7. QED
    BY <2>5, <2>6, FS_Surjection
<1>5. AlertsOK
  <2>1. \A l \in Watchlist : Len(lists[l].items) <= MaxItems
    BY <1>1 DEF ListsKeyed
  <2>2. \A r \in AlertRule : rules[r].revision \in 0..MaxRevisions
    BY <1>1, AlertsAssumption DEF RulesKept, AlertRowsTyped, RuleRow
  <2>3. \A a \in alerts : \E o \in Committed(a.market) : o.at = a.at
    <3> SUFFICES ASSUME NEW a \in alerts PROVE \E o \in Committed(a.market) : o.at = a.at
      OBVIOUS
    <3>1. a.rule \in AlertRule /\ a.market \in WatchedMarket
      BY <1>1 DEF AlertRowsTyped, Alarm
    <3>2. a \in AlarmsOf(alerts, a.rule, a.market)
      BY DEF AlarmsOf
    <3>3. \E o \in CommittedReads[a.market] : o.at = a.at
      BY <1>3, <3>1, <3>2 DEF KeySound, AlarmsSound
    <3>4. QED
      BY <1>2, <3>1, <3>3
  <2>4. \A k \in CursorKey : cursors[k].seen = 0 \/ \E o \in Committed(k[2]) : o.at = cursors[k].seen
    <3> SUFFICES ASSUME NEW r \in AlertRule, NEW m \in WatchedMarket
                 PROVE  cursors[<<r, m>>].seen = 0 \/ \E o \in Committed(m) : o.at = cursors[<<r, m>>].seen
      BY DEF CursorKey
    <3>1. QED
      BY <1>2, <1>3 DEF KeySound, CursorSound
  <2>5. QED
    BY <1>1, <1>4, <2>1, <2>2, <2>3, <2>4 DEF AlertsOK, AlertRowsTyped
<1>6. ASSUME NEW a \in alerts, SinceAdded(a)
      PROVE  /\ a.rule \in AlertRule /\ a.market \in WatchedMarket
             /\ a \in AlarmsOf(alerts, a.rule, a.market)
             /\ Since(AddedAt(lists, rules[a.rule], a.market), a)
  <2>1. a.rule \in AlertRule /\ a.market \in WatchedMarket
    BY <1>1 DEF AlertRowsTyped, Alarm
  <2>2. a \in AlarmsOf(alerts, a.rule, a.market)
    BY DEF AlarmsOf
  <2>3. rules[a.rule].list \in Watchlist
    BY <1>3, <2>1, <2>2 DEF KeySound, AlarmsSound
  <2>4. PICK i \in ItemsOf(rules[a.rule].list, a.market) : a.at > i.added
    BY <1>6 DEF SinceAdded
  <2>5. i.added \in AddedAt(lists, rules[a.rule], a.market)
    <3>1. lists[rules[a.rule].list].items \in Seq(ListItem)
      BY <1>1, <2>3 DEF AlertRowsTyped, ListRow
    <3>2. PICK p \in DOMAIN lists[rules[a.rule].list].items :
            lists[rules[a.rule].list].items[p] = i /\ i.market = a.market
      BY DEF ItemsOf, ToSet
    <3>3. i \in ListItem
      BY <3>1, <3>2
    <3>4. i = [market |-> a.market, added |-> i.added] /\ i.added \in Nat
      BY <3>2, <3>3 DEF ListItem
    <3>5. QED
      BY <2>3, <3>2, <3>4 DEF AddedAt
  <2>6. QED
    BY <2>1, <2>2, <2>4, <2>5 DEF Since
<1>7. OneAlertPerCrossing
  <2> SUFFICES ASSUME NEW a \in alerts, NEW b \in alerts, SinceAdded(a), SinceAdded(b),
                      a.rule = b.rule, a.market = b.market, a # b, a.at <= b.at
               PROVE  /\ a.at < b.at /\ b.at - a.at >= Cooldown
                      /\ a.revision = b.revision =>
                           \E o \in Committed(a.market) :
                               /\ a.at < o.at /\ o.at < b.at
                               /\ o.value # NoValue /\ ~Matches(a.direction, o.value)
    BY DEF OneAlertPerCrossing
  <2> DEFINE T == AddedAt(lists, rules[a.rule], a.market)
             F == AlarmsOf(alerts, a.rule, a.market)
             K == CommittedReads[a.market]
  <2>1. a \in F /\ b \in F /\ Since(T, a) /\ Since(T, b) /\ Spaced(T, F, K)
    BY <1>3, <1>6 DEF KeySound
  <2>2. /\ a.at < b.at /\ b.at - a.at >= Cooldown
        /\ a.revision = b.revision => Between(K, a.at, b.at, a.direction)
    <3> HIDE DEF T, F, K
    <3>1. QED
      BY <2>1 DEF Spaced
  <2>3. K \subseteq Committed(a.market)
    BY <1>2, <1>6
  <2>4. QED
    BY <2>2, <2>3 DEF Between
<1>8. TriggeredIsShownTruly
  <2> SUFFICES ASSUME NEW r \in AlertRule, NEW m \in WatchedMarket, ShownStatus(r, m) = "TRIGGERED"
               PROVE  \E a \in alerts : a.rule = r /\ a.market = m /\ a.revision = rules[r].revision
                                        /\ a.at >= rules[r].effective
                                        /\ \E i \in ItemsOf(rules[r].list, m) : a.at >= i.added
    BY DEF TriggeredIsShownTruly
  <2>1. cursors[<<r, m>>].revision = rules[r].revision /\ cursors[<<r, m>>].status = "TRIGGERED"
    BY DEF ShownStatus
  <2>2. PICK a \in AlarmsOf(alerts, r, m) :
          /\ a.revision = rules[r].revision /\ a.at >= rules[r].effective
          /\ \E t \in AddedAt(lists, rules[r], m) : a.at >= t
    BY <1>3, <2>1 DEF KeySound, ShownSound
  <2>3. PICK t \in AddedAt(lists, rules[r], m) : a.at >= t
    BY <2>2
  <2>4. PICK p \in DOMAIN lists[rules[r].list].items :
          lists[rules[r].list].items[p] = [market |-> m, added |-> t]
    BY <2>3 DEF AddedAt
  <2>5. [market |-> m, added |-> t] \in ItemsOf(rules[r].list, m)
    BY <2>4 DEF ItemsOf, ToSet
  <2>6. QED
    BY <2>2, <2>3, <2>5 DEF AlarmsOf
<1>9. QED
  BY <1>5, <1>7, <1>8

\* An alert appears when the worker commits, for a rule the open transaction has locked.
LEMMA AlertsAreRaised ==
    AlertsInv /\ [AlertsNext]_alertVars => \A a \in alerts' \ alerts : RaisedUnder(a)
<1> SUFFICES ASSUME AlertsInv, [AlertsNext]_alertVars, NEW a \in alerts' \ alerts PROVE RaisedUnder(a)
  OBVIOUS
<1>1. CommitBatch
  BY DEF AlertsNext, alertVars, ListRequest, AlertWorker, ArchiveList, AddItem, RemoveItem, Reorder,
     SaveRule, Observe, BeginBatch, NextRow, RollbackBatch, EvaluateRule
<1>2. WorkSound /\ a \in work.alerts
  BY <1>1 DEF CommitBatch, AlertsInv
<1>3. QED
  BY <1>2 DEF WorkSound

\* Alerts are raised under the rule as it stands, once per crossing, and are what a
\* member is shown, for any lists, rules, markets and collectors, in whatever order
\* requests, batches and rollbacks come (alerts/evaluation.py, alerts/services.py).
THEOREM AlertsStaySound == AlertsSpec => AlertsAreSound
<1>1. AlertsInv /\ [AlertsNext]_alertVars =>
        [\A a \in alerts' \ alerts :
           LET rule == rules[a.rule] IN
           /\ rule.enabled /\ Active(rule.list) /\ a.revision = rule.revision
           /\ \E i \in ItemsOf(rule.list, a.market) : a.at >= Later(rule.effective, i.added)]_alertVars
  BY AlertsAreRaised DEF RaisedUnder
<1>2. QED
  BY <1>1, AlertsInitially, AlertsStep, AlertsAreOK, PTL DEF AlertsSpec, AlertsAreSound, RaisedUnderTheRule
================================================================================
