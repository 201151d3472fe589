----------------------------- MODULE Organizations -----------------------------
(***************************************************************************)
(* Accounts, organizations and their members (accounts/services.py,        *)
(* accounts/administration.py, organizations/services.py and policies.py). *)
(*                                                                         *)
(* Every membership write locks the organization's row and reads the rows  *)
(* it decides on afterwards: one step, taken while nobody holds the lock.  *)
(* Disabling an account locks the account and then each of its             *)
(* organizations, so it is several.  A request carries the account that    *)
(* was read when it was authenticated, before it waits for a lock.  The    *)
(* repository has no invitation: organizations of several members are      *)
(* initial states, as its tests make them.                                 *)
(***************************************************************************)
EXTENDS Integers, FiniteSets

CONSTANTS
    User, Org,
    Shared          \* the organization that may have several members from the start

ASSUME OrganizationsAssumption == Shared \in Org

VARIABLES
    account,        \* "NONE", "ACTIVE" or "INACTIVE"
    roles,          \* of each organization and user; "NONE" without a membership
    requesting,     \* authenticated requests that have not run
    disabling       \* of each account: how far its disabling is, and what it locked

orgVars == <<account, roles, requesting, disabling>>

Role == {"OWNER", "ADMIN", "MEMBER", "VIEWER"}
Member(o, u) == roles[o][u] # "NONE"
Exists(o) == \E u \in User : Member(o, u)
OrgsOf(u) == {o \in Org : Member(o, u)}

\* Owners whose account is active.
Owners(o) == {u \in User : roles[o][u] = "OWNER" /\ account[u] = "ACTIVE"}

NotDisabling == [stage |-> "NONE", locked |-> {}]
Disabling(u) == disabling[u] # NotDisabling
OrgUnlocked(o) == \A u \in User : o \notin disabling[u].locked
UserUnlocked(u) == ~Disabling(u)

\* Mutant: an owner whose account is disabled counts.
AnotherOwnerAtAll(o, u) == \E other \in User \ {u} : roles[o][other] = "OWNER"
AnotherOwner(o, u) == Owners(o) \ {u} # {}

\* _protect_last_owner
LastOwnerProtected(o, u) == roles[o][u] = "OWNER" => AnotherOwner(o, u)

-----------------------------------------------------------------------------

\* create_organization, of an account that is locked and active.
CreateOrganization(u, o) ==
    /\ account[u] = "ACTIVE" /\ UserUnlocked(u) /\ ~Exists(o)
    /\ roles' = [roles EXCEPT ![o][u] = "OWNER"]
    /\ UNCHANGED <<account, requesting, disabling>>

\* register_user: the account with its personal workspace.
Register(u, o) ==
    /\ account[u] = "NONE" /\ ~Exists(o)
    /\ account' = [account EXCEPT ![u] = "ACTIVE"]
    /\ roles' = [roles EXCEPT ![o][u] = "OWNER"]
    /\ UNCHANGED <<requesting, disabling>>

Authenticate(u) ==
    /\ account[u] = "ACTIVE" /\ u \notin requesting
    /\ requesting' = requesting \union {u}
    /\ UNCHANGED <<account, roles, disabling>>

\* require_org_role behind the organization's lock.
Acts(u, o, permitted) ==
    /\ u \in requesting /\ OrgUnlocked(o) /\ roles[o][u] \in permitted
    /\ requesting' = requesting \ {u}
    /\ UNCHANGED <<account, disabling>>

\* change_member_role
ChangeMemberRole(u, o, target, role) ==
    /\ Acts(u, o, {"OWNER", "ADMIN"})
    /\ Member(o, target)
    /\ roles[o][u] = "ADMIN" => {roles[o][target], role} \intersect {"OWNER", "ADMIN"} = {}
    /\ role # "OWNER" => LastOwnerProtected(o, target)
    /\ role = "OWNER" => account[target] = "ACTIVE"
    /\ roles' = [roles EXCEPT ![o][target] = role]

\* remove_member: of oneself, or of a member one may manage.
RemoveMember(u, o, target) ==
    /\ Acts(u, o, Role)
    /\ Member(o, target)
    /\ target # u => \/ roles[o][u] = "OWNER"
                     \/ roles[o][u] = "ADMIN" /\ roles[o][target] \notin {"OWNER", "ADMIN"}
    /\ LastOwnerProtected(o, target)
    /\ roles' = [roles EXCEPT ![o][target] = "NONE"]

\* A request that is refused, wherever it stops.
Refuse(u) ==
    /\ u \in requesting /\ requesting' = requesting \ {u}
    /\ UNCHANGED <<account, roles, disabling>>

\* set_account_active(active = False): the account's row is locked first,
BeginDisabling(u) ==
    /\ account[u] = "ACTIVE" /\ UserUnlocked(u)
    /\ disabling' = [disabling EXCEPT ![u].stage = "LOCKING"]
    /\ UNCHANGED <<account, roles, requesting>>

\* then its organizations one after another.
LockOrganization(u, o) ==
    /\ disabling[u].stage = "LOCKING" /\ o \in OrgsOf(u) \ disabling[u].locked /\ OrgUnlocked(o)
    /\ disabling' = [disabling EXCEPT ![u].locked = @ \union {o}]
    /\ UNCHANGED <<account, roles, requesting>>

\* It is refused when one of them would be left without an active owner.
CheckOwners(u) ==
    /\ disabling[u].stage = "LOCKING" /\ OrgsOf(u) \subseteq disabling[u].locked
    /\ disabling' = [disabling EXCEPT ![u] =
                       IF \E o \in OrgsOf(u) : Owners(o) = {u} THEN NotDisabling
                       ELSE [stage |-> "CLEARED", locked |-> disabling[u].locked]]
    /\ UNCHANGED <<account, roles, requesting>>

Disable(u) ==
    /\ disabling[u].stage = "CLEARED"
    /\ account' = [account EXCEPT ![u] = "INACTIVE"]
    /\ disabling' = [disabling EXCEPT ![u] = NotDisabling]
    /\ UNCHANGED <<roles, requesting>>

Enable(u) ==
    /\ account[u] = "INACTIVE" /\ UserUnlocked(u)
    /\ account' = [account EXCEPT ![u] = "ACTIVE"]
    /\ UNCHANGED <<roles, requesting, disabling>>

NoMembers == [u \in User |-> "NONE"]
OrganizationsInit ==
    /\ account \in [User -> {"NONE", "ACTIVE", "INACTIVE"}]
    /\ \E members \in [User -> Role \union {"NONE"}] :
         /\ \A u \in User : members[u] # "NONE" => account[u] # "NONE"
         /\ members = NoMembers \/ \E u \in User : members[u] = "OWNER" /\ account[u] = "ACTIVE"
         /\ roles = [o \in Org |-> IF o = Shared THEN members ELSE NoMembers]
    /\ requesting = {} /\ disabling = [u \in User |-> NotDisabling]

OrganizationsNext ==
    \E u \in User :
      \/ \E o \in Org :
           \/ CreateOrganization(u, o)
           \/ Register(u, o)
           \/ \E target \in User, role \in Role : ChangeMemberRole(u, o, target, role)
           \/ \E target \in User : RemoveMember(u, o, target)
           \/ LockOrganization(u, o)
      \/ Authenticate(u)
      \/ Refuse(u)
      \/ BeginDisabling(u)
      \/ CheckOwners(u)
      \/ Disable(u)
      \/ Enable(u)

OrganizationsSpec == OrganizationsInit /\ [][OrganizationsNext]_orgVars

-----------------------------------------------------------------------------

\* Whatever its owners do to each other at the same time, and whichever accounts the
\* platform disables meanwhile, an organization always has an owner who can sign in.
ActiveOwnerRemains == \A o \in Org : Exists(o) => Owners(o) # {}
=============================================================================
