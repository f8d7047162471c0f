------------------------------ MODULE Members ------------------------------
(***************************************************************************)
(* The members of one organization: the routes of /api/app/members, the    *)
(* leave, transfer and delete of /api/app/orgs, the invitations, and the   *)
(* transactions of member-store.ts they end in.  The transactions run at   *)
(* the database's default isolation, read committed, and take no lock: two *)
(* of them may read before either writes.  A write is one step: nobody     *)
(* sees a part of it, and a row it waits for is read again.                *)
(***************************************************************************)
EXTENDS Naturals, FiniteSets, TLC

CONSTANTS
  Users,     \* signed-in accounts
  Founder,   \* the one who created the organization
  Requests,  \* requests the server may be working on at once
  Seats,     \* the plan's limit of members and pending invitations
  None       \* null

VARIABLES
  org,      \* whether the organization's row is there
  role,     \* the members rows: None is no member
  invited,  \* the pending invitations by address, with their role
  reqs      \* the handlers

vars == <<org, role, invited, reqs>>

Roles == {"owner", "admin", "member", "viewer"}
Managers == {"owner", "admin"}

\* Up to one's own role.
AssignableRoles(r) ==
  CASE r = "owner" -> Roles
    [] r = "admin" -> Roles \ {"owner"}
    [] r = "member" -> {"member", "viewer"}
    [] OTHER -> {"viewer"}

Ops == {"patch", "remove", "transfer", "delete", "invite"}
Idle == [pc |-> "idle"]
Working == [pc: {"look", "read", "count", "write"}, op: Ops,
            actor: Users, as: Roles, target: Users, to: Roles]

TypeOK ==
  /\ org \in BOOLEAN
  /\ role \in [Users -> Roles \cup {None}]
  /\ invited \in [Users -> Roles \cup {None}]
  /\ reqs \in [Requests -> Working \cup {Idle}]

Init ==
  /\ org = TRUE
  /\ role = [u \in Users |-> IF u = Founder THEN "owner" ELSE None]
  /\ invited = [u \in Users |-> None]
  /\ reqs = [r \in Requests |-> Idle]

Owners == {u \in Users : role[u] = "owner"}
SeatsUsed == Cardinality({u \in Users : role[u] # None}) + Cardinality({u \in Users : invited[u] # None})

-----------------------------------------------------------------------------
\* appPrincipal: the role is read once, here, and decides what the request may do.
\* A request that sets no role has "viewer" for it, less than an owner.
Admit(r, op, pc, a, t, to) ==
  /\ reqs[r] = Idle /\ org /\ role[a] # None
  /\ reqs' = [reqs EXCEPT ![r] = [pc |-> pc, op |-> op, actor |-> a, as |-> role[a],
                                  target |-> t, to |-> to]]
  /\ UNCHANGED <<org, role, invited>>

PatchMember(r, a, t, to) ==
  role[a] \in Managers /\ Admit(r, "patch", "look", a, t, to)

DeleteMember(r, a, t) ==
  /\ a = t \/ role[a] \in Managers
  /\ Admit(r, "remove", "look", a, t, "viewer")

LeaveOrg(r, a) == Admit(r, "remove", "read", a, a, "viewer")

TransferOrg(r, a, t) ==
  role[a] = "owner" /\ a # t /\ Admit(r, "transfer", "read", a, t, "owner")

DeleteOrg(r, a) ==
  role[a] = "owner" /\ Admit(r, "delete", "write", a, a, "viewer")

MayInvite(a, to) == role[a] \in Managers /\ to \in AssignableRoles(role[a])

CreateInvitation(r, a, t, to) ==
  MayInvite(a, to) /\ Admit(r, "invite", "look", a, t, to)

-----------------------------------------------------------------------------
Goes(r, pc) == reqs' = [reqs EXCEPT ![r].pc = pc] /\ UNCHANGED <<org, role, invited>>
Answers(r) == reqs' = [reqs EXCEPT ![r] = Idle]
Refuses(r) == Answers(r) /\ UNCHANGED <<org, role, invited>>

\* What the routes check before the transaction: an unknown member, an admin who
\* acts on an owner, a role above one's own, a patch that changes nothing.
MayGoOn(q) ==
  LET current == role[q.target] IN
  CASE q.op = "patch" ->
         /\ current # None /\ (current = "owner" => q.as = "owner")
         /\ q.to \in AssignableRoles(q.as) /\ current # q.to
    [] q.op = "remove" ->
         current # None /\ (current = "owner" /\ q.actor # q.target => q.as = "owner")
    [] OTHER -> current = None /\ invited[q.target] = None /\ SeatsUsed < Seats

Look(r) ==
  /\ reqs[r].pc = "look"
  /\ IF MayGoOn(reqs[r]) THEN Goes(r, IF reqs[r].op = "invite" THEN "write" ELSE "read")
     ELSE Refuses(r)

\* memberRow in the transaction: only what takes an owner away counts the owners.
Read(r) ==
  LET q == reqs[r]
      current == role[q.target]
      allowed == IF q.op = "transfer" THEN current = "admin" ELSE current # None
      demotes == current = "owner" /\ q.to # "owner"
  IN /\ q.pc = "read"
     /\ IF ~allowed THEN Refuses(r)
        ELSE IF demotes THEN Goes(r, "count") ELSE Goes(r, "write")

CountOwners(r) ==
  /\ reqs[r].pc = "count"
  /\ IF Cardinality(Owners) <= 1 THEN Refuses(r) ELSE Goes(r, "write")

\* The rows the three transactions write: a member who is gone has none.
RolesAfter(q) ==
  CASE q.op = "patch" -> (q.target :> q.to)
    [] q.op = "remove" -> (q.target :> None)
    [] q.op = "transfer" -> (q.target :> "owner") @@ (q.actor :> "admin")

SetRoles(r) ==
  LET q == reqs[r]
      after == RolesAfter(q)
  IN /\ q.pc = "write" /\ q.op \in {"patch", "remove", "transfer"}
     /\ role' = [u \in Users |-> IF u \in DOMAIN after /\ role[u] # None THEN after[u] ELSE role[u]]
     /\ Answers(r) /\ UNCHANGED <<org, invited>>

\* The rows of the members and of the invitations go with the organization's.
DeleteOrgRow(r) ==
  /\ reqs[r].pc = "write" /\ reqs[r].op = "delete" /\ Answers(r)
  /\ org' = FALSE
  /\ role' = [u \in Users |-> None] /\ invited' = [u \in Users |-> None]

\* The plugin asks again for the caller's role, and refuses a second pending invitation
\* of an address, and a member.
InsertInvitation(r) ==
  LET q == reqs[r] IN
  /\ q.pc = "write" /\ q.op = "invite" /\ Answers(r)
  /\ invited' = IF MayInvite(q.actor, q.to) /\ role[q.target] = None /\ invited[q.target] = None
                THEN [invited EXCEPT ![q.target] = q.to] ELSE invited
  /\ UNCHANGED <<org, role>>

\* The update names the invitation and asks that it is pending: when it was asked for
\* makes no difference.
RevokeInvitation(a, t) ==
  /\ role[a] \in Managers /\ invited[t] # None
  /\ invited' = [invited EXCEPT ![t] = None]
  /\ UNCHANGED <<org, role, reqs>>

\* The accept-invitation of Better Auth, which the browser calls itself.  An invitation
\* that expires is no different from one that nobody accepts.
AcceptInvitation(u) ==
  /\ invited[u] # None /\ role[u] = None
  /\ role' = [role EXCEPT ![u] = invited[u]]
  /\ invited' = [invited EXCEPT ![u] = None]
  /\ UNCHANGED <<org, reqs>>

-----------------------------------------------------------------------------
Begin(r, a) ==
  \/ \E t \in Users, to \in Roles : PatchMember(r, a, t, to) \/ CreateInvitation(r, a, t, to)
  \/ \E t \in Users : DeleteMember(r, a, t) \/ TransferOrg(r, a, t)
  \/ LeaveOrg(r, a) \/ DeleteOrg(r, a)

Next ==
  \/ \E r \in Requests :
       \/ \E a \in Users : Begin(r, a)
       \/ Look(r) \/ Read(r) \/ CountOwners(r)
       \/ SetRoles(r) \/ DeleteOrgRow(r) \/ InsertInvitation(r)
  \/ \E u \in Users : AcceptInvitation(u) \/ \E a \in Users : RevokeInvitation(a, u)

Spec == Init /\ [][Next]_vars

\* member-store.ts, of the invariants that live in it: "An org always has an owner.
\* removeMember and setMemberRole refuse the last one, and transferOwnership swaps the
\* two roles in one transaction."
OrgHasOwner == org => Owners # {}

\* member-store.ts, of the other: "An admin never acts on an owner."  The route asks
\* before the transaction; a member made owner in between is demoted or removed.
AdminsSpareOwners ==
  [][\A r \in Requests, u \in Users :
       SetRoles(r) /\ role[u] = "owner" /\ role'[u] # "owner" => reqs[r].as = "owner" \/ reqs[r].actor = u]_vars
=============================================================================
