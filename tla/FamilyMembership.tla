---------------------------- MODULE FamilyMembership ----------------------------
(***************************************************************************)
(* One family and what its membership promises: it is changed by one       *)
(* command of family-service.ts at a time, each judged on the current      *)
(* aggregate, and a parent gets in only with an invitation of their own.   *)
(* FamilyRequests gives the transactions that implement this.              *)
(*                                                                         *)
(* Capabilities are left out (an invitation carries CHILD_POLICY), and so  *)
(* is the family's status, which nothing moves from ACTIVE.                *)
(***************************************************************************)
EXTENDS Integers

CONSTANTS
  Parents,   \* ids of parents
  Owner,     \* the parent who creates the family
  Children,  \* ids of children
  Tokens,    \* ids of invitation tokens
  None       \* no id

ASSUME FamilyMembershipAssumption ==
  /\ Owner \in Parents
  /\ None \notin Parents \cup Children \cup Tokens

VARIABLES
  family,  \* the rows of families, parent_memberships and child_profiles
  token    \* the rows of invitation_tokens

membershipVars == <<family, token>>

MembershipStatuses == {"NONE", "ACTIVE", "REVOKED"}

Families ==
  [version : Nat, parents : [Parents -> MembershipStatuses], children : SUBSET Children]

NoFamily ==
  [version |-> 0, parents |-> [p \in Parents |-> "NONE"], children |-> {}]

(* The creator is an ACTIVE member and the owner. *)
NewFamily == [NoFamily EXCEPT !.version = 1, !.parents[Owner] = "ACTIVE"]

InvitationTokens ==
  [status : {"ABSENT", "PENDING", "ACCEPTED"}, invitee : Parents \cup {None}]

NoToken == [status |-> "ABSENT", invitee |-> None]
Pending(p) == [status |-> "PENDING", invitee |-> p]
Accepted(row) == [row EXCEPT !.status = "ACCEPTED"]

-----------------------------------------------------------------------------
(* When a command of family-service.ts does not throw, and the aggregate it  *)
(* returns.                                                                  *)

AddChildAllowed(f, actor, child) == f.parents[actor] = "ACTIVE" /\ child \notin f.children

WithChild(f, child) ==
  [f EXCEPT !.version = f.version + 1, !.children = f.children \cup {child}]

InviteParentAllowed(f, actor, invitee) ==
  /\ actor = Owner /\ f.parents[actor] = "ACTIVE"
  /\ f.parents[invitee] # "ACTIVE"

Invited(f) == [f EXCEPT !.version = f.version + 1]

(* That the invitee may be an ACTIVE member already is not looked at. *)
AcceptInvitationAllowed(row, actor) == row.invitee = actor /\ row.status = "PENDING"

WithParent(f, p, status) ==
  [f EXCEPT !.version = f.version + 1, !.parents[p] = status]

RevokeParentAllowed(f, actor, target) ==
  /\ actor = Owner /\ f.parents[actor] = "ACTIVE"
  /\ target # actor /\ f.parents[target] = "ACTIVE"

-----------------------------------------------------------------------------
Init ==
  /\ family = NoFamily
  /\ token = [t \in Tokens |-> NoToken]

CreateFamily ==
  /\ family.version = 0
  /\ family' = NewFamily
  /\ UNCHANGED token

AddChild(actor, child) ==
  /\ AddChildAllowed(family, actor, child)
  /\ family' = WithChild(family, child)
  /\ UNCHANGED token

InviteParent(actor, invitee, t) ==
  /\ InviteParentAllowed(family, actor, invitee)
  /\ token[t] = NoToken
  /\ family' = Invited(family)
  /\ token' = [token EXCEPT ![t] = Pending(invitee)]

AcceptInvitation(actor, t) ==
  /\ AcceptInvitationAllowed(token[t], actor)
  /\ family' = WithParent(family, actor, "ACTIVE")
  /\ token' = [token EXCEPT ![t] = Accepted(@)]

RevokeParent(actor, target) ==
  /\ RevokeParentAllowed(family, actor, target)
  /\ family' = WithParent(family, target, "REVOKED")
  /\ UNCHANGED token

Next ==
  \/ CreateFamily
  \/ \E actor \in Parents :
       \/ \E child \in Children : AddChild(actor, child)
       \/ \E p \in Parents : RevokeParent(actor, p)
       \/ \E t \in Tokens :
            \/ AcceptInvitation(actor, t)
            \/ \E p \in Parents : InviteParent(actor, p, t)

Spec == Init /\ [][Next]_membershipVars

=============================================================================
