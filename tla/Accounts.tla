------------------------------ MODULE Accounts ------------------------------
(***************************************************************************)
(* Users, businesses and invitations: first contact by phone or e-mail,    *)
(* Clerk's webhooks and logins (services/auth_service,                     *)
(* api/dependencies/clerk_auth), invitations (services/invitation), and    *)
(* the team tools of the chat (tool_executor).                             *)
(*                                                                         *)
(* A person has one identity, which the unique columns phone_number, email *)
(* and clerk_id keep in one row.  Webhooks are one transaction each; Clerk *)
(* delivers them late, repeatedly and in any order.  A chat turn has       *)
(* loaded its user, and its invitation, before it writes: it holds copies. *)
(***************************************************************************)
EXTENDS Naturals

CONSTANTS
    People, Businesses, Orgs,  \* Orgs: the businesses Clerk knows as organisations
    Invites,
    Turns,          \* chat turns and requests with a session of their own
    NoUser,
    MaxActs         \* bound: operations begun

UserRole == {"OWNER", "MANAGER", "EMPLOYEE"}
InvitationStatus == {"PENDING", "ACCEPTED", "EXPIRED"}

ASSUME AccountsAssumption ==
    /\ People # {} /\ Businesses # {} /\ Orgs \subseteq Businesses
    /\ MaxActs \in Nat
    /\ NoUser \notin Invites \cup [business : Businesses, to : People, status : InvitationStatus]
                       \cup [business : Businesses, role : UserRole, clerk : BOOLEAN, chats : BOOLEAN]

VARIABLES
    user,       \* users table, by identity
    business,   \* ids of the businesses table
    invitation, \* invitations table
    turn,       \* what each turn is doing, and the copies it holds
    joins,      \* history: joins committed per invitation
    twice,      \* history: invitations two turns had read as pending at once
    acts        \* operations begun

accountVars == <<user, business, invitation, turn, joins, twice, acts>>

-----------------------------------------------------------------------------
\* A user: linked to Clerk, and with a row of conversation_states.
UserRow == [business : Businesses, role : UserRole, clerk : BOOLEAN, chats : BOOLEAN]
InvitationRow == [business : Businesses, to : People, status : InvitationStatus]
TurnRecord == [at : {"idle", "join", "promote", "dismiss"},
               who : People, copy : UserRow \cup {NoUser},
               invite : Invites \cup {NoUser}, business : Businesses]

Users == {p \in People : user[p] # NoUser}
Team(b) == {p \in Users : user[p].business = b}
Pending(i) == invitation[i] # NoUser /\ invitation[i].status = "PENDING"
Idle(t) == turn[t].at = "idle"
NoTurn == [at |-> "idle", who |-> CHOOSE p \in People : TRUE, copy |-> NoUser,
           invite |-> NoUser, business |-> CHOOSE b \in Businesses : TRUE]

AccountsInit ==
    /\ user = [p \in People |-> NoUser]
    /\ business = {}
    /\ invitation = [i \in Invites |-> NoUser]
    /\ turn = [t \in Turns |-> NoTurn]
    /\ joins = [i \in Invites |-> 0]
    /\ twice = {} /\ acts = 0

Act == acts < MaxActs /\ acts' = acts + 1
Fresh(b) == b \in Businesses \ (business \cup Orgs)
\* Who comes by a message is given a conversation row in the same transaction, who
\* comes by Clerk is not.
Insert(p, b, clerk) ==
    user' = [user EXCEPT ![p] = [business |-> b, role |-> "OWNER", clerk |-> clerk,
                                 chats |-> ~clerk]]

\* The RBAC table: the lowest role that may use a tool.
Level(role) == CASE role = "EMPLOYEE" -> 1 [] role = "MANAGER" -> 2 [] role = "OWNER" -> 3
Needs(tool) == IF tool \in {"promote", "dismiss", "invite"} THEN "OWNER" ELSE "EMPLOYEE"
\* execute reads the caller's row and refuses a role below the tool's.
Permitted(p, tool) == p \in Users /\ Level(user[p].role) >= Level(Needs(tool))

-----------------------------------------------------------------------------
(* First contact, and Clerk *)

\* get_or_create_user(_by_identity): an unknown sender gets a business, as its
\* owner; both rows are flushed together (a second insert of the identity fails).
FirstContact(p) ==
    /\ Act /\ p \notin Users
    /\ \E b \in Businesses :
         /\ Fresh(b)
         /\ business' = business \cup {b}
         /\ Insert(p, b, FALSE)
    /\ UNCHANGED <<invitation, turn, joins, twice>>

\* The first message, or draft in the web chat, of a user who has no conversation row.
Chat(p) ==
    /\ Act /\ p \in Users /\ ~user[p].chats
    /\ user' = [user EXCEPT ![p].chats = TRUE]
    /\ UNCHANGED <<business, invitation, turn, joins, twice>>

\* user.created and user.updated: the row is found by Clerk id or e-mail and
\* linked, or a new one is made with a personal business.
SyncClerkUser(p) ==
    /\ Act
    /\ IF p \in Users
       THEN user' = [user EXCEPT ![p].clerk = TRUE] /\ UNCHANGED business
       ELSE \E b \in Businesses :
              /\ Fresh(b)
              /\ business' = business \cup {b}
              /\ Insert(p, b, TRUE)
    /\ UNCHANGED <<invitation, turn, joins, twice>>

\* organization.created and .updated.
SyncClerkOrg(b) ==
    /\ Act /\ b \in Orgs
    /\ business' = business \cup {b}
    /\ UNCHANGED <<user, invitation, turn, joins, twice>>

\* organizationMembership.created: dropped while the user or the organisation is
\* unknown; a role name that is not known leaves the role.
SyncClerkMembership(p, b, role) ==
    /\ Act /\ b \in Orgs \cap business
    /\ p \in Users /\ user[p].clerk
    /\ user' = [user EXCEPT ![p].business = b, ![p].role = role]
    /\ UNCHANGED <<business, invitation, turn, joins, twice>>

\* user.deleted: the conversation row is deleted first.
DeleteClerkUser(p) ==
    /\ Act /\ p \in Users /\ user[p].clerk
    /\ user' = [user EXCEPT ![p] = NoUser]
    /\ UNCHANGED <<business, invitation, turn, joins, twice>>

\* A login whose Clerk id is unknown: the organisation is created if need be;
\* an account of that e-mail is linked and stays where it is, else a new one
\* becomes an owner of the organisation.
JitCreateUser(p, b) ==
    /\ Act /\ b \in Orgs
    /\ p \in Users => ~user[p].clerk
    /\ business' = business \cup {b}
    /\ IF p \in Users THEN user' = [user EXCEPT ![p].clerk = TRUE] ELSE Insert(p, b, TRUE)
    /\ UNCHANGED <<invitation, turn, joins, twice>>

\* POST /onboarding/choice, create: the user keeps the business, as its owner.
ChooseCreate(p) ==
    /\ Act /\ p \in Users /\ user[p].clerk
    /\ user' = [user EXCEPT ![p].role = "OWNER"]
    /\ UNCHANGED <<business, invitation, turn, joins, twice>>

-----------------------------------------------------------------------------
(* Invitations *)

\* create_invitation: a pending one for this business is only extended.
CreateInvitation(p, to) ==
    LET b == user[p].business IN
    /\ Act /\ Permitted(p, "invite")
    /\ ~\E i \in Invites : Pending(i) /\ invitation[i].to = to /\ invitation[i].business = b
    /\ \E i \in Invites :
         /\ invitation[i] = NoUser
         /\ invitation' = [invitation EXCEPT ![i] = [business |-> b, to |-> to, status |-> "PENDING"]]
    /\ UNCHANGED <<user, business, turn, joins, twice>>

\* process_join: by a token anyone may hold, or as the invitee of a pending
\* invitation; the turn has loaded its user before.
JoinRead(t, p, i) ==
    /\ Act /\ Idle(t) /\ Pending(i)
    /\ turn' = [turn EXCEPT ![t] = [at |-> "join", who |-> p, copy |-> user[p],
                                    invite |-> i, business |-> invitation[i].business]]
    /\ twice' = IF \E u \in Turns : turn[u].at = "join" /\ turn[u].invite = i
                THEN twice \cup {i} ELSE twice
    /\ UNCHANGED <<user, business, invitation, joins>>

\* ... or by the business's permanent code, which no invitation stands for.
JoinByCode(t, p, b) ==
    /\ Act /\ Idle(t) /\ b \in business
    /\ turn' = [turn EXCEPT ![t] = [at |-> "join", who |-> p, copy |-> user[p],
                                    invite |-> NoUser, business |-> b]]
    /\ UNCHANGED <<user, business, invitation, joins, twice>>

\* The member's row as the join leaves it: columns equal to the copy are not written.
Joined(row, copy, b) ==
    IF row = NoUser THEN [business |-> b, role |-> "EMPLOYEE", clerk |-> FALSE, chats |-> TRUE]
    ELSE IF copy = NoUser THEN row
    ELSE [row EXCEPT !.business = IF copy.business = b THEN @ ELSE b,
                     !.role = IF copy.role = "EMPLOYEE" THEN @ ELSE "EMPLOYEE",
                     !.chats = TRUE]

\* Mutant of JoinCommit: the invitation is left as it was.
JoinKeepsInvitation(t) ==
    LET x == turn[t] IN
    /\ x.at = "join" /\ (x.copy = NoUser <=> user[x.who] = NoUser)
    /\ user' = [user EXCEPT ![x.who] = Joined(@, x.copy, x.business)]
    /\ joins' = IF x.invite = NoUser THEN joins ELSE [joins EXCEPT ![x.invite] = @ + 1]
    /\ turn' = [turn EXCEPT ![t] = NoTurn]
    /\ UNCHANGED <<business, invitation, twice, acts>>

\* The invitation is accepted and the user moved (or created) in one commit; it
\* fails when the row the turn holds is gone, or another has the identity by now.
JoinCommit(t) ==
    LET x == turn[t] IN
    /\ x.at = "join" /\ (x.copy = NoUser <=> user[x.who] = NoUser)
    /\ user' = [user EXCEPT ![x.who] = Joined(@, x.copy, x.business)]
    /\ IF x.invite = NoUser
       THEN UNCHANGED <<invitation, joins>>
       ELSE /\ invitation' = [invitation EXCEPT ![x.invite].status = "ACCEPTED"]
            /\ joins' = [joins EXCEPT ![x.invite] = @ + 1]
    /\ turn' = [turn EXCEPT ![t] = NoTurn]
    /\ UNCHANGED <<business, twice, acts>>

-----------------------------------------------------------------------------
(* Team tools *)

\* PromoteUserTool and DismissUserTool read the team, pick the member ...
PickMember(t, p, member, tool) ==
    /\ Act /\ Idle(t) /\ Permitted(p, tool)
    /\ member \in Team(user[p].business)
    /\ IF tool = "promote" THEN user[member].role = "EMPLOYEE" ELSE user[member].role # "OWNER"
    /\ turn' = [turn EXCEPT ![t] = [NoTurn EXCEPT !.at = tool, !.who = member, !.copy = user[member]]]
    /\ UNCHANGED <<user, business, invitation, joins, twice>>

\* ... and flush; the update waits for the lock of whoever is writing.
Promote(t) ==
    /\ turn[t].at = "promote" /\ turn[t].who \in Users
    /\ user' = [user EXCEPT ![turn[t].who].role = "MANAGER"]
    /\ turn' = [turn EXCEPT ![t] = NoTurn]
    /\ UNCHANGED <<business, invitation, joins, twice, acts>>

\* A member with a conversation row is not deleted: the flush would blank the key
\* of that row, and raises.  (LeaveBusinessTool never gets further: whoever runs a
\* tool has such a row.)
Dismiss(t) ==
    /\ turn[t].at = "dismiss"
    /\ turn[t].who \in Users => ~user[turn[t].who].chats
    /\ user' = [user EXCEPT ![turn[t].who] = NoUser]
    /\ turn' = [turn EXCEPT ![t] = NoTurn]
    /\ UNCHANGED <<business, invitation, joins, twice, acts>>

\* An error or a restart: the transaction is rolled back.
TurnFails(t) ==
    /\ ~Idle(t)
    /\ turn' = [turn EXCEPT ![t] = NoTurn]
    /\ UNCHANGED <<user, business, invitation, joins, twice, acts>>

AccountsNext ==
    \/ \E p \in People :
         \/ FirstContact(p) \/ SyncClerkUser(p) \/ DeleteClerkUser(p)
         \/ ChooseCreate(p) \/ Chat(p)
         \/ \E b \in Businesses : \/ JitCreateUser(p, b)
                                  \/ \E role \in UserRole : SyncClerkMembership(p, b, role)
         \/ \E to \in People : CreateInvitation(p, to)
    \/ \E b \in Businesses : SyncClerkOrg(b)
    \/ \E t \in Turns :
         \/ JoinCommit(t) \/ Promote(t) \/ Dismiss(t) \/ TurnFails(t)
         \/ \E p \in People :
              \/ \E i \in Invites : JoinRead(t, p, i)
              \/ \E b \in Businesses : JoinByCode(t, p, b)
              \/ \E member \in People, tool \in {"promote", "dismiss"} : PickMember(t, p, member, tool)

AccountsSpec == AccountsInit /\ [][AccountsNext]_accountVars

-----------------------------------------------------------------------------
(* Properties *)

\* Rows, copies and counters are of the types the code declares.
AccountsTypeOK ==
    /\ user \in [People -> UserRow \cup {NoUser}]
    /\ business \subseteq Businesses
    /\ invitation \in [Invites -> InvitationRow \cup {NoUser}]
    /\ turn \in [Turns -> TurnRecord]
    /\ joins \in [Invites -> Nat]
    /\ twice \subseteq Invites /\ acts \in 0..MaxActs

\* An invitation is accepted exactly when somebody joined by it, in the same
\* commit, whatever failed before; and it admits one person, unless two turns
\* had both read it as pending.
InvitationHonoured ==
    \A i \in Invites :
      /\ joins[i] > 0 <=> (invitation[i] # NoUser /\ invitation[i].status = "ACCEPTED")
      /\ i \notin twice => joins[i] <= 1

=============================================================================
