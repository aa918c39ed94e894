---------------------------- MODULE OfficeProofs ----------------------------
(* Proofs about three components that meet only in the database: Accounts,   *)
(* Catalogue and DataManagement.  Each part has the inductive invariant of   *)
(* its component, a lemma per action, and the theorems.                      *)
EXTENDS Accounts, Catalogue, DataManagement, FiniteSetTheorems, TLAPS

-----------------------------------------------------------------------------
(***************************************************************************)
(* Accounts: an invitation is accepted exactly when somebody joined by it,  *)
(* and it admits one person unless two turns had read it as pending, because *)
(* a turn about to join excludes every other of its invitation, and nobody   *)
(* has joined by it yet.                                                     *)
(***************************************************************************)

(* The inductive invariant *)

Joining(t, i) == turn[t].at = "join" /\ turn[t].invite = i

\* A turn that joins by an invitation holds one that exists ...
JoinsByRow == \A t \in Turns, i \in Invites : Joining(t, i) => invitation[i] # NoUser

\* ... and is the first and only one, unless the history names the invitation.
OneReader ==
  \A t \in Turns, i \in Invites : (Joining(t, i) /\ i \notin twice) =>
     joins[i] = 0 /\ \A u \in Turns : Joining(u, i) => u = t

AccountsInv == AccountsTypeOK /\ InvitationHonoured /\ JoinsByRow /\ OneReader

-----------------------------------------------------------------------------
(* Types *)

LEMMA NoTurnTyped == NoTurn \in TurnRecord /\ NoTurn.at = "idle"
<1>1. (CHOOSE p \in People : TRUE) \in People /\ (CHOOSE b \in Businesses : TRUE) \in Businesses
  BY AccountsAssumption
<1>2. QED BY <1>1 DEF NoTurn, TurnRecord

LEMMA ActCounts == ASSUME AccountsTypeOK, Act PROVE acts' \in 0..MaxActs
BY AccountsAssumption DEF AccountsTypeOK, Act

LEMMA UserIsRow == ASSUME AccountsTypeOK, NEW p \in Users PROVE p \in People /\ user[p] \in UserRow
BY DEF AccountsTypeOK, Users

\* Putting a row, or none, in a person's place.
LEMMA UserPut ==
  ASSUME AccountsTypeOK, NEW p \in People, NEW r \in UserRow \cup {NoUser},
         user' = [user EXCEPT ![p] = r]
  PROVE  user' \in [People -> UserRow \cup {NoUser}]
BY DEF AccountsTypeOK

LEMMA InsertTyped ==
  ASSUME AccountsTypeOK, NEW p \in People, NEW b \in Businesses, NEW clerk \in BOOLEAN,
         Insert(p, b, clerk)
  PROVE  user' \in [People -> UserRow \cup {NoUser}]
<1>1. [business |-> b, role |-> "OWNER", clerk |-> clerk, chats |-> ~clerk] \in UserRow
  BY DEF UserRow, UserRole
<1>2. QED BY <1>1, UserPut DEF Insert

-----------------------------------------------------------------------------
(* Steps *)

LEMMA AccountsInitial == AccountsInit => AccountsInv
<1> SUFFICES ASSUME AccountsInit PROVE AccountsInv
  OBVIOUS
<1>1. acts \in 0..MaxActs /\ turn \in [Turns -> TurnRecord]
  BY AccountsAssumption, NoTurnTyped DEF AccountsInit
<1>2. AccountsTypeOK
  BY <1>1 DEF AccountsInit, AccountsTypeOK
<1>3. InvitationHonoured
  BY DEF AccountsInit, InvitationHonoured
<1>4. \A t \in Turns, i \in Invites : ~Joining(t, i)
  BY NoTurnTyped DEF AccountsInit, Joining
<1>5. JoinsByRow /\ OneReader
  BY <1>4 DEF JoinsByRow, OneReader
<1>6. QED BY <1>2, <1>3, <1>5 DEF AccountsInv

\* Steps that touch neither invitations nor turns.
LEMMA OutsideStep ==
  ASSUME AccountsInv, UNCHANGED <<invitation, turn, joins, twice>>,
         user' \in [People -> UserRow \cup {NoUser}], business' \subseteq Businesses,
         acts' \in 0..MaxActs
  PROVE  AccountsInv'
BY DEF AccountsInv, AccountsTypeOK, InvitationHonoured, JoinsByRow, OneReader, Joining, Pending

LEMMA UsersStep ==
  ASSUME AccountsInv, NEW p \in People,
         FirstContact(p) \/ SyncClerkUser(p) \/ DeleteClerkUser(p) \/ ChooseCreate(p) \/ Chat(p)
  PROVE  AccountsInv'
<1> USE DEF AccountsInv
<1>1. acts' \in 0..MaxActs
  BY ActCounts DEF FirstContact, SyncClerkUser, DeleteClerkUser, ChooseCreate, Chat
<1>2. UNCHANGED <<invitation, turn, joins, twice>>
  BY DEF FirstContact, SyncClerkUser, DeleteClerkUser, ChooseCreate, Chat
<1>3. business' \subseteq Businesses
  BY DEF AccountsTypeOK, FirstContact, SyncClerkUser, DeleteClerkUser, ChooseCreate, Chat
<1>4. user' \in [People -> UserRow \cup {NoUser}]
  <2>1. CASE FirstContact(p)
    BY <2>1, InsertTyped DEF FirstContact, Fresh
  <2>2. CASE SyncClerkUser(p) /\ p \notin Users
    BY <2>2, InsertTyped DEF SyncClerkUser, Fresh
  <2>3. CASE SyncClerkUser(p) /\ p \in Users
    <3>1. user[p] \in UserRow /\ user' = [user EXCEPT ![p] = [user[p] EXCEPT !.clerk = TRUE]]
      BY <2>3, UserIsRow DEF SyncClerkUser
    <3>2. [user[p] EXCEPT !.clerk = TRUE] \in UserRow
      BY <3>1 DEF UserRow
    <3>3. QED BY <3>1, <3>2, UserPut
  <2>4. CASE DeleteClerkUser(p)
    BY <2>4, UserPut DEF DeleteClerkUser
  <2>5. CASE ChooseCreate(p)
    <3>1. user[p] \in UserRow /\ user' = [user EXCEPT ![p] = [user[p] EXCEPT !.role = "OWNER"]]
      BY <2>5, UserIsRow DEF ChooseCreate
    <3>2. [user[p] EXCEPT !.role = "OWNER"] \in UserRow
      BY <3>1 DEF UserRow, UserRole
    <3>3. QED BY <3>1, <3>2, UserPut
  <2>6. CASE Chat(p)
    <3>1. user[p] \in UserRow /\ user' = [user EXCEPT ![p] = [user[p] EXCEPT !.chats = TRUE]]
      BY <2>6, UserIsRow DEF Chat
    <3>2. [user[p] EXCEPT !.chats = TRUE] \in UserRow
      BY <3>1 DEF UserRow
    <3>3. QED BY <3>1, <3>2, UserPut
  <2>7. QED BY <2>1, <2>2, <2>3, <2>4, <2>5, <2>6
<1>5. QED BY <1>1, <1>2, <1>3, <1>4, OutsideStep

LEMMA OrgsStep ==
  ASSUME AccountsInv, NEW p \in People, NEW b \in Businesses, NEW role \in UserRole,
         SyncClerkOrg(b) \/ SyncClerkMembership(p, b, role) \/ JitCreateUser(p, b)
  PROVE  AccountsInv'
<1> USE DEF AccountsInv
<1>1. acts' \in 0..MaxActs /\ UNCHANGED <<invitation, turn, joins, twice>>
  BY ActCounts DEF SyncClerkOrg, SyncClerkMembership, JitCreateUser
<1>2. business' \subseteq Businesses
  BY DEF AccountsTypeOK, SyncClerkOrg, SyncClerkMembership, JitCreateUser
<1>3. user' \in [People -> UserRow \cup {NoUser}]
  <2>1. CASE SyncClerkOrg(b)
    BY <2>1 DEF SyncClerkOrg, AccountsTypeOK
  <2>2. CASE SyncClerkMembership(p, b, role)
    <3> DEFINE r == [user[p] EXCEPT !.business = b]
    <3>1. user[p] \in UserRow /\ user' = [user EXCEPT ![p] = [r EXCEPT !.role = role]]
      BY <2>2, UserIsRow DEF SyncClerkMembership, AccountsTypeOK
    <3>2. r \in UserRow
      BY <3>1 DEF UserRow
    <3> HIDE DEF r
    <3>3. [r EXCEPT !.role = role] \in UserRow
      BY <3>2 DEF UserRow
    <3>4. QED BY <3>1, <3>3, UserPut
  <2>3. CASE JitCreateUser(p, b) /\ p \notin Users
    BY <2>3, InsertTyped DEF JitCreateUser
  <2>4. CASE JitCreateUser(p, b) /\ p \in Users
    <3>1. user[p] \in UserRow /\ user' = [user EXCEPT ![p] = [user[p] EXCEPT !.clerk = TRUE]]
      BY <2>4, UserIsRow DEF JitCreateUser
    <3>2. [user[p] EXCEPT !.clerk = TRUE] \in UserRow
      BY <3>1 DEF UserRow
    <3>3. QED BY <3>1, <3>2, UserPut
  <2>5. QED BY <2>1, <2>2, <2>3, <2>4
<1>4. QED BY <1>1, <1>2, <1>3, OutsideStep

LEMMA CreateInvitationStep ==
  ASSUME AccountsInv, NEW p \in People, NEW to \in People, CreateInvitation(p, to)
  PROVE  AccountsInv'
<1> DEFINE row == [business |-> user[p].business, to |-> to, status |-> "PENDING"]
<1>1. PICK i \in Invites : /\ invitation[i] = NoUser
                           /\ invitation' = [invitation EXCEPT ![i] = row]
  BY DEF CreateInvitation
<1>2. UNCHANGED <<user, business, turn, joins, twice>> /\ acts' \in 0..MaxActs
  BY ActCounts DEF AccountsInv, CreateInvitation
<1>3. user[p] \in UserRow
  BY UserIsRow DEF AccountsInv, CreateInvitation, Permitted
<1>4. row \in InvitationRow /\ row # NoUser /\ row.status = "PENDING"
  BY <1>3, AccountsAssumption DEF InvitationRow, UserRow, InvitationStatus
<1> HIDE DEF row
<1>5. /\ invitation' \in [Invites -> InvitationRow \cup {NoUser}]
      /\ invitation'[i] = row /\ \A k \in Invites : k # i => invitation'[k] = invitation[k]
  BY <1>1, <1>4 DEF AccountsInv, AccountsTypeOK
<1>6. AccountsTypeOK'
  BY <1>2, <1>5 DEF AccountsInv, AccountsTypeOK
<1>7. joins[i] = 0
  BY <1>1 DEF AccountsInv, InvitationHonoured, AccountsTypeOK
<1>8. InvitationHonoured'
  BY <1>2, <1>4, <1>5, <1>7 DEF AccountsInv, InvitationHonoured
<1>9. JoinsByRow' /\ OneReader'
  BY <1>2, <1>4, <1>5 DEF AccountsInv, JoinsByRow, OneReader, Joining
<1>10. QED BY <1>6, <1>8, <1>9 DEF AccountsInv

\* A turn that ends, or begins something that is no join by an invitation.
LEMMA TurnStep ==
  ASSUME AccountsInv, NEW t \in Turns, NEW rec \in TurnRecord, turn' = [turn EXCEPT ![t] = rec],
         rec.at # "join" \/ rec.invite = NoUser,
         user' \in [People -> UserRow \cup {NoUser}], acts' \in 0..MaxActs,
         UNCHANGED <<business, invitation, joins, twice>>
  PROVE  AccountsInv'
<1>1. /\ turn' \in [Turns -> TurnRecord] /\ turn'[t] = rec
      /\ \A u \in Turns : u # t => turn'[u] = turn[u]
  BY DEF AccountsInv, AccountsTypeOK
<1>2. AccountsTypeOK' /\ InvitationHonoured'
  BY <1>1 DEF AccountsInv, AccountsTypeOK, InvitationHonoured
<1>3. NoUser \notin Invites
  BY AccountsAssumption
<1>4. \A u \in Turns, i \in Invites : Joining(u, i)' => Joining(u, i)
  BY <1>1, <1>3 DEF Joining
<1>5. JoinsByRow' /\ OneReader'
  BY <1>4 DEF AccountsInv, JoinsByRow, OneReader
<1>6. QED BY <1>2, <1>5 DEF AccountsInv

LEMMA PickMemberStep ==
  ASSUME AccountsInv, NEW t \in Turns, NEW p \in People, NEW member \in People,
         NEW tool \in {"promote", "dismiss"}, PickMember(t, p, member, tool)
  PROVE  AccountsInv'
<1> DEFINE a == [NoTurn EXCEPT !.at = tool]
           b == [a EXCEPT !.who = member]
           rec == [b EXCEPT !.copy = user[member]]
<1>1. user[member] \in UserRow \cup {NoUser}
  BY DEF AccountsInv, AccountsTypeOK
<1>2. a \in TurnRecord /\ a.at = tool
  BY NoTurnTyped DEF TurnRecord
<1> HIDE DEF a
<1>3. b \in TurnRecord /\ b.at = tool
  BY <1>2 DEF TurnRecord
<1> HIDE DEF b
<1>4. rec \in TurnRecord /\ rec.at = tool
  BY <1>1, <1>3 DEF TurnRecord
<1>5. /\ turn' = [turn EXCEPT ![t] = rec] /\ UNCHANGED <<user, business, invitation, joins, twice>>
      /\ acts' \in 0..MaxActs
  BY ActCounts DEF PickMember, AccountsInv, a, b
<1> HIDE DEF rec
<1>6. user' \in [People -> UserRow \cup {NoUser}]
  BY <1>5 DEF AccountsInv, AccountsTypeOK
<1>7. QED BY <1>4, <1>5, <1>6, TurnStep

LEMMA TurnEndsStep ==
  ASSUME AccountsInv, NEW t \in Turns, Promote(t) \/ Dismiss(t) \/ TurnFails(t)
  PROVE  AccountsInv'
<1>1. /\ turn' = [turn EXCEPT ![t] = NoTurn] /\ UNCHANGED <<business, invitation, joins, twice>>
      /\ acts' \in 0..MaxActs
  BY DEF Promote, Dismiss, TurnFails, AccountsInv, AccountsTypeOK
<1>2. turn[t].who \in People
  BY DEF AccountsInv, AccountsTypeOK, TurnRecord
<1>3. user' \in [People -> UserRow \cup {NoUser}]
  <2>1. CASE Promote(t)
    <3> DEFINE w == turn[t].who
    <3>1. w \in Users /\ user' = [user EXCEPT ![w] = [user[w] EXCEPT !.role = "MANAGER"]]
      BY <2>1 DEF Promote
    <3>2. user[w] \in UserRow
      BY <3>1, UserIsRow DEF AccountsInv
    <3>3. [user[w] EXCEPT !.role = "MANAGER"] \in UserRow
      BY <3>2 DEF UserRow, UserRole
    <3>4. QED BY <1>2, <3>1, <3>3, UserPut DEF AccountsInv
  <2>2. CASE Dismiss(t)
    BY <1>2, <2>2, UserPut DEF Dismiss, AccountsInv
  <2>3. CASE TurnFails(t)
    BY <2>3 DEF TurnFails, AccountsInv, AccountsTypeOK
  <2>4. QED BY <2>1, <2>2, <2>3
<1>4. QED BY <1>1, <1>3, NoTurnTyped, TurnStep

LEMMA JoinByCodeStep ==
  ASSUME AccountsInv, NEW t \in Turns, NEW p \in People, NEW b \in Businesses, JoinByCode(t, p, b)
  PROVE  AccountsInv'
<1> DEFINE rec == [at |-> "join", who |-> p, copy |-> user[p], invite |-> NoUser, business |-> b]
<1>1. rec \in TurnRecord /\ rec.invite = NoUser
  BY DEF AccountsInv, AccountsTypeOK, TurnRecord
<1>2. /\ turn' = [turn EXCEPT ![t] = rec] /\ UNCHANGED <<user, business, invitation, joins, twice>>
      /\ acts' \in 0..MaxActs
  BY ActCounts DEF JoinByCode, AccountsInv
<1> HIDE DEF rec
<1>3. user' \in [People -> UserRow \cup {NoUser}]
  BY <1>2 DEF AccountsInv, AccountsTypeOK
<1>4. QED BY <1>1, <1>2, <1>3, TurnStep

\* A turn reads an invitation as pending: nobody has joined by it, and if another
\* turn had read it, the history says so.
LEMMA JoinReadStep ==
  ASSUME AccountsInv, NEW t \in Turns, NEW p \in People, NEW i \in Invites, JoinRead(t, p, i)
  PROVE  AccountsInv'
<1> DEFINE rec == [at |-> "join", who |-> p, copy |-> user[p], invite |-> i,
                   business |-> invitation[i].business]
<1>1. /\ turn' = [turn EXCEPT ![t] = rec] /\ UNCHANGED <<user, business, invitation, joins>>
      /\ twice' = IF \E u \in Turns : Joining(u, i) THEN twice \cup {i} ELSE twice
      /\ Pending(i) /\ Idle(t) /\ acts' \in 0..MaxActs
  BY ActCounts DEF JoinRead, AccountsInv, Joining
<1>2. rec \in TurnRecord /\ rec.at = "join" /\ rec.invite = i
  BY <1>1 DEF AccountsInv, AccountsTypeOK, TurnRecord, Pending, InvitationRow
<1> HIDE DEF rec
<1>3. /\ turn' \in [Turns -> TurnRecord] /\ turn'[t] = rec
      /\ \A u \in Turns : u # t => turn'[u] = turn[u]
  BY <1>1, <1>2 DEF AccountsInv, AccountsTypeOK
<1>4. AccountsTypeOK'
  BY <1>1, <1>3 DEF AccountsInv, AccountsTypeOK
<1>5. InvitationHonoured'
  BY <1>1 DEF AccountsInv, InvitationHonoured
<1>6. /\ \A k \in Invites : Joining(t, k)' <=> k = i
      /\ \A u \in Turns : u # t => \A k \in Invites : Joining(u, k)' <=> Joining(u, k)
      /\ \A k \in Invites : ~Joining(t, k)
  BY <1>1, <1>2, <1>3 DEF Joining, Idle
<1>7. JoinsByRow'
  BY <1>1, <1>6 DEF AccountsInv, JoinsByRow, Pending
<1>8. joins[i] = 0
  BY <1>1 DEF AccountsInv, InvitationHonoured, AccountsTypeOK, Pending
<1>9. OneReader'
  BY <1>1, <1>6, <1>8 DEF AccountsInv, OneReader
<1>10. QED BY <1>4, <1>5, <1>7, <1>9 DEF AccountsInv

LEMMA JoinedTyped ==
  ASSUME NEW row \in UserRow \cup {NoUser}, NEW copy \in UserRow \cup {NoUser}, NEW b \in Businesses
  PROVE  Joined(row, copy, b) \in UserRow \cup {NoUser}
<1>1. CASE row = NoUser \/ copy = NoUser
  BY <1>1 DEF Joined, UserRow, UserRole
<1>2. CASE row # NoUser /\ copy # NoUser
  <2> DEFINE a == [row EXCEPT !.business = IF copy.business = b THEN @ ELSE b]
             c == [a EXCEPT !.role = IF copy.role = "EMPLOYEE" THEN @ ELSE "EMPLOYEE"]
             d == [c EXCEPT !.chats = TRUE]
  <2>1. a \in UserRow
    BY <1>2 DEF UserRow
  <2> HIDE DEF a
  <2>2. c \in UserRow
    BY <2>1 DEF UserRow, UserRole
  <2> HIDE DEF c
  <2>3. d \in UserRow
    BY <2>2 DEF UserRow
  <2>4. Joined(row, copy, b) = d
    BY <1>2 DEF Joined, a, c
  <2>5. QED BY <2>3, <2>4
<1>3. QED BY <1>1, <1>2

\* The join and its invitation are committed together.
LEMMA JoinCommitStep ==
  ASSUME AccountsInv, NEW t \in Turns, JoinCommit(t)
  PROVE  AccountsInv'
<1> DEFINE i == turn[t].invite
           w == turn[t].who
<1>1. /\ turn[t].at = "join" /\ turn' = [turn EXCEPT ![t] = NoTurn]
      /\ user' = [user EXCEPT ![w] = Joined(user[w], turn[t].copy, turn[t].business)]
      /\ UNCHANGED <<business, twice, acts>> /\ acts' \in 0..MaxActs
  BY DEF JoinCommit, AccountsInv, AccountsTypeOK
<1>2. /\ w \in People /\ user[w] \in UserRow \cup {NoUser} /\ i \in Invites \cup {NoUser}
      /\ turn[t].copy \in UserRow \cup {NoUser} /\ turn[t].business \in Businesses
  BY DEF AccountsInv, AccountsTypeOK, TurnRecord
<1>3. user' \in [People -> UserRow \cup {NoUser}]
  BY <1>1, <1>2, JoinedTyped, UserPut DEF AccountsInv
<1>4. CASE i = NoUser
  <2>1. UNCHANGED <<invitation, joins>>
    BY <1>4 DEF JoinCommit
  <2>2. QED BY <1>1, <1>3, <2>1, NoTurnTyped, TurnStep
<1>5. CASE i # NoUser
  <2> DEFINE row == [invitation[i] EXCEPT !.status = "ACCEPTED"]
  <2>1. /\ i \in Invites /\ Joining(t, i)
        /\ invitation' = [invitation EXCEPT ![i] = row]
        /\ joins' = [joins EXCEPT ![i] = joins[i] + 1]
    BY <1>1, <1>2, <1>5 DEF JoinCommit, Joining
  <2>2. invitation[i] \in InvitationRow
    BY <2>1 DEF AccountsInv, AccountsTypeOK, JoinsByRow
  <2>3. row \in InvitationRow /\ row # NoUser /\ row.status = "ACCEPTED"
    BY <2>2, AccountsAssumption DEF InvitationRow, InvitationStatus
  <2> HIDE DEF row, i
  <2>4. /\ invitation' \in [Invites -> InvitationRow \cup {NoUser}] /\ joins' \in [Invites -> Nat]
        /\ invitation'[i] = row /\ joins'[i] = joins[i] + 1 /\ joins[i] \in Nat
        /\ \A k \in Invites : k # i => invitation'[k] = invitation[k] /\ joins'[k] = joins[k]
    BY <2>1, <2>3 DEF AccountsInv, AccountsTypeOK
  <2>5. /\ turn' \in [Turns -> TurnRecord] /\ turn'[t] = NoTurn
        /\ \A u \in Turns : u # t => turn'[u] = turn[u]
    BY <1>1, NoTurnTyped DEF AccountsInv, AccountsTypeOK
  <2>6. AccountsTypeOK'
    BY <1>1, <1>3, <2>4, <2>5 DEF AccountsInv, AccountsTypeOK
  <2>7. /\ \A u \in Turns, k \in Invites : Joining(u, k)' => Joining(u, k) /\ u # t
    BY <2>5, NoTurnTyped DEF Joining
  <2>8. ASSUME NEW k \in Invites, k = i, k \notin twice
        PROVE  joins[k] = 0 /\ \A u \in Turns : ~Joining(u, k)'
    <3>1. Joining(t, k)
      BY <2>1, <2>8
    <3>2. joins[k] = 0 /\ \A u \in Turns : Joining(u, k) => u = t
      BY <2>8, <3>1 DEF AccountsInv, OneReader
    <3>3. QED BY <2>7, <2>8, <3>2
  <2>9. InvitationHonoured'
    <3> SUFFICES ASSUME NEW k \in Invites PROVE InvitationHonoured!(k)'
      BY DEF InvitationHonoured
    <3>1. CASE k = i
      <4>1. joins'[i] > 0
        BY <2>4
      <4>2. k \notin twice => joins'[k] <= 1
        BY <2>4, <2>8, <3>1
      <4>3. QED BY <1>1, <2>3, <2>4, <3>1, <4>1, <4>2
    <3>2. CASE k # i
      BY <1>1, <2>4, <3>2 DEF AccountsInv, InvitationHonoured
    <3>3. QED BY <3>1, <3>2
  <2>10. JoinsByRow'
    BY <2>3, <2>4, <2>7 DEF AccountsInv, JoinsByRow
  <2>11. OneReader'
    <3> SUFFICES ASSUME NEW u \in Turns, NEW k \in Invites, Joining(u, k)', k \notin twice'
                 PROVE  joins'[k] = 0 /\ \A v \in Turns : Joining(v, k)' => v = u
      BY DEF OneReader
    <3>1. k # i
      BY <1>1, <2>8
    <3>2. QED BY <1>1, <2>4, <2>7, <3>1 DEF AccountsInv, OneReader
  <2>12. QED BY <2>6, <2>9, <2>10, <2>11 DEF AccountsInv
<1>6. QED BY <1>4, <1>5

LEMMA AccountsStep == AccountsInv /\ [AccountsNext]_accountVars => AccountsInv'
<1> SUFFICES ASSUME AccountsInv, [AccountsNext]_accountVars PROVE AccountsInv'
  OBVIOUS
<1>1. CASE UNCHANGED accountVars
  <2>1. UNCHANGED <<invitation, turn, joins, twice, user, business, acts>>
    BY <1>1 DEF accountVars
  <2>2. QED BY <2>1, OutsideStep DEF AccountsInv, AccountsTypeOK
<1>2. ASSUME NEW p \in People,
             \/ FirstContact(p) \/ SyncClerkUser(p) \/ DeleteClerkUser(p)
             \/ ChooseCreate(p) \/ Chat(p)
      PROVE  AccountsInv'
  BY <1>2, UsersStep
<1>3. ASSUME NEW p \in People, NEW b \in Businesses,
             \/ JitCreateUser(p, b)
             \/ \E role \in UserRole : SyncClerkMembership(p, b, role)
      PROVE  AccountsInv'
  BY <1>3, OrgsStep DEF UserRole
<1>4. ASSUME NEW b \in Businesses, SyncClerkOrg(b) PROVE AccountsInv'
  BY <1>4, OrgsStep, AccountsAssumption DEF UserRole
<1>5. ASSUME NEW p \in People, NEW to \in People, CreateInvitation(p, to) PROVE AccountsInv'
  BY <1>5, CreateInvitationStep
<1>6. ASSUME NEW t \in Turns, JoinCommit(t) \/ Promote(t) \/ Dismiss(t) \/ TurnFails(t)
      PROVE  AccountsInv'
  BY <1>6, JoinCommitStep, TurnEndsStep
<1>7. ASSUME NEW t \in Turns, NEW p \in People,
             \/ \E i \in Invites : JoinRead(t, p, i)
             \/ \E b \in Businesses : JoinByCode(t, p, b)
             \/ \E member \in People, tool \in {"promote", "dismiss"} : PickMember(t, p, member, tool)
      PROVE  AccountsInv'
  BY <1>7, JoinReadStep, JoinByCodeStep, PickMemberStep
<1>8. QED BY <1>1, <1>2, <1>3, <1>4, <1>5, <1>6, <1>7 DEF AccountsNext

-----------------------------------------------------------------------------
(* Theorems *)

\* The invariant holds in every reachable state.
THEOREM AccountsInvariant == AccountsSpec => []AccountsInv
BY AccountsInitial, AccountsStep, PTL DEF AccountsSpec

\* Every variable keeps its type, although a join writes over a row that Clerk's
\* webhooks may have changed.
THEOREM AccountsTypes == AccountsSpec => []AccountsTypeOK
<1>1. AccountsInv => AccountsTypeOK
  BY DEF AccountsInv
<1>2. QED BY <1>1, AccountsInvariant, PTL

\* An invitation is accepted exactly when somebody joined by it, and admits one
\* person unless two turns had read it as pending at once.
THEOREM InvitationsAreHonoured == AccountsSpec => []InvitationHonoured
<1>1. AccountsInv => InvitationHonoured
  BY DEF AccountsInv
<1>2. QED BY <1>1, AccountsInvariant, PTL

-----------------------------------------------------------------------------
(***************************************************************************)
(* Catalogue: the lock admits one uncommitted change, a change leaves no     *)
(* entry in the cache, and an entry is filled from the committed catalogue   *)
(* unless the module's history says otherwise; so a cached catalogue is the  *)
(* committed one, for any services, sessions and bounds.                     *)
(***************************************************************************)

(* The inductive invariant *)

OneWriter == \A s, t \in Desks : Writing(s) /\ Writing(t) => s = t

\* An entry that did not lapse is current, and nobody holds a change of it.
EntryIsSettled == (cached # Missing /\ ~lapsed) => cached = catalogue /\ LockFree

\* A listing that waits to fill the cache is current unless a commit overtook it.
QueryIsFresh ==
  \A s \in Desks : (desk[s].at = "queried" /\ ~desk[s].overtaken /\ ~Writing(s))
                     => desk[s].list = catalogue

CatalogueInv == CatalogueTypeOK /\ OneWriter /\ EntryIsSettled /\ QueryIsFresh

-----------------------------------------------------------------------------
(* Types *)

LEMMA NoDeskTyped == NoDesk \in DeskRecord /\ NothingListed \in Listing
BY DEF NoDesk, NothingListed, DeskRecord, Listing

LEMMA SeenTyped ==
  ASSUME CatalogueTypeOK, NEW s \in Desks
  PROVE  Seen(s) \in Listing /\ desk[s] \in DeskRecord
BY DEF CatalogueTypeOK, Seen, Writing, DeskRecord

-----------------------------------------------------------------------------
(* Steps *)

LEMMA CatalogueInitial == CatalogueInit => CatalogueInv
<1> SUFFICES ASSUME CatalogueInit PROVE CatalogueInv
  OBVIOUS
<1>1. CatalogueTypeOK
  <2>1. edits \in 0..MaxEdits
    BY CatalogueAssumption DEF CatalogueInit
  <2>2. catalogue \in Listing /\ desk \in [Desks -> DeskRecord]
    BY NoDeskTyped DEF CatalogueInit
  <2>3. cached \in {Missing} /\ lapsed \in BOOLEAN
    BY DEF CatalogueInit
  <2>4. QED BY <2>1, <2>2, <2>3 DEF CatalogueTypeOK
<1>2. \A s \in Desks : ~Writing(s) /\ desk[s].at = "idle"
  BY DEF CatalogueInit, Writing, NoDesk
<1>3. OneWriter /\ EntryIsSettled /\ QueryIsFresh
  BY <1>2 DEF CatalogueInit, OneWriter, EntryIsSettled, QueryIsFresh
<1>4. QED BY <1>1, <1>3 DEF CatalogueInv

\* A step that moves one desk and leaves catalogue, cache and views alone.
LEMMA DeskStep ==
  ASSUME CatalogueInv, NEW s \in Desks, NEW rec \in DeskRecord,
         desk' = [desk EXCEPT ![s] = rec], UNCHANGED <<catalogue, cached, lapsed, edits>>,
         rec.view = desk[s].view,
         (rec.at = "queried" /\ ~rec.overtaken /\ ~Writing(s)) => rec.list = catalogue
  PROVE  CatalogueInv'
<1>1. /\ desk' \in [Desks -> DeskRecord] /\ desk'[s] = rec
      /\ \A t \in Desks : t # s => desk'[t] = desk[t]
  BY DEF CatalogueInv, CatalogueTypeOK
<1>2. \A t \in Desks : desk'[t].view = desk[t].view
  BY <1>1
<1>3. CatalogueTypeOK'
  BY <1>1 DEF CatalogueInv, CatalogueTypeOK
<1>4. OneWriter' /\ EntryIsSettled'
  BY <1>2 DEF CatalogueInv, OneWriter, EntryIsSettled, LockFree, Writing
<1>5. QueryIsFresh'
  BY <1>1, <1>2 DEF CatalogueInv, QueryIsFresh, Writing
<1>6. QED BY <1>3, <1>4, <1>5 DEF CatalogueInv

LEMMA ListCachedStep == ASSUME CatalogueInv, NEW s \in Desks, ListCached(s) PROVE CatalogueInv'
<1> DEFINE a == [desk[s] EXCEPT !.at = "listed"]
           b == [a EXCEPT !.list = cached]
           rec == [b EXCEPT !.loaded = FALSE]
<1>1. desk[s] \in DeskRecord /\ cached \in Listing /\ desk' = [desk EXCEPT ![s] = rec]
  BY SeenTyped DEF ListCached, CatalogueInv, CatalogueTypeOK
<1>2. a \in DeskRecord /\ a.view = desk[s].view /\ a.at = "listed"
  BY <1>1 DEF DeskRecord
<1> HIDE DEF a
<1>3. b \in DeskRecord /\ b.view = desk[s].view /\ b.at = "listed"
  BY <1>1, <1>2 DEF DeskRecord
<1> HIDE DEF b
<1>4. rec \in DeskRecord /\ rec.view = desk[s].view /\ rec.at = "listed"
  BY <1>3 DEF DeskRecord
<1> HIDE DEF rec
<1>5. QED BY <1>1, <1>4, DeskStep DEF ListCached

LEMMA ListQueryStep == ASSUME CatalogueInv, NEW s \in Desks, ListQuery(s) PROVE CatalogueInv'
<1> DEFINE a == [desk[s] EXCEPT !.at = "queried"]
           b == [a EXCEPT !.list = Seen(s)]
           c == [b EXCEPT !.loaded = TRUE]
           rec == [c EXCEPT !.overtaken = FALSE]
<1>1. desk[s] \in DeskRecord /\ Seen(s) \in Listing /\ desk' = [desk EXCEPT ![s] = rec]
  BY SeenTyped DEF ListQuery, CatalogueInv, CatalogueTypeOK
<1>2. a \in DeskRecord /\ a.view = desk[s].view
  BY <1>1 DEF DeskRecord
<1> HIDE DEF a
<1>3. b \in DeskRecord /\ b.view = desk[s].view /\ b.list = Seen(s)
  BY <1>1, <1>2 DEF DeskRecord
<1> HIDE DEF b
<1>4. c \in DeskRecord /\ c.view = desk[s].view /\ c.list = Seen(s)
  BY <1>3 DEF DeskRecord
<1> HIDE DEF c
<1>5. rec \in DeskRecord /\ rec.view = desk[s].view /\ rec.list = Seen(s)
  BY <1>4 DEF DeskRecord
<1>6. ~Writing(s) => rec.list = catalogue
  BY <1>5 DEF Seen
<1> HIDE DEF rec
<1>7. QED BY <1>1, <1>5, <1>6, DeskStep DEF ListQuery

LEMMA ListDoneStep == ASSUME CatalogueInv, NEW s \in Desks, ListDone(s) PROVE CatalogueInv'
<1> DEFINE rec == [desk[s] EXCEPT !.at = "idle"]
<1>1. rec \in DeskRecord /\ rec.view = desk[s].view /\ rec.at = "idle"
  BY SeenTyped DEF CatalogueInv, DeskRecord
<1>2. desk' = [desk EXCEPT ![s] = rec] /\ UNCHANGED <<catalogue, cached, lapsed, edits>>
  BY DEF ListDone, CatalogueInv, CatalogueTypeOK
<1> HIDE DEF rec
<1>3. QED BY <1>1, <1>2, DeskStep

LEMMA AddServiceLookupStep ==
  ASSUME CatalogueInv, NEW s \in Desks, NEW title \in Titles, AddServiceLookup(s, title)
  PROVE  CatalogueInv'
<1> DEFINE target == IF Titled(Seen(s), title) = {} THEN Missing
                     ELSE CHOOSE v \in Titled(Seen(s), title) : TRUE
           a == [desk[s] EXCEPT !.at = "found"]
           rec == [a EXCEPT !.target = target]
<1>1. target \in ServiceIds \cup {Missing}
  BY DEF Titled, Offered
<1>2. desk[s] \in DeskRecord /\ desk' = [desk EXCEPT ![s] = rec]
  BY SeenTyped DEF AddServiceLookup, CatalogueInv, CatalogueTypeOK
<1> HIDE DEF target
<1>3. a \in DeskRecord /\ a.view = desk[s].view /\ a.at = "found"
  BY <1>2 DEF DeskRecord
<1> HIDE DEF a
<1>4. rec \in DeskRecord /\ rec.view = desk[s].view /\ rec.at = "found"
  BY <1>1, <1>3 DEF DeskRecord
<1> HIDE DEF rec
<1>5. QED BY <1>2, <1>4, DeskStep DEF AddServiceLookup

\* Only a fill makes an entry: what it holds is current, or it is noted as lapsed.
LEMMA ListFillStep == ASSUME CatalogueInv, NEW s \in Desks, ListFill(s) PROVE CatalogueInv'
<1> DEFINE rec == [desk[s] EXCEPT !.at = "listed"]
<1>1. /\ desk[s] \in DeskRecord /\ rec \in DeskRecord
      /\ rec.view = desk[s].view /\ rec.at = "listed"
  BY SeenTyped DEF CatalogueInv, DeskRecord
<1>2. /\ desk' = [desk EXCEPT ![s] = rec] /\ desk[s].at = "queried"
      /\ cached' = desk[s].list /\ lapsed' = (desk[s].overtaken \/ ~LockFree)
      /\ UNCHANGED <<catalogue, edits>>
  BY DEF ListFill, CatalogueInv, CatalogueTypeOK
<1> HIDE DEF rec
<1>3. /\ desk' \in [Desks -> DeskRecord] /\ desk'[s] = rec
      /\ \A t \in Desks : t # s => desk'[t] = desk[t]
  BY <1>1, <1>2 DEF CatalogueInv, CatalogueTypeOK
<1>4. \A t \in Desks : Writing(t)' <=> Writing(t)
  BY <1>1, <1>3 DEF Writing
<1>5. lapsed' \in BOOLEAN
  BY <1>1, <1>2 DEF DeskRecord, LockFree
<1>6. CatalogueTypeOK'
  BY <1>1, <1>2, <1>3, <1>5 DEF CatalogueInv, CatalogueTypeOK, DeskRecord
<1>7. OneWriter'
  BY <1>4 DEF CatalogueInv, OneWriter
<1>8. EntryIsSettled'
  <2>1. ~lapsed' => LockFree /\ ~desk[s].overtaken
    BY <1>2
  <2>2. LockFree => LockFree'
    BY <1>4 DEF LockFree
  <2>3. LockFree /\ ~desk[s].overtaken => desk[s].list = catalogue
    BY <1>2 DEF CatalogueInv, QueryIsFresh, LockFree
  <2>4. QED BY <1>2, <2>1, <2>2, <2>3 DEF EntryIsSettled
<1>9. QueryIsFresh'
  BY <1>1, <1>2, <1>3, <1>4 DEF CatalogueInv, QueryIsFresh
<1>10. QED BY <1>6, <1>7, <1>8, <1>9 DEF CatalogueInv

\* A flush empties the cache, and makes its session the only writer.
LEMMA FlushStep ==
  ASSUME CatalogueInv, NEW s \in Desks, NEW new \in Listing, FlushChange(s, new)
  PROVE  CatalogueInv'
<1> DEFINE rec == [NoDesk EXCEPT !.view = new]
<1>1. rec \in DeskRecord /\ rec.at = "idle"
  BY NoDeskTyped DEF DeskRecord, NoDesk
<1>2. /\ desk' = [desk EXCEPT ![s] = rec] /\ UNCHANGED catalogue
      /\ cached' = Missing /\ lapsed' = FALSE /\ edits' \in 0..MaxEdits
      /\ \A t \in Desks \ {s} : ~Writing(t)
  BY CatalogueAssumption DEF FlushChange, Invalidated, CatalogueInv, CatalogueTypeOK
<1> HIDE DEF rec
<1>3. /\ desk' \in [Desks -> DeskRecord] /\ desk'[s] = rec
      /\ \A t \in Desks : t # s => desk'[t] = desk[t]
  BY <1>1, <1>2 DEF CatalogueInv, CatalogueTypeOK
<1>4. CatalogueTypeOK' /\ EntryIsSettled'
  BY <1>2, <1>3 DEF CatalogueInv, CatalogueTypeOK, EntryIsSettled
<1>5. OneWriter' /\ QueryIsFresh'
  BY <1>1, <1>2, <1>3 DEF CatalogueInv, OneWriter, QueryIsFresh, Writing
<1>6. QED BY <1>4, <1>5 DEF CatalogueInv

LEMMA EditServiceStep ==
  ASSUME CatalogueInv, NEW s \in Desks, NEW title \in Titles, NEW v \in ServiceIds,
         NEW new \in ServiceRow, EditService(s, v, title, new)
  PROVE  CatalogueInv'
<1> DEFINE old == Seen(s)[v]
           row == [f \in DOMAIN new |-> IF new[f] = Held(s, v)[f] THEN old[f] ELSE new[f]]
<1>1. Seen(s) \in Listing /\ old \in ServiceRow /\ FlushChange(s, [Seen(s) EXCEPT ![v] = row])
  BY SeenTyped DEF EditService, CatalogueInv, Listing
<1>2. row \in ServiceRow
  BY <1>1 DEF ServiceRow
<1> HIDE DEF old, row
<1>3. [Seen(s) EXCEPT ![v] = row] \in Listing
  BY <1>1, <1>2 DEF Listing
<1>4. QED BY <1>1, <1>3, FlushStep

LEMMA DeleteServiceStep ==
  ASSUME CatalogueInv, NEW s \in Desks, NEW title \in Titles, NEW v \in ServiceIds,
         DeleteService(s, v, title)
  PROVE  CatalogueInv'
<1>1. [Seen(s) EXCEPT ![v] = Missing] \in Listing
  BY SeenTyped DEF CatalogueInv, Listing
<1>2. QED BY <1>1, FlushStep DEF DeleteService

LEMMA InsertServiceStep ==
  ASSUME CatalogueInv, NEW s \in Desks, NEW row \in ServiceRow, InsertService(s, row)
  PROVE  CatalogueInv'
<1>1. PICK v \in ServiceIds : FlushChange(s, [Seen(s) EXCEPT ![v] = row])
  BY DEF InsertService
<1>2. [Seen(s) EXCEPT ![v] = row] \in Listing
  BY SeenTyped DEF CatalogueInv, Listing
<1>3. QED BY <1>1, <1>2, FlushStep

LEMMA AddServiceFlushStep ==
  ASSUME CatalogueInv, NEW s \in Desks, NEW title \in Titles, NEW price \in Prices,
         AddServiceFlush(s, title, price)
  PROVE  CatalogueInv'
<1> DEFINE v == desk[s].target
<1>1. CASE InsertService(s, [name |-> title, price |-> price])
  <2>1. [name |-> title, price |-> price] \in ServiceRow
    BY DEF ServiceRow
  <2>2. QED BY <1>1, <2>1, InsertServiceStep
<1>2. CASE v # Missing /\ Seen(s)[v] # Missing /\ FlushChange(s, [Seen(s) EXCEPT ![v].price = price])
  <2>1. v \in ServiceIds /\ Seen(s) \in Listing /\ Seen(s)[v] \in ServiceRow
    BY <1>2, SeenTyped DEF CatalogueInv, DeskRecord, Listing
  <2>2. [Seen(s)[v] EXCEPT !.price = price] \in ServiceRow
    BY <2>1 DEF ServiceRow
  <2>3. [Seen(s) EXCEPT ![v].price = price] \in Listing
    BY <2>1, <2>2 DEF Listing
  <2>4. QED BY <1>2, <2>3, FlushStep
<1>3. QED BY <1>1, <1>2 DEF AddServiceFlush

\* A commit: its change was the only one, so no entry is there or it has lapsed.
LEMMA CommitCatalogueStep ==
  ASSUME CatalogueInv, NEW s \in Desks, CommitCatalogue(s)
  PROVE  CatalogueInv'
<1>1. /\ Writing(s) /\ catalogue' = desk[s].view /\ UNCHANGED <<cached, lapsed, edits>>
      /\ desk' = [t \in Desks |-> IF t = s THEN NoDesk ELSE [desk[t] EXCEPT !.overtaken = TRUE]]
  BY DEF CommitCatalogue
<1>2. ASSUME NEW t \in Desks, t # s
      PROVE  /\ desk'[t] \in DeskRecord /\ desk'[t].view = desk[t].view
             /\ desk'[t].overtaken = TRUE
  BY <1>1, <1>2, SeenTyped DEF CatalogueInv, DeskRecord
<1>3. desk' \in [Desks -> DeskRecord] /\ desk'[s] = NoDesk
  BY <1>1, <1>2, NoDeskTyped
<1>4. catalogue' \in Listing
  BY <1>1, SeenTyped DEF CatalogueInv, DeskRecord, Writing
<1>5. CatalogueTypeOK'
  BY <1>1, <1>3, <1>4 DEF CatalogueInv, CatalogueTypeOK
<1>6. \A t \in Desks : ~Writing(t)'
  BY <1>1, <1>2, <1>3 DEF CatalogueInv, OneWriter, Writing, NoDesk
<1>7. OneWriter'
  BY <1>6 DEF OneWriter
<1>8. EntryIsSettled'
  BY <1>1 DEF CatalogueInv, EntryIsSettled, LockFree
<1>9. QueryIsFresh'
  <2>1. desk'[s].at = "idle"
    BY <1>3 DEF NoDesk
  <2>2. \A t \in Desks : t = s \/ desk'[t].overtaken
    BY <1>2
  <2>3. QED BY <2>1, <2>2 DEF QueryIsFresh
<1>10. QED BY <1>5, <1>7, <1>8, <1>9 DEF CatalogueInv

LEMMA RollbackCatalogueStep ==
  ASSUME CatalogueInv, NEW s \in Desks, RollbackCatalogue(s)
  PROVE  CatalogueInv'
<1>1. desk' = [desk EXCEPT ![s] = NoDesk] /\ UNCHANGED <<catalogue, cached, lapsed, edits>>
  BY DEF RollbackCatalogue
<1>2. /\ desk' \in [Desks -> DeskRecord] /\ desk'[s] = NoDesk
      /\ \A t \in Desks : t # s => desk'[t] = desk[t]
  BY <1>1, NoDeskTyped DEF CatalogueInv, CatalogueTypeOK
<1>3. CatalogueTypeOK'
  BY <1>1, <1>2 DEF CatalogueInv, CatalogueTypeOK
<1>4. \A t \in Desks : Writing(t)' => Writing(t)
  BY <1>2 DEF Writing, NoDesk
<1>5. OneWriter' /\ EntryIsSettled'
  BY <1>1, <1>4 DEF CatalogueInv, OneWriter, EntryIsSettled, LockFree
<1>6. QueryIsFresh'
  BY <1>1, <1>2 DEF CatalogueInv, QueryIsFresh, Writing, NoDesk
<1>7. QED BY <1>3, <1>5, <1>6 DEF CatalogueInv

LEMMA CatalogueStep == CatalogueInv /\ [CatalogueNext]_catalogueVars => CatalogueInv'
<1> SUFFICES ASSUME CatalogueInv, [CatalogueNext]_catalogueVars PROVE CatalogueInv'
  OBVIOUS
<1>1. CASE UNCHANGED catalogueVars
  BY <1>1 DEF catalogueVars, CatalogueInv, CatalogueTypeOK, OneWriter, EntryIsSettled,
     QueryIsFresh, LockFree, Writing
<1>2. ASSUME NEW s \in Desks, ListCached(s) \/ ListQuery(s) \/ ListFill(s) \/ ListDone(s)
      PROVE  CatalogueInv'
  BY <1>2, ListCachedStep, ListQueryStep, ListFillStep, ListDoneStep
<1>3. ASSUME NEW s \in Desks, CommitCatalogue(s) \/ RollbackCatalogue(s) PROVE CatalogueInv'
  BY <1>3, CommitCatalogueStep, RollbackCatalogueStep
<1>4. ASSUME NEW s \in Desks, NEW title \in Titles,
             \/ AddServiceLookup(s, title)
             \/ \E price \in Prices : AddServiceFlush(s, title, price)
             \/ \E v \in ServiceIds : \/ DeleteService(s, v, title)
                                      \/ \E new \in ServiceRow : EditService(s, v, title, new)
      PROVE  CatalogueInv'
  BY <1>4, AddServiceLookupStep, AddServiceFlushStep, DeleteServiceStep, EditServiceStep
<1>5. ASSUME NEW s \in Desks, NEW row \in ServiceRow, PwaCreateService(s, row) PROVE CatalogueInv'
  BY <1>5, InsertServiceStep DEF PwaCreateService
<1>6. QED BY <1>1, <1>2, <1>3, <1>4, <1>5 DEF CatalogueNext

-----------------------------------------------------------------------------
(* Theorems *)

\* The invariant holds in every reachable state.
THEOREM CatalogueInvariant == CatalogueSpec => []CatalogueInv
BY CatalogueInitial, CatalogueStep, PTL DEF CatalogueSpec

\* Every variable keeps its type: a change merged with the row as it is now is a row.
THEOREM CatalogueTypes == CatalogueSpec => []CatalogueTypeOK
<1>1. CatalogueInv => CatalogueTypeOK
  BY DEF CatalogueInv
<1>2. QED BY <1>1, CatalogueInvariant, PTL

\* An entry of the cache that was not filled beside a change is the committed
\* catalogue, however flushes, commits and rollbacks interleave with listings.
THEOREM CachedIsCommitted == CatalogueSpec => []CacheIsCurrent
<1>1. CatalogueInv => CacheIsCurrent
  BY DEF CatalogueInv, EntryIsSettled, CacheIsCurrent
<1>2. QED BY <1>1, CatalogueInvariant, PTL

-----------------------------------------------------------------------------
(***************************************************************************)
(* DataManagement: the halves of the state are kept apart.  An import adds *)
(* customers only while it holds the write lock, so what it saw when it    *)
(* looked a number up is still so at its commit; an export that has stored *)
(* its file keeps its business and kinds, and whatever replaces the file   *)
(* under its key has the same, since the key names them.                   *)
(***************************************************************************)

\* An import that is not among its lines holds none, and one that is has taken
\* or skipped the lines that are not left; only its last commit completes it.
LinesAddUp(x) ==
    /\ IF x.status = "COMPLETED" THEN x.kept + x.skipped = x.count ELSE x.kept = 0
    /\ x.at # "done" => x.status # "COMPLETED"
    /\ x.at = "rows" => x.taken + x.skipped + x.left = x.count
    /\ x.at # "rows" => x.taken = 0 /\ x.customers = NoCustomers
    /\ x.at \notin {"rows", "done"} => x.skipped = 0

OneHolder == \A i, k \in Imports : Holds(i) /\ Holds(k) => i = k

\* A customer in a savepoint is the only one of its number.
OnlyOnes == \A i \in Imports, p \in Phones :
    importJob[i].customers[p] # 0 => importJob[i].customers[p] = 1 /\ directory[p] = 0

\* The file of a key is of the business and the kinds in its name; an export
\* that has stored its file finds one under its key.
FilesAsNamed ==
    \A e \in bucket : /\ exportReq[e[2]].at \notin {"new", "reading"}
                      /\ e[1].of = exportReq[e[2]].of /\ e[1].kinds = exportReq[e[2]].kinds
Stored(x) == exportReq[x].at = "stored" \/ exportReq[x].status = "COMPLETED"
KeysAreHeld ==
    \A x \in Exports :
      /\ Stored(x) => /\ exportReq[x].key.of = exportReq[x].of
                      /\ exportReq[x].key.kinds = exportReq[x].kinds
                      /\ \E y \in Exports : <<exportReq[x].key, y>> \in bucket
      /\ exportReq[x].at # "done" => exportReq[x].status # "COMPLETED"

DataInv == /\ DataTypeOK
           /\ \A i \in Imports : LinesAddUp(importJob[i])
           /\ OneHolder /\ OnlyOnes
           /\ FilesAsNamed /\ KeysAreHeld

\* What the imports' half of the state must be, and the exports'.
ImportsTyped ==
    /\ directory \in [Numbers -> Nat] /\ records \in Nat
    /\ importJob \in [Imports -> ImportRecord] /\ added \in 0..MaxAdded
ImportsInv == /\ ImportsTyped
              /\ \A i \in Imports : LinesAddUp(importJob[i])
              /\ OneHolder /\ OnlyOnes
ExportsTyped ==
    /\ exportReq \in [Exports -> ExportRecord] /\ bucket \subseteq Key \X Exports
    /\ second \in 0..MaxSecond
ExportsInv == ExportsTyped /\ FilesAsNamed /\ KeysAreHeld

LEMMA DataHalves == DataInv <=> ImportsInv /\ ExportsInv
BY DEF DataInv, DataTypeOK, ImportsInv, ExportsInv, ImportsTyped, ExportsTyped

LEMMA NoCustomersTyped == NoCustomers \in [Numbers -> Nat] /\ \A p \in Phones : NoCustomers[p] = 0
BY DEF NoCustomers, Numbers

LEMMA NewImportTyped ==
  /\ NewImport \in ImportRecord /\ LinesAddUp(NewImport) /\ NewImport.at = "new"
  /\ NewImport.customers = NoCustomers
BY NoCustomersTyped DEF NewImport, ImportRecord, ImportStatus, LinesAddUp

LEMMA NewExportTyped ==
  NewExport \in ExportRecord /\ NewExport.at = "new" /\ NewExport.status = "PENDING"
<1>1. (CHOOSE b \in Tenants : TRUE) \in Tenants
  BY DataAssumption
<1>2. QED BY <1>1 DEF NewExport, ExportRecord, ExportStatus, Key

LEMMA DataInitially == DataInit => DataInv
<1> SUFFICES ASSUME DataInit PROVE DataInv
  OBVIOUS
<1>1. 0 \in 0..MaxSecond /\ 0 \in 0..MaxAdded
  BY DataAssumption
<1>2. /\ \A i \in Imports : importJob[i] = NewImport
      /\ \A x \in Exports : exportReq[x] = NewExport
  BY DEF DataInit
<1>3. ImportsTyped
  BY <1>1, NoCustomersTyped, NewImportTyped DEF DataInit, ImportsTyped
<1>4. OneHolder /\ OnlyOnes
  BY <1>2, NewImportTyped, NoCustomersTyped DEF OneHolder, OnlyOnes, Holds
<1>5. ImportsInv
  BY <1>2, <1>3, <1>4, NewImportTyped DEF ImportsInv
<1>6. ExportsTyped
  BY <1>1, NewExportTyped DEF DataInit, ExportsTyped
<1>7. FilesAsNamed /\ KeysAreHeld
  BY <1>2, NewExportTyped DEF DataInit, FilesAsNamed, KeysAreHeld, Stored
<1>8. QED BY <1>5, <1>6, <1>7, DataHalves DEF ExportsInv

LEMMA ExportsStay == ASSUME ExportsInv, ExportsUnchanged PROVE ExportsInv'
BY DEF ExportsUnchanged, ExportsInv, ExportsTyped, FilesAsNamed, KeysAreHeld, Stored

LEMMA ImportsStay == ASSUME ImportsInv, ExportRest PROVE ImportsInv'
BY DEF ExportRest, ImportsInv, ImportsTyped, LinesAddUp, OneHolder, OnlyOnes, Holds

\* An import goes on: with the lock only if nobody else had it, and with new
\* customers only of numbers that have none.
LEMMA ImportMoves ==
  ASSUME ImportsInv, NEW i \in Imports, NEW rec \in ImportRecord, Import(i, rec),
         LinesAddUp(rec), directory' \in [Numbers -> Nat], records' \in Nat,
         added' \in 0..MaxAdded,
         rec.at \in {"rows", "failed"} => Holds(i) \/ Unlocked,
         \A p \in Phones : rec.customers[p] # 0 => rec.customers[p] = 1 /\ directory'[p] = 0,
         directory' = directory \/ Holds(i)
  PROVE  ImportsInv'
<1>1. importJob \in [Imports -> ImportRecord]
  BY DEF ImportsInv, ImportsTyped
<1> DEFINE new == importJob'
<1>2. /\ new \in [Imports -> ImportRecord] /\ new[i] = rec
      /\ \A k \in Imports \ {i} : new[k] = importJob[k]
  BY <1>1 DEF Import
<1>3. new = importJob'
  OBVIOUS
<1> HIDE DEF new
<1>4. ImportsTyped'
  BY <1>2, <1>3 DEF ImportsTyped
<1>5. \A k \in Imports : LinesAddUp(new[k])
  BY <1>2 DEF ImportsInv
<1>6. (\A k \in Imports : LinesAddUp(importJob[k]))'
  BY <1>3, <1>5 DEF LinesAddUp
<1>7. \A k \in Imports \ {i} : Holds(k)' = Holds(k)
  BY <1>2, <1>3 DEF Holds
<1>8. Holds(i)' => \A k \in Imports \ {i} : ~Holds(k)
  BY <1>2, <1>3 DEF ImportsInv, OneHolder, Holds, Unlocked
<1>9. OneHolder'
  BY <1>7, <1>8 DEF OneHolder, ImportsInv
<1>10. ASSUME NEW k \in Imports, NEW p \in Phones, new[k].customers[p] # 0
       PROVE  new[k].customers[p] = 1 /\ directory'[p] = 0
  <2>1. CASE k = i
    BY <1>2, <1>10, <2>1
  <2>2. CASE k # i
    <3>1. importJob[k].customers[p] = 1 /\ directory[p] = 0
      BY <1>2, <1>10, <2>2 DEF ImportsInv, OnlyOnes
    <3>2. ~Holds(i)
      <4>1. importJob[k].at = "rows"
        BY <3>1, NoCustomersTyped DEF ImportsInv, LinesAddUp
      <4>2. QED BY <2>2, <4>1 DEF ImportsInv, OneHolder, Holds
    <3>3. QED BY <1>2, <2>2, <3>1, <3>2
  <2>3. QED BY <2>1, <2>2
<1>11. OnlyOnes'
  BY <1>3, <1>10 DEF OnlyOnes
<1>12. QED BY <1>4, <1>6, <1>9, <1>11 DEF ImportsInv

\* What is known of an import before its step.
LEMMA ImportKnown ==
  ASSUME ImportsInv, NEW i \in Imports
  PROVE  /\ importJob[i] \in ImportRecord /\ LinesAddUp(importJob[i])
         /\ directory \in [Numbers -> Nat] /\ records \in Nat /\ added \in 0..MaxAdded
BY DEF ImportsInv, ImportsTyped

\* Steps at which the import holds no customers.
LEMMA ImportWaits ==
  ASSUME ImportsInv, NEW i \in Imports, NEW rec \in ImportRecord, Import(i, rec),
         LinesAddUp(rec), rec.customers = NoCustomers, UNCHANGED <<directory, records, added>>,
         rec.at \in {"rows", "failed"} => Holds(i) \/ Unlocked
  PROVE  ImportsInv'
<1>1. /\ directory' \in [Numbers -> Nat] /\ records' \in Nat /\ added' \in 0..MaxAdded
      /\ \A p \in Phones : rec.customers[p] = 0
  BY NoCustomersTyped, ImportKnown
<1>2. QED BY <1>1, ImportMoves

LEMMA ImportStartStep == ASSUME ImportsInv, NEW i \in Imports, ImportStart(i) PROVE ImportsInv'
<1> DEFINE x == importJob[i]
           rec == [x EXCEPT !.at = "fetch", !.status = "PROCESSING"]
<1>1. x \in ImportRecord /\ LinesAddUp(x) /\ x.at = "new"
  BY ImportKnown DEF ImportStart
<1>2. rec \in ImportRecord /\ LinesAddUp(rec) /\ rec.customers = NoCustomers /\ rec.at = "fetch"
  BY <1>1 DEF ImportRecord, ImportStatus, LinesAddUp
<1>3. Import(i, rec) /\ UNCHANGED <<directory, records, added>>
  BY DEF ImportStart
<1> HIDE DEF rec
<1>4. QED BY <1>2, <1>3, ImportWaits

LEMMA ImportUnreadableStep ==
  ASSUME ImportsInv, NEW i \in Imports, ImportUnreadable(i) PROVE ImportsInv'
<1> DEFINE x == importJob[i]
           rec == [x EXCEPT !.at = "done", !.status = "FAILED"]
<1>1. x \in ImportRecord /\ LinesAddUp(x) /\ x.at = "fetch"
  BY ImportKnown DEF ImportUnreadable
<1>2. rec \in ImportRecord /\ LinesAddUp(rec) /\ rec.customers = NoCustomers /\ rec.at = "done"
  BY <1>1 DEF ImportRecord, ImportStatus, LinesAddUp
<1>3. Import(i, rec) /\ UNCHANGED <<directory, records, added>>
  BY DEF ImportUnreadable
<1> HIDE DEF rec
<1>4. QED BY <1>2, <1>3, ImportWaits

LEMMA ImportBeginStep ==
  ASSUME ImportsInv, NEW i \in Imports, NEW n \in 0..MaxLines, ImportBegin(i, n)
  PROVE  ImportsInv'
<1> DEFINE x == importJob[i]
           rec == [x EXCEPT !.at = "rows", !.count = n, !.left = n]
<1>1. x \in ImportRecord /\ LinesAddUp(x) /\ x.at = "fetch" /\ n \in Nat
  BY ImportKnown, DataAssumption DEF ImportBegin
<1>2. rec \in ImportRecord /\ LinesAddUp(rec) /\ rec.customers = NoCustomers
  <2>1. /\ x.taken = 0 /\ x.skipped = 0 /\ x.customers = NoCustomers
        /\ x.status # "COMPLETED" /\ x.kept = 0
    BY <1>1 DEF LinesAddUp
  <2>2. /\ rec \in ImportRecord /\ rec.at = "rows" /\ rec.count = n /\ rec.left = n
        /\ rec.taken = x.taken /\ rec.skipped = x.skipped /\ rec.customers = x.customers /\ rec.status = x.status
        /\ rec.kept = x.kept
    BY <1>1 DEF ImportRecord
  <2> HIDE DEF rec
  <2>3. rec.taken + rec.skipped + rec.left = rec.count
    BY <1>1, <2>1, <2>2
  <2>4. QED BY <2>1, <2>2, <2>3 DEF LinesAddUp
<1>3. Import(i, rec) /\ UNCHANGED <<directory, records, added>> /\ Unlocked
  BY DEF ImportBegin
<1> HIDE DEF rec
<1>4. QED BY <1>2, <1>3, ImportWaits

LEMMA ImportDiesStep == ASSUME ImportsInv, NEW i \in Imports, ImportDies(i) PROVE ImportsInv'
<1> DEFINE rec == [NewImport EXCEPT !.at = "done", !.status = "PROCESSING"]
<1>1. /\ NewImport \in ImportRecord /\ NewImport.kept = 0 /\ NewImport.taken = 0
      /\ NewImport.customers = NoCustomers
  BY NewImportTyped DEF NewImport
<1>2. /\ rec \in ImportRecord /\ rec.customers = NoCustomers /\ rec.at = "done"
      /\ rec.status = "PROCESSING" /\ rec.kept = 0 /\ rec.taken = 0
  BY <1>1 DEF ImportRecord, ImportStatus
<1>3. LinesAddUp(rec)
  BY <1>2 DEF LinesAddUp
<1>4. Import(i, rec) /\ UNCHANGED <<directory, records, added>>
  BY DEF ImportDies
<1> HIDE DEF rec
<1>5. QED BY <1>2, <1>3, <1>4, ImportWaits

LEMMA ImportLineFailsStep ==
  ASSUME ImportsInv, NEW i \in Imports, ImportLineFails(i) PROVE ImportsInv'
<1> DEFINE x == importJob[i]
           back == RolledBack(x)
           rec == [back EXCEPT !.at = "failed"]
<1>1. x \in ImportRecord /\ LinesAddUp(x) /\ x.at = "rows"
  BY ImportKnown DEF ImportLineFails
<1>2. /\ back \in ImportRecord /\ back.customers = NoCustomers /\ back.taken = 0
      /\ back.skipped = 0 /\ back.kept = x.kept /\ back.status = x.status /\ back.count = x.count
  BY <1>1, NoCustomersTyped DEF ImportRecord, RolledBack
<1> HIDE DEF back
<1>3. /\ rec \in ImportRecord /\ rec.customers = NoCustomers /\ rec.taken = 0 /\ rec.at = "failed"
      /\ rec.skipped = 0 /\ rec.kept = x.kept /\ rec.status = x.status /\ rec.count = x.count
  BY <1>2 DEF ImportRecord
<1>4. LinesAddUp(rec)
  BY <1>1, <1>2, <1>3 DEF LinesAddUp
<1>5. Import(i, rec) /\ UNCHANGED <<directory, records, added>> /\ Holds(i)
  BY DEF ImportLineFails, Holds, back
<1> HIDE DEF rec
<1>6. QED BY <1>3, <1>4, <1>5, ImportWaits

\* A line adds a customer only under a number nobody has.
LEMMA ImportLineStep ==
  ASSUME ImportsInv, NEW i \in Imports, NEW p \in Numbers, NEW named \in BOOLEAN,
         NEW record \in BOOLEAN, ImportLine(i, p, named, record)
  PROVE  ImportsInv'
<1> DEFINE x == importJob[i]
           known == p # NoPhone /\ Matching(i, p) > 0
           cs == [x.customers EXCEPT ![p] = IF named /\ ~known THEN @ + 1 ELSE @]
           others == IF record THEN x.others + 1 ELSE x.others
           some == ImportsSomething(named, record)
           taken == IF some THEN x.taken + 1 ELSE x.taken
           skipped == IF some THEN x.skipped ELSE x.skipped + 1
           rec == [x EXCEPT !.left = @ - 1, !.taken = taken, !.skipped = skipped,
                            !.customers = cs, !.others = others]
<1>1. /\ x \in ImportRecord /\ LinesAddUp(x) /\ x.at = "rows" /\ x.left > 0
      /\ directory \in [Numbers -> Nat] /\ records \in Nat /\ added \in 0..MaxAdded
  BY ImportKnown DEF ImportLine
<1>2. /\ x.customers \in [Numbers -> Nat] /\ x.left \in Nat /\ x.taken \in Nat /\ x.others \in Nat
      /\ x.count \in Nat /\ x.skipped \in Nat
  BY <1>1 DEF ImportRecord
<1>3. /\ cs \in [Numbers -> Nat] /\ others \in Nat /\ taken \in Nat /\ skipped \in Nat
      /\ taken + skipped = x.taken + x.skipped + 1
  BY <1>2
<1>4. \A h \in Phones : cs[h] # 0 => cs[h] = 1 /\ directory[h] = 0
  <2> SUFFICES ASSUME NEW h \in Phones, cs[h] # 0 PROVE cs[h] = 1 /\ directory[h] = 0
    OBVIOUS
  <2>1. h \in Numbers /\ (x.customers[h] # 0 => x.customers[h] = 1 /\ directory[h] = 0)
    BY DEF Numbers, ImportsInv, OnlyOnes
  <2>2. CASE h = p /\ named /\ ~known
    <3>1. h # NoPhone
      BY DataAssumption
    <3>2. Matching(i, p) = 0 /\ directory[p] \in Nat /\ x.customers[p] \in Nat
      BY <1>1, <1>2, <2>2, <3>1 DEF Matching
    <3>3. directory[p] = 0 /\ x.customers[p] = 0
      BY <3>2 DEF Matching
    <3>4. QED BY <1>2, <2>2, <3>3
  <2>3. CASE ~(h = p /\ named /\ ~known)
    <3>1. cs[h] = x.customers[h]
      BY <1>2, <2>1, <2>3
    <3>2. QED BY <2>1, <3>1
  <2>4. QED BY <2>2, <2>3
<1>5. Import(i, rec) /\ UNCHANGED <<directory, records, added>> /\ Holds(i)
  <2>1. Holds(i)
    BY <1>1 DEF Holds
  <2>2. UNCHANGED <<directory, records, added>>
    BY DEF ImportLine
  <2>3. Import(i, [x EXCEPT !.left = @ - 1,
                            !.taken = IF some THEN @ + 1 ELSE @,
                            !.skipped = IF some THEN @ ELSE @ + 1,
                            !.customers[p] = IF named /\ ~known THEN @ + 1 ELSE @,
                            !.others = IF record THEN @ + 1 ELSE @])
    BY DEF ImportLine
  <2>4. [x EXCEPT !.left = @ - 1,
                  !.taken = IF some THEN @ + 1 ELSE @,
                  !.skipped = IF some THEN @ ELSE @ + 1,
                  !.customers[p] = IF named /\ ~known THEN @ + 1 ELSE @,
                  !.others = IF record THEN @ + 1 ELSE @] = rec
    BY <1>1 DEF ImportRecord
  <2>5. QED BY <2>1, <2>2, <2>3, <2>4
<1> HIDE DEF cs, others, taken, skipped
<1>6. rec \in ImportRecord /\ rec.customers = cs
  <2>1. x.left - 1 \in Nat
    BY <1>1, <1>2
  <2>2. QED BY <1>1, <1>3, <2>1 DEF ImportRecord
<1>7. LinesAddUp(rec)
  <2>1. /\ rec.taken = taken /\ rec.skipped = skipped
        /\ rec.left = x.left - 1 /\ rec.count = x.count
        /\ rec.at = "rows" /\ rec.status = x.status /\ rec.kept = x.kept
    BY <1>1 DEF ImportRecord
  <2> HIDE DEF rec
  <2>2. rec.taken + rec.skipped + rec.left = rec.count
    BY <1>1, <1>2, <1>3, <2>1 DEF LinesAddUp
  <2>3. QED BY <1>1, <2>1, <2>2 DEF LinesAddUp
<1> HIDE DEF rec
<1>8. QED BY <1>1, <1>4, <1>5, <1>6, <1>7, ImportMoves

\* The commit: what the savepoint holds joins the tables.
LEMMA ImportCommitStep == ASSUME ImportsInv, NEW i \in Imports, ImportCommit(i) PROVE ImportsInv'
<1> DEFINE x == importJob[i]
           rec == [x EXCEPT !.at = "done", !.kept = x.taken, !.left = 0,
                            !.customers = NoCustomers, !.others = 0, !.taken = 0,
                            !.status = IF x.at = "rows" THEN "COMPLETED" ELSE "FAILED"]
<1>1. /\ x \in ImportRecord /\ LinesAddUp(x) /\ Holds(i) /\ (x.at = "rows" => x.left = 0)
      /\ directory \in [Numbers -> Nat] /\ records \in Nat /\ added \in 0..MaxAdded
  BY ImportKnown DEF ImportCommit
<1>2. /\ x.customers \in [Numbers -> Nat] /\ x.taken \in Nat /\ x.others \in Nat /\ x.count \in Nat
      /\ x.skipped \in Nat
  BY <1>1 DEF ImportRecord
<1>3. /\ directory' \in [Numbers -> Nat] /\ records' \in Nat /\ added' \in 0..MaxAdded
  BY <1>1, <1>2 DEF ImportCommit
<1>4. Import(i, rec)
  BY DEF ImportCommit
<1>5. rec \in ImportRecord /\ rec.customers = NoCustomers /\ rec.at = "done"
  BY <1>1, <1>2, NoCustomersTyped DEF ImportRecord, ImportStatus
<1>6. LinesAddUp(rec)
  <2>1. CASE x.at = "rows"
    BY <1>1, <1>2, <2>1 DEF LinesAddUp, ImportRecord
  <2>2. CASE x.at # "rows"
    BY <1>1, <1>2, <2>2 DEF LinesAddUp, ImportRecord
  <2>3. QED BY <2>1, <2>2
<1> HIDE DEF rec
<1>7. \A p \in Phones : rec.customers[p] = 0
  BY <1>5, NoCustomersTyped
<1>8. QED BY <1>1, <1>3, <1>4, <1>5, <1>6, <1>7, ImportMoves

LEMMA AddCustomerStep ==
  ASSUME ImportsInv, NEW p \in Numbers, AddCustomer(p)
  PROVE  ImportsInv'
<1>1. /\ directory \in [Numbers -> Nat] /\ added \in 0..MaxAdded /\ Unlocked
      /\ importJob' = importJob /\ records' = records
      /\ directory' = [directory EXCEPT ![p] = @ + 1] /\ added' = added + 1 /\ added < MaxAdded
  BY DEF ImportsInv, ImportsTyped, AddCustomer
<1>2. added' \in 0..MaxAdded
  BY <1>1, DataAssumption
<1>3. directory' \in [Numbers -> Nat]
  BY <1>1
<1>4. ImportsTyped'
  BY <1>1, <1>2, <1>3 DEF ImportsInv, ImportsTyped
<1>5. \A i \in Imports : importJob[i].customers = NoCustomers
  BY <1>1 DEF ImportsInv, LinesAddUp, Unlocked, Holds
<1>6. OnlyOnes' /\ OneHolder'
  BY <1>1, <1>5, NoCustomersTyped DEF ImportsInv, OnlyOnes, OneHolder, Holds
<1>7. (\A i \in Imports : LinesAddUp(importJob[i]))'
  BY <1>1 DEF ImportsInv, LinesAddUp
<1>8. QED BY <1>4, <1>6, <1>7 DEF ImportsInv

-----------------------------------------------------------------------------
(* The steps of exports *)

LEMMA ExportKnown ==
  ASSUME ExportsInv, NEW x \in Exports
  PROVE  exportReq[x] \in ExportRecord
BY DEF ExportsInv, ExportsTyped

\* An export goes on and stores no file: what it stored before, it still is.
LEMMA ExportMoves ==
  ASSUME ExportsInv, NEW x \in Exports, NEW rec \in ExportRecord, Export(x, rec),
         UNCHANGED <<bucket, second>>,
         exportReq[x].at \notin {"new", "reading"} =>
            /\ rec.at \notin {"new", "reading"}
            /\ rec.of = exportReq[x].of /\ rec.kinds = exportReq[x].kinds,
         (rec.at = "stored" \/ rec.status = "COMPLETED") =>
            /\ Stored(x) /\ rec.key = exportReq[x].key
            /\ rec.of = exportReq[x].of /\ rec.kinds = exportReq[x].kinds,
         rec.at # "done" => rec.status # "COMPLETED"
  PROVE  ExportsInv'
<1>1. exportReq \in [Exports -> ExportRecord] /\ bucket \subseteq Key \X Exports
  BY DEF ExportsInv, ExportsTyped
<1> DEFINE new == exportReq'
<1>2. /\ new \in [Exports -> ExportRecord] /\ new[x] = rec
      /\ \A y \in Exports \ {x} : new[y] = exportReq[y]
  BY <1>1 DEF Export
<1>3. new = exportReq'
  OBVIOUS
<1> HIDE DEF new
<1>4. ExportsTyped'
  BY <1>2, <1>3 DEF ExportsInv, ExportsTyped
<1>5. \A e \in bucket : /\ new[e[2]].at \notin {"new", "reading"}
                        /\ e[1].of = new[e[2]].of /\ e[1].kinds = new[e[2]].kinds
  <2> SUFFICES ASSUME NEW e \in bucket
               PROVE  /\ new[e[2]].at \notin {"new", "reading"}
                      /\ e[1].of = new[e[2]].of /\ e[1].kinds = new[e[2]].kinds
    OBVIOUS
  <2>1. /\ e[2] \in Exports /\ exportReq[e[2]].at \notin {"new", "reading"}
        /\ e[1].of = exportReq[e[2]].of /\ e[1].kinds = exportReq[e[2]].kinds
    BY <1>1 DEF ExportsInv, FilesAsNamed
  <2>2. CASE e[2] = x
    BY <1>2, <2>1, <2>2
  <2>3. CASE e[2] # x
    BY <1>2, <2>1, <2>3
  <2>4. QED BY <2>2, <2>3
<1>6. FilesAsNamed'
  BY <1>3, <1>5 DEF FilesAsNamed
<1>7. ASSUME NEW y \in Exports
      PROVE  /\ new[y].at = "stored" \/ new[y].status = "COMPLETED" =>
                  /\ new[y].key.of = new[y].of /\ new[y].key.kinds = new[y].kinds
                  /\ \E z \in Exports : <<new[y].key, z>> \in bucket
             /\ new[y].at # "done" => new[y].status # "COMPLETED"
  <2>1. CASE y = x
    BY <1>2, <2>1 DEF ExportsInv, KeysAreHeld, Stored
  <2>2. CASE y # x
    <3>1. new[y] = exportReq[y]
      BY <1>2, <2>2
    <3>2. KeysAreHeld
      BY DEF ExportsInv
    <3>3. QED BY <3>1, <3>2 DEF KeysAreHeld, Stored
  <2>3. QED BY <2>1, <2>2
<1>8. KeysAreHeld'
  BY <1>3, <1>7 DEF KeysAreHeld, Stored
<1>9. QED BY <1>4, <1>6, <1>8 DEF ExportsInv

\* The upload takes a key over, with a file of the same business and kinds.
LEMMA ExportUploadStep ==
  ASSUME ExportsInv, NEW x \in Exports, ExportUpload(x) PROVE ExportsInv'
<1>1. /\ exportReq \in [Exports -> ExportRecord] /\ bucket \subseteq Key \X Exports
      /\ second \in 0..MaxSecond
  BY DEF ExportsInv, ExportsTyped
<1> DEFINE key == FileKey(exportReq[x], second)
           rec == [exportReq[x] EXCEPT !.at = "stored", !.key = key]
           new == exportReq'
<1>2. /\ exportReq[x] \in ExportRecord /\ exportReq[x].at = "reading" /\ second' = second
      /\ bucket' = {e \in bucket : e[1] # key} \cup {<<key, x>>} /\ Export(x, rec)
  BY <1>1 DEF ExportUpload
<1>3. key \in Key /\ key.of = exportReq[x].of /\ key.kinds = exportReq[x].kinds
  BY <1>1, <1>2 DEF FileKey, Key, ExportRecord
<1> HIDE DEF key
<1>4. /\ rec \in ExportRecord /\ rec.at = "stored" /\ rec.key = key
      /\ rec.of = exportReq[x].of /\ rec.kinds = exportReq[x].kinds
      /\ rec.status = exportReq[x].status /\ rec.status # "COMPLETED"
  BY <1>2, <1>3 DEF ExportRecord, ExportsInv, KeysAreHeld
<1> HIDE DEF rec
<1>5. /\ new \in [Exports -> ExportRecord] /\ new[x] = rec
      /\ \A y \in Exports \ {x} : new[y] = exportReq[y]
  BY <1>1, <1>2, <1>4 DEF Export
<1>6. new = exportReq'
  OBVIOUS
<1> HIDE DEF new
<1>7. bucket' \subseteq Key \X Exports
  BY <1>1, <1>2, <1>3
<1>8. ExportsTyped'
  BY <1>1, <1>2, <1>5, <1>6, <1>7 DEF ExportsTyped
<1>9. ASSUME NEW e \in bucket'
      PROVE  /\ new[e[2]].at \notin {"new", "reading"}
             /\ e[1].of = new[e[2]].of /\ e[1].kinds = new[e[2]].kinds
  <2>1. CASE e = <<key, x>>
    BY <1>3, <1>4, <1>5, <2>1
  <2>2. CASE e \in bucket
    <3>1. /\ e[2] \in Exports /\ exportReq[e[2]].at \notin {"new", "reading"}
          /\ e[1].of = exportReq[e[2]].of /\ e[1].kinds = exportReq[e[2]].kinds
      BY <1>1, <2>2 DEF ExportsInv, FilesAsNamed
    <3>2. e[2] # x
      BY <1>2, <3>1
    <3>3. QED BY <1>5, <3>1, <3>2
  <2>3. QED BY <1>2, <2>1, <2>2
<1>10. FilesAsNamed'
  BY <1>6, <1>9 DEF FilesAsNamed
<1>11. ASSUME NEW y \in Exports
       PROVE  /\ new[y].at = "stored" \/ new[y].status = "COMPLETED" =>
                   /\ new[y].key.of = new[y].of /\ new[y].key.kinds = new[y].kinds
                   /\ \E z \in Exports : <<new[y].key, z>> \in bucket'
              /\ new[y].at # "done" => new[y].status # "COMPLETED"
  <2>1. CASE y = x
    BY <1>2, <1>3, <1>4, <1>5, <2>1
  <2>2. CASE y # x
    <3>1. new[y] = exportReq[y]
      BY <1>5, <2>2
    <3>2. \A z \in Exports : <<exportReq[y].key, z>> \in bucket =>
            \/ <<exportReq[y].key, z>> \in bucket'
            \/ exportReq[y].key = key /\ <<key, x>> \in bucket'
      BY <1>2
    <3>3. QED BY <3>1, <3>2 DEF ExportsInv, KeysAreHeld, Stored
  <2>3. QED BY <2>1, <2>2
<1>12. KeysAreHeld'
  BY <1>6, <1>11 DEF KeysAreHeld, Stored
<1>13. QED BY <1>8, <1>10, <1>12 DEF ExportsInv

LEMMA ExportStartStep ==
  ASSUME ExportsInv, NEW x \in Exports, NEW b \in Tenants, NEW kinds \in SUBSET Kinds,
         ExportStart(x, b, kinds)
  PROVE  ExportsInv'
<1> DEFINE rec == [exportReq[x] EXCEPT !.at = "reading", !.status = "PROCESSING",
                                       !.of = b, !.kinds = kinds, !.left = kinds]
<1>1. exportReq[x] \in ExportRecord /\ exportReq[x].at = "new"
  BY ExportKnown DEF ExportStart
<1>2. rec \in ExportRecord /\ rec.at = "reading" /\ rec.status = "PROCESSING"
  BY <1>1 DEF ExportRecord, ExportStatus
<1>3. Export(x, rec) /\ UNCHANGED <<bucket, second>>
  BY DEF ExportStart
<1> HIDE DEF rec
<1>4. QED BY <1>1, <1>2, <1>3, ExportMoves

LEMMA ExportReadStep ==
  ASSUME ExportsInv, NEW x \in Exports,
         ExportFails(x) \/ \E k \in Kinds : ExportRead(x, k)
  PROVE  ExportsInv'
<1>1. /\ exportReq[x] \in ExportRecord /\ exportReq[x].at = "reading"
      /\ exportReq[x].status # "COMPLETED" /\ UNCHANGED <<bucket, second>>
  BY ExportKnown DEF ExportRead, ExportFails, ExportsInv, KeysAreHeld
<1>2. ASSUME NEW rec \in ExportRecord, Export(x, rec), rec.at \in {"reading", "failed"},
             rec.status = exportReq[x].status
      PROVE  ExportsInv'
  BY <1>1, <1>2, ExportMoves
<1>3. CASE ExportFails(x)
  <2> DEFINE rec == [exportReq[x] EXCEPT !.at = "failed"]
  <2>1. /\ rec \in ExportRecord /\ rec.at = "failed" /\ rec.status = exportReq[x].status
        /\ Export(x, rec)
    BY <1>1, <1>3 DEF ExportRecord, ExportFails
  <2> HIDE DEF rec
  <2>2. QED BY <1>2, <2>1
<1>4. ASSUME NEW k \in Kinds, ExportRead(x, k) PROVE ExportsInv'
  <2> DEFINE rec == [exportReq[x] EXCEPT !.left = @ \ {k}]
  <2>1. /\ rec \in ExportRecord /\ rec.at = "reading" /\ rec.status = exportReq[x].status
        /\ Export(x, rec)
    BY <1>1, <1>4 DEF ExportRecord, ExportRead
  <2> HIDE DEF rec
  <2>2. QED BY <1>2, <2>1
<1>5. QED BY <1>3, <1>4

LEMMA ExportEndStep ==
  ASSUME ExportsInv, NEW x \in Exports, ExportCommit(x) \/ ExportDies(x)
  PROVE  ExportsInv'
<1>1. /\ exportReq[x] \in ExportRecord /\ exportReq[x].status # "COMPLETED"
      /\ exportReq[x].at \in {"reading", "stored", "failed"} /\ UNCHANGED <<bucket, second>>
  BY ExportKnown DEF ExportCommit, ExportDies, ExportsInv, KeysAreHeld
<1>2. CASE ExportCommit(x)
  <2> DEFINE e == exportReq[x]
             rec == [e EXCEPT !.at = "done",
                              !.status = IF e.at = "stored" THEN "COMPLETED" ELSE "FAILED"]
  <2>1. /\ rec \in ExportRecord /\ rec.at = "done" /\ (rec.status = "COMPLETED" => e.at = "stored")
        /\ rec.of = e.of /\ rec.kinds = e.kinds /\ rec.key = e.key
    BY <1>1 DEF ExportRecord, ExportStatus
  <2>2. Export(x, rec)
    BY <1>2 DEF ExportCommit
  <2> HIDE DEF rec
  <2>3. QED BY <1>1, <2>1, <2>2, ExportMoves DEF Stored
<1>3. CASE ExportDies(x)
  <2> DEFINE e == exportReq[x]
             rec == [e EXCEPT !.at = "done"]
  <2>1. /\ rec \in ExportRecord /\ rec.at = "done" /\ rec.status = e.status
        /\ rec.of = e.of /\ rec.kinds = e.kinds /\ rec.key = e.key
    BY <1>1 DEF ExportRecord
  <2>2. Export(x, rec)
    BY <1>3 DEF ExportDies
  <2> HIDE DEF rec
  <2>3. QED BY <1>1, <2>1, <2>2, ExportMoves
<1>4. QED BY <1>2, <1>3

-----------------------------------------------------------------------------
(* Imports and exports: the theorems *)

LEMMA ImportStepKeeps == ASSUME ImportsInv, ImportNext PROVE ImportsInv'
<1>1. ASSUME NEW i \in Imports,
             \/ ImportStart(i) \/ ImportUnreadable(i) \/ ImportLineFails(i)
             \/ ImportCommit(i) \/ ImportDies(i)
             \/ \E n \in 0..MaxLines : ImportBegin(i, n)
      PROVE  ImportsInv'
  BY <1>1, ImportStartStep, ImportUnreadableStep, ImportLineFailsStep, ImportCommitStep,
     ImportDiesStep, ImportBeginStep
<1>2. ASSUME NEW i \in Imports, NEW p \in Numbers, NEW named \in BOOLEAN, NEW record \in BOOLEAN,
             ImportLine(i, p, named, record)
      PROVE  ImportsInv'
  BY <1>2, ImportLineStep
<1>3. ASSUME NEW p \in Numbers, AddCustomer(p)
      PROVE  ImportsInv'
  BY <1>3, AddCustomerStep
<1>4. QED BY <1>1, <1>2, <1>3 DEF ImportNext

LEMMA ExportStepKeeps == ASSUME ExportsInv, ExportNext PROVE ExportsInv'
<1>1. CASE NextSecond
  <2>1. second' \in 0..MaxSecond
    BY <1>1, DataAssumption DEF NextSecond, ExportsInv, ExportsTyped
  <2>2. UNCHANGED <<exportReq, bucket>>
    BY <1>1 DEF NextSecond
  <2>3. QED BY <2>1, <2>2 DEF ExportsInv, ExportsTyped, FilesAsNamed, KeysAreHeld, Stored
<1>2. ASSUME NEW x \in Exports,
             \/ ExportUpload(x) \/ ExportFails(x) \/ ExportCommit(x) \/ ExportDies(x)
             \/ \E k \in Kinds : ExportRead(x, k)
      PROVE  ExportsInv'
  BY <1>2, ExportUploadStep, ExportReadStep, ExportEndStep
<1>3. ASSUME NEW x \in Exports, NEW b \in Tenants, NEW kinds \in {Kinds} \cup {{k} : k \in Kinds},
             ExportStart(x, b, kinds)
      PROVE  ExportsInv'
  <2>1. kinds \in SUBSET Kinds
    OBVIOUS
  <2>2. QED BY <1>3, <2>1, ExportStartStep
<1>4. QED BY <1>1, <1>2, <1>3 DEF ExportNext

LEMMA ImportsLeaveExports == ImportNext => ExportsUnchanged
<1>1. ASSUME NEW p \in Numbers, AddCustomer(p) PROVE ExportsUnchanged
  BY <1>1 DEF AddCustomer
<1>2. ASSUME NEW i \in Imports,
             ImportStart(i) \/ ImportUnreadable(i) \/ ImportLineFails(i) \/ ImportDies(i)
      PROVE  ExportsUnchanged
  BY <1>2 DEF ImportStart, ImportUnreadable, ImportLineFails, ImportDies
<1>3. ASSUME NEW i \in Imports, ImportCommit(i) PROVE ExportsUnchanged
  BY <1>3 DEF ImportCommit
<1>4. ASSUME NEW i \in Imports, NEW n \in 0..MaxLines, ImportBegin(i, n) PROVE ExportsUnchanged
  BY <1>4 DEF ImportBegin
<1>5. ASSUME NEW i \in Imports, NEW p \in Numbers, NEW named \in BOOLEAN, NEW record \in BOOLEAN,
             ImportLine(i, p, named, record)
      PROVE  ExportsUnchanged
  BY <1>5 DEF ImportLine
<1>6. QED BY <1>1, <1>2, <1>3, <1>4, <1>5 DEF ImportNext

LEMMA ExportsLeaveImports == ExportNext => ExportRest
BY DEF ExportNext, NextSecond, ExportUpload, ExportFails, ExportCommit, ExportDies, ExportStart,
       ExportRead

LEMMA DataStep == DataInv /\ [DataNext]_dataVars => DataInv'
<1> SUFFICES ASSUME DataInv, [DataNext]_dataVars PROVE DataInv'
  OBVIOUS
<1>1. ImportsInv /\ ExportsInv
  BY DataHalves
<1>2. CASE UNCHANGED dataVars
  <2>1. ExportsUnchanged /\ ExportRest
    BY <1>2 DEF dataVars, ExportsUnchanged, ExportRest
  <2>2. ImportsInv' /\ ExportsInv'
    BY <1>1, <2>1, ImportsStay, ExportsStay
  <2>3. QED BY <2>2 DEF DataInv, DataTypeOK, ImportsInv, ExportsInv, ImportsTyped, ExportsTyped
<1>3. CASE DataNext
  <2>1. ImportsInv' /\ ExportsInv'
    BY <1>1, <1>3, ImportsLeaveExports, ExportsLeaveImports, ImportStepKeeps, ExportStepKeeps,
       ImportsStay, ExportsStay DEF DataNext
  <2>2. QED BY <2>1 DEF DataInv, DataTypeOK, ImportsInv, ExportsInv, ImportsTyped, ExportsTyped
<1>4. QED BY <1>2, <1>3

\* In every reachable state imports hold what they took and exports find their files.
THEOREM DataInvariant == DataSpec => []DataInv
<1>1. QED BY DataInitially, DataStep, PTL DEF DataSpec

\* Rows, requests and counters keep their types.
THEOREM DataTypes == DataSpec => []DataTypeOK
<1>1. DataInv => DataTypeOK
  BY DEF DataInv
<1>2. QED BY <1>1, DataInvariant, PTL

\* A COMPLETED import has in the database all its lines but those it skipped, and
\* any other import has none; the link of a COMPLETED export opens a file of its business and its kinds.
THEOREM JobsEndAsReported == DataSpec => []FinishedAsReported
<1>1. DataInv => FinishedAsReported
  <2> SUFFICES ASSUME DataInv PROVE FinishedAsReported
    OBVIOUS
  <2>1. \A i \in Imports :
          IF importJob[i].status = "COMPLETED"
          THEN importJob[i].kept + importJob[i].skipped = importJob[i].count
          ELSE importJob[i].kept = 0
    BY DEF DataInv, LinesAddUp
  <2>2. ASSUME NEW x \in Exports, exportReq[x].status = "COMPLETED"
        PROVE  \E y \in Exports : /\ <<exportReq[x].key, y>> \in bucket
                                   /\ exportReq[y].of = exportReq[x].of
                                   /\ exportReq[y].kinds = exportReq[x].kinds
    <3>1. PICK y \in Exports : <<exportReq[x].key, y>> \in bucket
      BY <2>2 DEF DataInv, KeysAreHeld, Stored
    <3>2. /\ exportReq[x].key.of = exportReq[x].of
          /\ exportReq[x].key.kinds = exportReq[x].kinds
      BY <2>2 DEF DataInv, KeysAreHeld, Stored
    <3>3. /\ exportReq[x].key.of = exportReq[y].of
          /\ exportReq[x].key.kinds = exportReq[y].kinds
      BY <3>1 DEF DataInv, FilesAsNamed
    <3>4. QED BY <3>1, <3>2, <3>3
  <2>3. QED BY <2>1, <2>2 DEF FinishedAsReported
<1>2. QED BY <1>1, DataInvariant, PTL

\* The step of an import that raises a number's count is its commit.
LEMMA DeduplicatesStep ==
  ASSUME ImportsInv, DataNext, NEW p \in Phones, NEW i \in Imports,
         directory'[p] > directory[p], importJob'[i].at # importJob[i].at
  PROVE  directory'[p] = 1
<1>1. p \in Numbers /\ directory \in [Numbers -> Nat]
  BY DEF Numbers, ImportsInv, ImportsTyped
<1>2. directory' # directory /\ importJob' # importJob
  BY <1>1
<1>3. PICK k \in Imports : ImportCommit(k)
  <2>1. ImportNext
    BY <1>2, ExportsLeaveImports DEF DataNext, ExportRest
  <2>2. ASSUME NEW q \in Numbers, AddCustomer(q) PROVE FALSE
    BY <1>2, <2>2 DEF AddCustomer
  <2>3. ASSUME NEW k \in Imports,
               ImportStart(k) \/ ImportUnreadable(k) \/ ImportLineFails(k) \/ ImportDies(k)
        PROVE  FALSE
    BY <1>2, <2>3 DEF ImportStart, ImportUnreadable, ImportLineFails, ImportDies
  <2>4. ASSUME NEW k \in Imports, NEW n \in 0..MaxLines, ImportBegin(k, n) PROVE FALSE
    BY <1>2, <2>4 DEF ImportBegin
  <2>5. ASSUME NEW k \in Imports, NEW q \in Numbers, NEW named \in BOOLEAN,
               NEW record \in BOOLEAN, ImportLine(k, q, named, record)
        PROVE  FALSE
    BY <1>2, <2>5 DEF ImportLine
  <2>6. QED BY <2>1, <2>2, <2>3, <2>4, <2>5 DEF ImportNext
<1>4. /\ directory' = [h \in Numbers |-> directory[h] + importJob[k].customers[h]]
      /\ importJob[k].customers \in [Numbers -> Nat]
  BY <1>3, ImportKnown DEF ImportCommit, ImportRecord
<1>5. directory'[p] = directory[p] + importJob[k].customers[p]
  BY <1>1, <1>4
<1>6. importJob[k].customers[p] # 0
  BY <1>1, <1>4, <1>5
<1>7. importJob[k].customers[p] = 1 /\ directory[p] = 0
  BY <1>6 DEF ImportsInv, OnlyOnes
<1>8. QED BY <1>5, <1>7

\* An import's commit never adds a customer under a number that has one, whatever
\* is imported or added beside it.
THEOREM NoSecondCustomer == DataSpec => ImportsDeduplicate
<1>1. DataInv /\ [DataNext]_dataVars =>
        [\A p \in Phones, i \in Imports :
           (directory'[p] > directory[p] /\ importJob'[i].at # importJob[i].at)
              => directory'[p] = 1]_dataVars
  BY DataHalves, DeduplicatesStep
<1>2. QED BY <1>1, DataInvariant, PTL DEF DataSpec, ImportsDeduplicate

-----------------------------------------------------------------------------
(***************************************************************************)
(* Imports implement AtomicImport: the savepoint of an import stays within *)
(* the lines it took, so that its commit is one step of the promise.       *)
(***************************************************************************)

\* The numbers under which a savepoint adds a customer.
Newcomers(x) == {p \in Phones : x.customers[p] # 0}

\* Each line taken added one customer and one record at most; before its end an
\* import is not called FAILED, and it has records only among its lines.
WithinFile(x) ==
    /\ x.at # "done" => x.status # "FAILED"
    /\ x.at # "rows" => x.others = 0
    /\ x.count <= MaxLines
    /\ x.others <= x.taken
    /\ IsFiniteSet(Newcomers(x)) /\ Cardinality(Newcomers(x)) + x.customers[NoPhone] <= x.taken

AllWithin == \A i \in Imports : WithinFile(importJob[i])

LEMMA NothingWithin ==
  ASSUME NEW x \in ImportRecord, x.customers = NoCustomers, x.others = 0, x.count <= MaxLines,
         x.at # "done" => x.status # "FAILED"
  PROVE  WithinFile(x)
<1>1. Newcomers(x) = {} /\ x.customers[NoPhone] = 0
  BY NoCustomersTyped DEF Newcomers, NoCustomers, Numbers
<1>2. IsFiniteSet(Newcomers(x)) /\ Cardinality(Newcomers(x)) = 0
  BY <1>1, FS_EmptySet
<1>3. x.taken \in Nat
  BY DEF ImportRecord
<1>4. QED BY <1>1, <1>2, <1>3 DEF WithinFile

LEMMA WithinInit == DataInit => AllWithin
<1>1. NewImport \in ImportRecord /\ WithinFile(NewImport)
  BY NewImportTyped, NothingWithin, DataAssumption DEF NewImport
<1>2. QED BY <1>1 DEF DataInit, AllWithin

\* An import goes on to a record that is within its file.
LEMMA WithinMoves ==
  ASSUME ImportsInv, AllWithin, NEW i \in Imports, NEW rec, Import(i, rec), WithinFile(rec)
  PROVE  AllWithin'
<1> DEFINE new == importJob'
<1>1. importJob \in [Imports -> ImportRecord]
  BY DEF ImportsInv, ImportsTyped
<1>2. new[i] = rec /\ \A k \in Imports \ {i} : new[k] = importJob[k]
  BY <1>1 DEF Import
<1> HIDE DEF new
<1>3. \A k \in Imports : WithinFile(new[k])
  BY <1>2 DEF AllWithin
<1>4. QED BY <1>3 DEF new, AllWithin, WithinFile, Newcomers

LEMMA WithinLine ==
  ASSUME ImportsInv, AllWithin, NEW i \in Imports, NEW p \in Numbers, NEW named \in BOOLEAN,
         NEW record \in BOOLEAN, ImportLine(i, p, named, record)
  PROVE  AllWithin'
<1> DEFINE x == importJob[i]
           fresh == named /\ ~(p # NoPhone /\ Matching(i, p) > 0)
           cs == [x.customers EXCEPT ![p] = IF fresh THEN @ + 1 ELSE @]
           others == IF record THEN x.others + 1 ELSE x.others
           some == ImportsSomething(named, record)
           taken == IF some THEN x.taken + 1 ELSE x.taken
           skipped == IF some THEN x.skipped ELSE x.skipped + 1
           rec == [x EXCEPT !.left = @ - 1, !.taken = taken, !.skipped = skipped,
                            !.customers = cs, !.others = others]
<1>1. x \in ImportRecord /\ x.at = "rows" /\ x.left > 0 /\ directory \in [Numbers -> Nat]
  BY ImportKnown DEF ImportLine
<1>2. x.customers \in [Numbers -> Nat] /\ x.taken \in Nat /\ x.others \in Nat /\ x.left \in Nat
  BY <1>1 DEF ImportRecord
<1>3. Import(i, rec)
  <2>1. Import(i, [x EXCEPT !.left = @ - 1,
                            !.taken = IF some THEN @ + 1 ELSE @,
                            !.skipped = IF some THEN @ ELSE @ + 1,
                            !.customers[p] = IF named /\ ~(p # NoPhone /\ Matching(i, p) > 0)
                                               THEN @ + 1 ELSE @,
                            !.others = IF record THEN @ + 1 ELSE @])
    BY DEF ImportLine
  <2>2. [x EXCEPT !.left = @ - 1,
                  !.taken = IF some THEN @ + 1 ELSE @,
                  !.skipped = IF some THEN @ ELSE @ + 1,
                  !.customers[p] = IF named /\ ~(p # NoPhone /\ Matching(i, p) > 0)
                                     THEN @ + 1 ELSE @,
                  !.others = IF record THEN @ + 1 ELSE @] = rec
    BY <1>1 DEF ImportRecord
  <2>3. QED BY <2>1, <2>2
<1>4. fresh /\ p \in Phones => x.customers[p] = 0
  <2> SUFFICES ASSUME fresh, p \in Phones PROVE x.customers[p] = 0
    OBVIOUS
  <2>1. p # NoPhone
    BY DataAssumption
  <2>2. directory[p] \in Nat /\ x.customers[p] \in Nat
    BY <1>1, <1>2
  <2>3. ~(directory[p] + x.customers[p] > 0)
    BY <2>1 DEF Matching
  <2>4. QED BY <2>2, <2>3
<1>14. /\ taken \in Nat /\ x.taken <= taken /\ (fresh => taken = x.taken + 1)
      /\ others <= taken - x.taken + x.others /\ others \in Nat
  BY <1>2 DEF ImportsSomething
<1> HIDE DEF others, fresh, taken, skipped
<1>5. cs \in [Numbers -> Nat] /\ (\A h \in Numbers : h # p => cs[h] = x.customers[h])
      /\ cs[p] = IF fresh THEN x.customers[p] + 1 ELSE x.customers[p]
  BY <1>2
<1> HIDE DEF cs
<1>6. /\ rec.taken = taken /\ rec.customers = cs /\ rec.others = others /\ rec.at = x.at
      /\ rec.status = x.status /\ rec.count = x.count
  BY <1>1 DEF ImportRecord
<1> HIDE DEF rec
<1>7. /\ x.status # "FAILED" /\ x.count <= MaxLines /\ x.others <= x.taken
      /\ IsFiniteSet(Newcomers(x)) /\ Cardinality(Newcomers(x)) + x.customers[NoPhone] <= x.taken
  BY <1>1 DEF AllWithin, WithinFile
<1>8. NoPhone \in Numbers /\ Phones \subseteq Numbers /\ NoPhone \notin Phones
  BY DataAssumption DEF Numbers
<1>9. Cardinality(Newcomers(x)) \in Nat /\ x.customers[NoPhone] \in Nat
  BY <1>2, <1>7, <1>8, FS_CardinalityType
<1>10. /\ IsFiniteSet(Newcomers(rec))
       /\ Cardinality(Newcomers(rec)) + cs[NoPhone] <= taken
  <2>1. CASE fresh /\ p \in Phones
    <3>1. Newcomers(rec) = Newcomers(x) \cup {p}
      BY <1>2, <1>4, <1>5, <1>6, <1>8, <2>1 DEF Newcomers
    <3>2. p \notin Newcomers(x)
      BY <1>4, <2>1 DEF Newcomers
    <3>3. /\ IsFiniteSet(Newcomers(x) \cup {p})
          /\ Cardinality(Newcomers(x) \cup {p}) = Cardinality(Newcomers(x)) + 1
      BY <1>7, <3>2, FS_AddElement
    <3>4. cs[NoPhone] = x.customers[NoPhone]
      BY <1>5, <1>8, <2>1
    <3>5. QED BY <1>2, <1>14, <1>7, <1>9, <2>1, <3>1, <3>3, <3>4
  <2>2. CASE ~(fresh /\ p \in Phones)
    <3>1. \A h \in Phones : cs[h] = x.customers[h]
      BY <1>5, <1>8, <2>2
    <3>2. Newcomers(rec) = Newcomers(x)
      BY <1>6, <3>1 DEF Newcomers
    <3>3. /\ cs[NoPhone] <= x.customers[NoPhone] + (taken - x.taken)
          /\ cs[NoPhone] \in Nat
      BY <1>2, <1>14, <1>5, <1>8, <1>9
    <3>4. QED BY <1>2, <1>14, <1>7, <1>9, <3>2, <3>3
  <2>3. QED BY <2>1, <2>2
<1>11. others <= taken
  BY <1>2, <1>14, <1>7
<1>12. WithinFile(rec)
  BY <1>1, <1>6, <1>7, <1>10, <1>11 DEF WithinFile
<1>13. QED BY <1>3, <1>12, WithinMoves

\* The steps after which an import's savepoint is empty.
LEMMA WithinEmpty ==
  ASSUME ImportsInv, AllWithin, NEW i \in Imports,
         ImportStart(i) \/ ImportUnreadable(i) \/ (\E n \in 0..MaxLines : ImportBegin(i, n))
           \/ ImportLineFails(i) \/ ImportCommit(i) \/ ImportDies(i)
  PROVE  AllWithin'
<1> DEFINE x == importJob[i]
<1>1. x \in ImportRecord /\ LinesAddUp(x) /\ WithinFile(x) /\ x.count <= MaxLines
  BY ImportKnown DEF AllWithin, WithinFile
<1> HIDE DEF x
<1>2. x.at \in {"new", "fetch"} => /\ x.customers = NoCustomers /\ x.others = 0
                                  /\ x.status # "FAILED"
  BY <1>1 DEF LinesAddUp, WithinFile
<1>3. CASE ImportStart(i)
  <2> DEFINE rec == [x EXCEPT !.at = "fetch", !.status = "PROCESSING"]
  <2>1. Import(i, rec) /\ x.at = "new"
    BY <1>3 DEF ImportStart, x
  <2>2. rec \in ImportRecord /\ rec.customers = NoCustomers /\ rec.others = 0
        /\ rec.count = x.count /\ rec.status = "PROCESSING"
    BY <1>1, <1>2, <2>1 DEF ImportRecord, ImportStatus
  <2> HIDE DEF rec
  <2>3. QED BY <1>1, <2>1, <2>2, NothingWithin, WithinMoves
<1>4. CASE ImportUnreadable(i)
  <2> DEFINE rec == [x EXCEPT !.at = "done", !.status = "FAILED"]
  <2>1. Import(i, rec) /\ x.at = "fetch"
    BY <1>4 DEF ImportUnreadable, x
  <2>2. rec \in ImportRecord /\ rec.customers = NoCustomers /\ rec.others = 0
        /\ rec.count = x.count /\ rec.at = "done"
    BY <1>1, <1>2, <2>1 DEF ImportRecord, ImportStatus
  <2> HIDE DEF rec
  <2>3. QED BY <1>1, <2>1, <2>2, NothingWithin, WithinMoves
<1>5. ASSUME NEW n \in 0..MaxLines, ImportBegin(i, n) PROVE AllWithin'
  <2> DEFINE rec == [x EXCEPT !.at = "rows", !.count = n, !.left = n]
  <2>1. Import(i, rec) /\ x.at = "fetch" /\ n \in Nat /\ n <= MaxLines
    <3>1. Import(i, rec) /\ x.at = "fetch"
      BY <1>5 DEF ImportBegin, x
    <3>2. QED BY <3>1, DataAssumption
  <2>2. rec \in ImportRecord /\ rec.customers = NoCustomers /\ rec.others = 0
        /\ rec.count = n /\ rec.status = x.status
    BY <1>1, <1>2, <2>1 DEF ImportRecord
  <2> HIDE DEF rec
  <2>3. QED BY <1>2, <2>1, <2>2, NothingWithin, WithinMoves
<1>6. CASE ImportLineFails(i)
  <2> DEFINE back == RolledBack(x)
             rec == [back EXCEPT !.at = "failed"]
  <2>1. Import(i, rec) /\ x.at = "rows"
    BY <1>6 DEF ImportLineFails, x
  <2>2. /\ back \in ImportRecord /\ back.customers = NoCustomers /\ back.others = 0
        /\ back.status = x.status /\ back.count = x.count
    BY <1>1, NoCustomersTyped DEF ImportRecord, RolledBack
  <2> HIDE DEF back
  <2>3. /\ rec \in ImportRecord /\ rec.customers = NoCustomers /\ rec.others = 0
        /\ rec.status = x.status /\ rec.count = x.count
    BY <2>2 DEF ImportRecord
  <2>4. x.status # "FAILED"
    BY <1>1, <2>1 DEF WithinFile
  <2> HIDE DEF rec
  <2>5. QED BY <1>1, <2>1, <2>3, <2>4, NothingWithin, WithinMoves
<1>7. CASE ImportCommit(i)
  <2> DEFINE rec == [x EXCEPT !.at = "done", !.kept = x.taken, !.left = 0,
                              !.customers = NoCustomers, !.others = 0, !.taken = 0,
                              !.status = IF x.at = "rows" THEN "COMPLETED" ELSE "FAILED"]
  <2>1. Import(i, rec)
    BY <1>7 DEF ImportCommit, x
  <2>2. x.taken \in Nat
    BY <1>1 DEF ImportRecord
  <2>3. rec \in ImportRecord /\ rec.customers = NoCustomers /\ rec.others = 0
        /\ rec.count = x.count /\ rec.at = "done"
    BY <1>1, <2>2, NoCustomersTyped DEF ImportRecord, ImportStatus
  <2> HIDE DEF rec
  <2>4. QED BY <1>1, <2>1, <2>3, NothingWithin, WithinMoves
<1>8. CASE ImportDies(i)
  <2> DEFINE rec == [NewImport EXCEPT !.at = "done", !.status = "PROCESSING"]
  <2>1. Import(i, rec)
    BY <1>8 DEF ImportDies
  <2>2. NewImport \in ImportRecord /\ NewImport.others = 0 /\ NewImport.count = 0
        /\ NewImport.customers = NoCustomers
    BY NewImportTyped DEF NewImport
  <2>3. rec \in ImportRecord /\ rec.customers = NoCustomers /\ rec.others = 0
        /\ rec.count = 0 /\ rec.at = "done"
    BY <2>2 DEF ImportRecord, ImportStatus
  <2>4. 0 <= MaxLines
    BY DataAssumption
  <2> HIDE DEF rec
  <2>5. QED BY <2>1, <2>3, <2>4, NothingWithin, WithinMoves
<1>9. QED BY <1>3, <1>4, <1>5, <1>6, <1>7, <1>8

LEMMA WithinStep == ImportsInv /\ AllWithin /\ [DataNext]_dataVars => AllWithin'
<1> SUFFICES ASSUME ImportsInv, AllWithin, [DataNext]_dataVars PROVE AllWithin'
  OBVIOUS
<1>1. ASSUME importJob' = importJob PROVE AllWithin'
  BY <1>1 DEF AllWithin, WithinFile, Newcomers
<1>2. CASE UNCHANGED dataVars \/ ExportNext
  BY <1>1, <1>2, ExportsLeaveImports DEF dataVars, ExportRest
<1>3. CASE \E p \in Numbers : AddCustomer(p)
  BY <1>1, <1>3 DEF AddCustomer
<1>4. ASSUME NEW i \in Imports, NEW p \in Numbers, NEW named \in BOOLEAN,
             NEW record \in BOOLEAN, ImportLine(i, p, named, record)
      PROVE  AllWithin'
  BY <1>4, WithinLine
<1>5. ASSUME NEW i \in Imports,
             ImportStart(i) \/ ImportUnreadable(i) \/ (\E n \in 0..MaxLines : ImportBegin(i, n))
               \/ ImportLineFails(i) \/ ImportCommit(i) \/ ImportDies(i)
      PROVE  AllWithin'
  BY <1>5, WithinEmpty
<1>6. QED BY <1>2, <1>3, <1>4, <1>5 DEF DataNext, ImportNext

\* What the promise sees of the imports, and that most steps change none of it.
Outcomes == [i \in Imports |-> Outcome(i)]
KeptLines == [i \in Imports |-> importJob[i].kept]

LEMMA SameOutcome ==
  ASSUME ImportsInv, NEW i \in Imports, NEW rec, Import(i, rec), UNCHANGED <<directory, records>>,
         rec.status \notin {"COMPLETED", "FAILED"},
         importJob[i].status \notin {"COMPLETED", "FAILED"}, rec.kept = importJob[i].kept
  PROVE  UNCHANGED <<directory, records, Outcomes, KeptLines>>
<1> DEFINE new == importJob'
<1>1. importJob \in [Imports -> ImportRecord]
  BY DEF ImportsInv, ImportsTyped
<1>2. new[i] = rec /\ \A k \in Imports \ {i} : new[k] = importJob[k]
  BY <1>1 DEF Import
<1> HIDE DEF new
<1>3. \A k \in Imports : /\ new[k].kept = importJob[k].kept
                         /\ (IF new[k].status \in {"COMPLETED", "FAILED"}
                               THEN new[k].status ELSE "OPEN") = Outcome(k)
  BY <1>2 DEF Outcome
<1>4. \A k \in Imports : Outcome(k)' = Outcome(k) /\ importJob'[k].kept = importJob[k].kept
  BY <1>3 DEF Outcome, new
<1>5. QED BY <1>4 DEF Outcomes, KeptLines

\* An import ends: its outcome is settled and the lines it keeps are known.
LEMMA Settles ==
  ASSUME ImportsInv, NEW i \in Imports, NEW rec, Import(i, rec),
         rec.status \in {"COMPLETED", "FAILED"}
  PROVE  /\ Outcomes' = [Outcomes EXCEPT ![i] = rec.status]
         /\ KeptLines' = [KeptLines EXCEPT ![i] = rec.kept]
<1> DEFINE new == importJob'
<1>1. importJob \in [Imports -> ImportRecord]
  BY DEF ImportsInv, ImportsTyped
<1>2. new[i] = rec /\ \A k \in Imports \ {i} : new[k] = importJob[k]
  BY <1>1 DEF Import
<1> HIDE DEF new
<1>3. /\ Outcomes' = [k \in Imports |-> IF new[k].status \in {"COMPLETED", "FAILED"}
                                          THEN new[k].status ELSE "OPEN"]
      /\ KeptLines' = [k \in Imports |-> new[k].kept]
  BY DEF Outcomes, KeptLines, Outcome, new
<1>4. /\ Outcomes = [k \in Imports |-> Outcome(k)]
      /\ KeptLines = [k \in Imports |-> importJob[k].kept]
  BY DEF Outcomes, KeptLines
<1>5. \A k \in Imports : (IF new[k].status \in {"COMPLETED", "FAILED"}
                            THEN new[k].status ELSE "OPEN")
                          = IF k = i THEN rec.status ELSE Outcome(k)
  BY <1>2 DEF Outcome
<1>6. \A k \in Imports : new[k].kept = IF k = i THEN rec.kept ELSE importJob[k].kept
  BY <1>2
<1>7. Outcomes' = [k \in Imports |-> IF k = i THEN rec.status ELSE Outcome(k)]
  BY <1>3, <1>5
<1>8. KeptLines' = [k \in Imports |-> IF k = i THEN rec.kept ELSE importJob[k].kept]
  BY <1>3, <1>6
<1>9. QED BY <1>4, <1>7, <1>8

\* The steps of the promise, with its variables as the imports have them.
LEMMA PromiseStutter ==
  UNCHANGED <<directory, records, Outcomes, KeptLines>> => UNCHANGED Atomic!vars
BY DEF Atomic!vars, Outcomes, KeptLines

LEMMA PromiseRefuse ==
  ASSUME NEW i \in Imports, Outcomes[i] = "OPEN", Outcomes' = [Outcomes EXCEPT ![i] = "FAILED"],
         UNCHANGED <<directory, records, KeptLines>>
  PROVE  Atomic!Refuse(i)
BY DEF Atomic!Refuse, Outcomes, KeptLines

LEMMA PromiseComplete ==
  ASSUME NEW i \in Imports, NEW n, Outcomes[i] = "OPEN",
         Outcomes' = [Outcomes EXCEPT ![i] = "COMPLETED"], KeptLines' = [KeptLines EXCEPT ![i] = n],
         NEW newcomers \in SUBSET Phones, NEW nameless \in 0..n, NEW more \in 0..n,
         \A p \in newcomers : directory[p] = 0,
         IsFiniteSet(newcomers), Cardinality(newcomers) + nameless <= n,
         directory' = [p \in Phones \cup {NoPhone} |->
                         IF p \in newcomers THEN 1
                         ELSE IF p = NoPhone THEN directory[p] + nameless ELSE directory[p]],
         records' = records + more
  PROVE  Atomic!Complete(i, n)
<1>1. Atomic!IsFiniteSet(newcomers) <=> IsFiniteSet(newcomers)
  BY DEF IsFiniteSet, Atomic!IsFiniteSet
<1>2. Atomic!Cardinality(newcomers) = Cardinality(newcomers)
  BY DEF Cardinality, Atomic!Cardinality
<1>3. QED BY <1>1, <1>2 DEF Atomic!Complete, Outcomes, KeptLines

LEMMA CommitCompletes ==
  ASSUME ImportsInv, AllWithin, NEW i \in Imports, ImportCommit(i), importJob[i].at = "rows"
  PROVE  \E n \in 0..MaxLines : Atomic!Complete(i, n)
<1> DEFINE x == importJob[i]
           n == x.taken
           rec == [x EXCEPT !.at = "done", !.kept = n, !.left = 0,
                            !.customers = NoCustomers, !.others = 0, !.taken = 0,
                            !.status = IF x.at = "rows" THEN "COMPLETED" ELSE "FAILED"]
           new == Newcomers(x)
           nameless == x.customers[NoPhone]
<1>1. x \in ImportRecord /\ LinesAddUp(x) /\ WithinFile(x) /\ x.at = "rows" /\ x.left = 0
  BY ImportKnown DEF AllWithin, ImportCommit
<1>2. /\ Import(i, rec) /\ records' = records + x.others
      /\ directory' = [p \in Numbers |-> directory[p] + x.customers[p]]
  BY DEF ImportCommit
<1>3. rec.status = "COMPLETED" /\ rec.kept = n
  BY <1>1 DEF ImportRecord
<1>4. x.customers \in [Numbers -> Nat] /\ n \in Nat /\ x.others \in Nat /\ x.count \in Nat
  BY <1>1 DEF ImportRecord
<1>5. NoPhone \in Numbers /\ Phones \subseteq Numbers /\ NoPhone \notin Phones /\ nameless \in Nat
  BY <1>4, DataAssumption DEF Numbers
<1>6. n <= MaxLines /\ n \in 0..MaxLines /\ x.others \in 0..n
  <2>1. x.skipped \in Nat /\ n + x.skipped = x.count /\ x.count <= MaxLines /\ x.others <= n
    BY <1>1, <1>4 DEF LinesAddUp, WithinFile, ImportRecord
  <2>2. QED BY <1>4, <2>1, DataAssumption
<1>7. IsFiniteSet(new) /\ Cardinality(new) + nameless <= n /\ Cardinality(new) \in Nat
  BY <1>1, FS_CardinalityType DEF WithinFile
<1>8. nameless \in 0..n
  BY <1>4, <1>5, <1>7
<1>9. \A p \in new : x.customers[p] = 1 /\ directory[p] = 0
  BY DEF Newcomers, ImportsInv, OnlyOnes
<1>10. directory \in [Numbers -> Nat]
  BY DEF ImportsInv, ImportsTyped
<1>11. \A p \in Numbers : directory[p] + x.customers[p] =
         IF p \in new THEN 1 ELSE IF p = NoPhone THEN directory[p] + nameless ELSE directory[p]
  <2> SUFFICES ASSUME NEW p \in Numbers
               PROVE  directory[p] + x.customers[p] =
                        IF p \in new THEN 1
                        ELSE IF p = NoPhone THEN directory[p] + nameless ELSE directory[p]
    OBVIOUS
  <2>1. directory[p] \in Nat
    BY <1>10
  <2>2. CASE p \in new
    BY <1>9, <2>2
  <2>3. CASE p \notin new /\ p # NoPhone
    <3>1. x.customers[p] = 0
      BY <2>3 DEF Newcomers, Numbers
    <3>2. QED BY <2>1, <2>3, <3>1
  <2>4. CASE p \notin new /\ p = NoPhone
    BY <2>4
  <2>5. QED BY <2>2, <2>3, <2>4
<1>12. directory' = [p \in Phones \cup {NoPhone} |->
                       IF p \in new THEN 1
                       ELSE IF p = NoPhone THEN directory[p] + nameless ELSE directory[p]]
  BY <1>2, <1>11 DEF Numbers
<1>13. Outcomes[i] = "OPEN"
  BY <1>1 DEF Outcomes, Outcome, LinesAddUp, WithinFile
<1> HIDE DEF rec
<1>14. Outcomes' = [Outcomes EXCEPT ![i] = "COMPLETED"] /\ KeptLines' = [KeptLines EXCEPT ![i] = n]
  BY <1>2, <1>3, Settles
<1>15. new \in SUBSET Phones
  BY DEF Newcomers
<1>16. records' = records + x.others
  BY <1>2
<1> HIDE DEF new, nameless, n
<1>17. PICK k \in 0..MaxLines : k = n
  BY <1>6
<1>18. PICK newcomers \in SUBSET Phones : newcomers = new
  BY <1>15
<1>19. PICK strangers \in 0..k : strangers = nameless
  BY <1>8, <1>17
<1>20. PICK more \in 0..k : more = x.others
  BY <1>6, <1>17
<1>21. /\ KeptLines' = [KeptLines EXCEPT ![i] = k] /\ records' = records + more
       /\ \A p \in newcomers : directory[p] = 0
       /\ IsFiniteSet(newcomers) /\ Cardinality(newcomers) + strangers <= k
  BY <1>7, <1>9, <1>14, <1>16, <1>17, <1>18, <1>19, <1>20
<1>22. directory' = [p \in Phones \cup {NoPhone} |->
                       IF p \in newcomers THEN 1
                       ELSE IF p = NoPhone THEN directory[p] + strangers ELSE directory[p]]
  BY <1>12, <1>18, <1>19
<1>23. Atomic!Complete(i, k)
  BY <1>13, <1>14, <1>21, <1>22, PromiseComplete
<1>24. QED BY <1>23

LEMMA RefusedIsRefuse ==
  ASSUME ImportsInv, AllWithin, NEW i \in Imports,
         ImportUnreadable(i) \/ (ImportCommit(i) /\ importJob[i].at # "rows")
  PROVE  Atomic!Refuse(i)
<1> DEFINE x == importJob[i]
<1>1. /\ x \in ImportRecord /\ LinesAddUp(x) /\ WithinFile(x) /\ x.at \in {"fetch", "failed"}
      /\ directory \in [Numbers -> Nat] /\ records \in Nat
  BY ImportKnown DEF AllWithin, ImportCommit, ImportUnreadable, Holds
<1>2. /\ x.taken = 0 /\ x.kept = 0 /\ x.others = 0 /\ x.customers = NoCustomers
      /\ x.status \notin {"COMPLETED", "FAILED"}
  BY <1>1 DEF LinesAddUp, WithinFile
<1>3. UNCHANGED <<directory, records>>
  <2>1. CASE ImportUnreadable(i)
    BY <2>1 DEF ImportUnreadable
  <2>2. CASE ImportCommit(i)
    <3>1. \A p \in Numbers : directory[p] + x.customers[p] = directory[p]
      BY <1>1, <1>2 DEF NoCustomers
    <3>2. QED BY <1>1, <1>2, <2>2, <3>1 DEF ImportCommit
  <2>3. QED BY <2>1, <2>2
<1>4. \E rec : Import(i, rec) /\ rec.status = "FAILED" /\ rec.kept = 0
  <2>1. CASE ImportUnreadable(i)
    <3> DEFINE rec == [x EXCEPT !.at = "done", !.status = "FAILED"]
    <3>1. Import(i, rec) /\ rec.status = "FAILED" /\ rec.kept = 0
      BY <1>1, <1>2, <2>1 DEF ImportUnreadable, ImportRecord
    <3>2. QED BY <3>1
  <2>2. CASE ImportCommit(i)
    <3> DEFINE rec == [x EXCEPT !.at = "done", !.kept = x.taken, !.left = 0,
                                !.customers = NoCustomers, !.others = 0, !.taken = 0,
                                !.status = IF x.at = "rows" THEN "COMPLETED" ELSE "FAILED"]
    <3>1. Import(i, rec)
      BY <2>2 DEF ImportCommit
    <3>2. rec.status = "FAILED" /\ rec.kept = 0
      BY <1>1, <1>2 DEF ImportRecord
    <3>3. QED BY <3>1, <3>2
  <2>3. QED BY <2>1, <2>2
<1>5. Outcomes' = [Outcomes EXCEPT ![i] = "FAILED"] /\ KeptLines' = [KeptLines EXCEPT ![i] = 0]
  BY <1>4, Settles
<1>6. Outcomes[i] = "OPEN" /\ KeptLines[i] = 0
  BY <1>2 DEF Outcomes, Outcome, KeptLines
<1>7. KeptLines' = KeptLines
  BY <1>5, <1>6 DEF KeptLines
<1>8. QED BY <1>3, <1>5, <1>6, <1>7, PromiseRefuse

\* The other steps of an import are invisible to the user.
LEMMA InsideIsHidden ==
  ASSUME ImportsInv, AllWithin, NEW i \in Imports,
         \/ ImportStart(i) \/ ImportLineFails(i) \/ ImportDies(i)
         \/ \E n \in 0..MaxLines : ImportBegin(i, n)
         \/ \E p \in Numbers, named, record \in BOOLEAN : ImportLine(i, p, named, record)
  PROVE  UNCHANGED <<directory, records, Outcomes, KeptLines>>
<1> DEFINE x == importJob[i]
<1>1. x \in ImportRecord /\ LinesAddUp(x) /\ WithinFile(x) /\ x.at # "done"
  BY ImportKnown DEF AllWithin, ImportStart, ImportLineFails, ImportDies, ImportBegin, ImportLine
<1>2. x.kept = 0 /\ x.status \notin {"COMPLETED", "FAILED"}
  BY <1>1 DEF LinesAddUp, WithinFile
<1>3. UNCHANGED <<directory, records>>
  BY DEF ImportStart, ImportLineFails, ImportDies, ImportBegin, ImportLine
<1>4. \E rec : Import(i, rec) /\ rec.status \notin {"COMPLETED", "FAILED"} /\ rec.kept = 0
  <2>1. CASE ImportStart(i)
    <3> DEFINE rec == [x EXCEPT !.at = "fetch", !.status = "PROCESSING"]
    <3>1. Import(i, rec) /\ rec.status = "PROCESSING" /\ rec.kept = 0
      BY <1>1, <1>2, <2>1 DEF ImportStart, ImportRecord
    <3>2. QED BY <3>1
  <2>2. CASE ImportLineFails(i)
    <3> DEFINE back == RolledBack(x)
               rec == [back EXCEPT !.at = "failed"]
    <3>1. Import(i, rec)
      BY <2>2 DEF ImportLineFails
    <3>2. back \in ImportRecord /\ back.kept = x.kept /\ back.status = x.status
      BY <1>1, NoCustomersTyped DEF ImportRecord, RolledBack
    <3> HIDE DEF back
    <3>3. rec.kept = back.kept /\ rec.status = back.status
      BY <3>2 DEF ImportRecord
    <3>4. QED BY <1>2, <3>1, <3>2, <3>3
  <2>3. CASE ImportDies(i)
    <3> DEFINE rec == [NewImport EXCEPT !.at = "done", !.status = "PROCESSING"]
    <3>1. Import(i, rec)
      BY <2>3 DEF ImportDies
    <3>2. rec.status = "PROCESSING" /\ rec.kept = 0
      BY DEF NewImport
    <3>3. QED BY <3>1, <3>2
  <2>4. ASSUME NEW n \in 0..MaxLines, ImportBegin(i, n)
        PROVE  \E rec : Import(i, rec) /\ rec.status \notin {"COMPLETED", "FAILED"} /\ rec.kept = 0
    <3> DEFINE rec == [x EXCEPT !.at = "rows", !.count = n, !.left = n]
    <3>1. Import(i, rec)
      BY <2>4 DEF ImportBegin
    <3>2. rec.status = x.status /\ rec.kept = x.kept
      BY <1>1 DEF ImportRecord
    <3> HIDE DEF rec
    <3>3. QED BY <1>2, <3>1, <3>2
  <2>5. ASSUME NEW p \in Numbers, NEW named \in BOOLEAN, NEW record \in BOOLEAN,
               ImportLine(i, p, named, record)
        PROVE  \E rec : Import(i, rec) /\ rec.status \notin {"COMPLETED", "FAILED"} /\ rec.kept = 0
    <3> DEFINE cs == [x.customers EXCEPT ![p] = IF named /\ ~(p # NoPhone /\ Matching(i, p) > 0)
                                                  THEN @ + 1 ELSE @]
               others == IF record THEN x.others + 1 ELSE x.others
               some == ImportsSomething(named, record)
               taken == IF some THEN x.taken + 1 ELSE x.taken
               skipped == IF some THEN x.skipped ELSE x.skipped + 1
               rec == [x EXCEPT !.left = @ - 1, !.taken = taken, !.skipped = skipped,
                                !.customers = cs, !.others = others]
    <3>1. Import(i, [x EXCEPT !.left = @ - 1,
                              !.taken = IF some THEN @ + 1 ELSE @,
                              !.skipped = IF some THEN @ ELSE @ + 1,
                              !.customers[p] = IF named /\ ~(p # NoPhone /\ Matching(i, p) > 0)
                                                 THEN @ + 1 ELSE @,
                              !.others = IF record THEN @ + 1 ELSE @])
      BY <2>5 DEF ImportLine
    <3>2. [x EXCEPT !.left = @ - 1,
                    !.taken = IF some THEN @ + 1 ELSE @,
                    !.skipped = IF some THEN @ ELSE @ + 1,
                    !.customers[p] = IF named /\ ~(p # NoPhone /\ Matching(i, p) > 0)
                                       THEN @ + 1 ELSE @,
                    !.others = IF record THEN @ + 1 ELSE @] = rec
      BY <1>1 DEF ImportRecord
    <3>3. Import(i, rec)
      BY <3>1, <3>2
    <3> HIDE DEF cs, others, taken, skipped
    <3>4. rec.status = x.status /\ rec.kept = x.kept
      BY <1>1 DEF ImportRecord
    <3> HIDE DEF rec
    <3>5. QED BY <1>2, <3>3, <3>4
  <2>6. QED BY <2>1, <2>2, <2>3, <2>4, <2>5
<1>5. PICK rec : Import(i, rec) /\ rec.status \notin {"COMPLETED", "FAILED"} /\ rec.kept = 0
  BY <1>4
<1>6. QED BY <1>2, <1>3, <1>5, SameOutcome

LEMMA AtomicInit == DataInit => Atomic!Init
<1> SUFFICES ASSUME DataInit PROVE Atomic!Init
  OBVIOUS
<1>1. \A i \in Imports : Outcome(i) = "OPEN" /\ importJob[i].kept = 0
  BY DEF DataInit, Outcome, NewImport
<1>2. QED BY <1>1 DEF DataInit, NoCustomers, Numbers, Atomic!Init

LEMMA AtomicStep ==
  ImportsInv /\ AllWithin /\ [DataNext]_dataVars => [Atomic!Next]_Atomic!vars
<1> SUFFICES ASSUME ImportsInv, AllWithin, [DataNext]_dataVars
             PROVE  Atomic!Next \/ UNCHANGED <<directory, records, Outcomes, KeptLines>>
  BY PromiseStutter
<1>1. ASSUME UNCHANGED <<directory, records, importJob>>
      PROVE  UNCHANGED <<directory, records, Outcomes, KeptLines>>
  BY <1>1 DEF Outcomes, KeptLines, Outcome
<1>2. CASE UNCHANGED dataVars \/ ExportNext
  BY <1>1, <1>2, ExportsLeaveImports DEF dataVars, ExportRest
<1>3. ASSUME NEW p \in Numbers, AddCustomer(p) PROVE Atomic!Next
  <2>1. Atomic!Arrive(p)
    BY <1>3 DEF AddCustomer, Atomic!Arrive, Outcome
  <2>2. QED BY <2>1 DEF Atomic!Next, Numbers
<1>4. ASSUME NEW i \in Imports, ImportCommit(i) PROVE Atomic!Next
  BY <1>4, CommitCompletes, RefusedIsRefuse DEF Atomic!Next
<1>5. ASSUME NEW i \in Imports, ImportUnreadable(i) PROVE Atomic!Next
  BY <1>5, RefusedIsRefuse DEF Atomic!Next
<1>6. ASSUME NEW i \in Imports,
             \/ ImportStart(i) \/ ImportLineFails(i) \/ ImportDies(i)
             \/ \E n \in 0..MaxLines : ImportBegin(i, n)
             \/ \E p \in Numbers, named, record \in BOOLEAN : ImportLine(i, p, named, record)
      PROVE  UNCHANGED <<directory, records, Outcomes, KeptLines>>
  BY <1>6, InsideIsHidden
<1>7. QED BY <1>2, <1>3, <1>4, <1>5, <1>6 DEF DataNext, ImportNext

\* An import is atomic to everybody else: line by line in its savepoint, beside other
\* imports and requests, it takes effect at one moment or not at all.
THEOREM ImportsTakeEffectAtOnce == DataSpec => ImportsAreAtomic
<1>1. DataInit => Atomic!Init /\ AllWithin
  BY AtomicInit, WithinInit
<1>2. DataInv /\ AllWithin /\ [DataNext]_dataVars => AllWithin'
  BY DataHalves, WithinStep
<1>3. DataInv /\ AllWithin /\ [DataNext]_dataVars => [Atomic!Next]_Atomic!vars
  BY DataHalves, AtomicStep
<1>4. QED
  BY <1>1, <1>2, <1>3, DataInvariant, PTL DEF DataSpec, ImportsAreAtomic, Atomic!Spec

=============================================================================
